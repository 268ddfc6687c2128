-------------------------------- MODULE Quota --------------------------------
(***************************************************************************)
(* What rate limiting promises for one user and one vault: callers ask for *)
(* a number of operations and are answered how many they may do.  In a     *)
(* window of Period ticks at most Value operations are handed out, as if   *)
(* the callers had come one at a time.  A call is dated by the moment it   *)
(* was made; a call made after the end of the window opens the next one.   *)
(* When the database fails the caller is answered all the same (Unlimited, *)
(* or a share that was never written down), or vanishes unanswered.        *)
(***************************************************************************)
EXTENDS Naturals

CONSTANTS Callers,    \* those who ask
          Value,      \* operations per window
          Period,     \* length of a window
          Requests,   \* the numbers of operations that may be asked for
          Unlimited   \* the answer when the database failed

VARIABLES clock,
          left,       \* what remains of the current window
          ends,       \* last tick of the current window
          call,       \* call[c]: "none", "asking" or "answered"
          want,       \* want[c]: number asked for
          since,      \* since[c]: when c asked
          answer      \* answer[c]

vars == <<clock, left, ends, call, want, since, answer>>

Init == /\ clock \in Nat /\ ends \in Nat /\ left \in 0..Value
        /\ call = [c \in Callers |-> "none"]
        /\ want = [c \in Callers |-> 0] /\ since = [c \in Callers |-> 0]
        /\ answer = [c \in Callers |-> 0]

Tick == /\ clock' = clock + 1
        /\ UNCHANGED <<left, ends, call, want, since, answer>>

Ask(c) == /\ call[c] # "asking"
          /\ \E n \in Requests : want' = [want EXCEPT ![c] = n]
          /\ since' = [since EXCEPT ![c] = clock]
          /\ call' = [call EXCEPT ![c] = "asking"]
          /\ answer' = [answer EXCEPT ![c] = 0]
          /\ UNCHANGED <<clock, left, ends>>

Available(c) == IF ends < since[c] THEN Value ELSE left
Share(c) == IF want[c] <= Available(c) THEN want[c] ELSE Available(c)

Done(c) == /\ call[c] = "asking"
           /\ want' = [want EXCEPT ![c] = 0]
           /\ since' = [since EXCEPT ![c] = 0]
           /\ UNCHANGED clock

Answered(c, a) == /\ Done(c)
                  /\ call' = [call EXCEPT ![c] = "answered"]
                  /\ answer' = [answer EXCEPT ![c] = a]

Serve(c) == /\ Answered(c, Share(c))
            /\ left' = Available(c) - Share(c)
            /\ ends' = IF ends < since[c] THEN since[c] + Period ELSE ends

(* The share of the caller was computed but its bookkeeping was lost.      *)
ServeUnrecorded(c) == Answered(c, Share(c)) /\ UNCHANGED <<left, ends>>

FailOpen(c) == Answered(c, Unlimited) /\ UNCHANGED <<left, ends>>

Vanish(c) == /\ Done(c)
             /\ call' = [call EXCEPT ![c] = "none"]
             /\ UNCHANGED <<left, ends, answer>>

Next == \/ Tick
        \/ \E c \in Callers : Ask(c) \/ Serve(c) \/ ServeUnrecorded(c) \/ FailOpen(c) \/ Vanish(c)

Spec == Init /\ [][Next]_vars
=============================================================================
