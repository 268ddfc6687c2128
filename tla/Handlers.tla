------------------------------ MODULE Handlers ------------------------------
(***************************************************************************)
(* The request handlers of Tokenization (src/src/include/tokenization.hh): *)
(* what happens between a worker calling a handler and the handler         *)
(* returning to the session, for several requests at once that share one   *)
(* user's quota for one vault and the metrics.  Every call of the database *)
(* or of the token manager is a step of its own, and an exception may      *)
(* leave the handler wherever the code does not catch one.                 *)
(*                                                                         *)
(* rate_limit() is one step here: with its row in place RateLimit          *)
(* implements Quota, which answers calls one at a time.  The handlers stay *)
(* within one window of the quota.                                         *)
(***************************************************************************)
EXTENDS Naturals, SequencesExt

CONSTANTS Requests,   \* HTTP requests that reach a handler
          Value,      \* operations the quota allows in the window
          MaxItems,   \* bound of the length of an array body
          MayFail     \* the database and the token manager may fail

ASSUME QuotaAssumption == Value \in Nat /\ MaxItems \in Nat /\ MayFail \in BOOLEAN
ASSUME RequestsAssumption == IsFiniteSet(Requests)

VARIABLES at,        \* at[r]: what the handler of r does next
          req,       \* req[r]: the request
          access,    \* access[r]: authorized() found user and grant
          limit,     \* limit[r]: operations the handler may still do
          granted,   \* history: the limit that preliminary() returned
          entries,   \* entries[r]: results so far, one for each item
          ended,     \* history: how the handler ended
          left,      \* what remains of the quota
          unpaid,    \* history: requests whose charge the database lost
          gauge,     \* req_count
          observed,  \* number of observations of resp_time
          counter    \* req_good, req_limit and req_bad

metrics == <<gauge, observed, counter>>
vars == <<at, req, access, limit, granted, entries, ended, left, unpaid, gauge, observed, counter>>

(* The routes; both status routes are "status".                            *)
Kinds   == {"get", "put", "post", "delete", "query", "status"}
HasBody == {"put", "post"}

(* How the work on one item goes: it is done, the manager throws and the   *)
(* entry carries an error, or the handler is left by an exception before   *)
(* the manager did anything (a field of the wrong JSON type, a query       *)
(* parameter that is no number).                                           *)
Outcomes(kind) == CASE kind \in {"get", "delete"} -> {"ok"} \cup (IF MayFail THEN {"error"} ELSE {})
                    [] kind = "status" -> {"ok"} \cup (IF MayFail THEN {"throw"} ELSE {})
                    [] kind = "query" -> {"ok", "throw"}
                    [] OTHER -> {"ok", "throw"} \cup (IF MayFail THEN {"error"} ELSE {})

Bodies(kind) == IF kind \in HasBody THEN UNION {[1..n -> Outcomes(kind)] : n \in 0..MaxItems}
                ELSE [1..1 -> Outcomes(kind)]

NoRequest == [kind |-> "none", array |-> FALSE, items |-> <<>>]

(* A request without an array body is a single item.                       *)
RequestSet == {q \in UNION {[kind : {k}, array : BOOLEAN, items : Bodies(k)] : k \in Kinds} :
                 IF q.array THEN q.kind \in HasBody ELSE Len(q.items) = 1}

(* What preliminary() charges, and the items the handler goes through: PUT *)
(* takes an array as the one body it expects.                              *)
Cost(q)  == IF q.array THEN Len(q.items) ELSE 1
Items(q) == IF q.array /\ q.kind = "put"
            THEN <<IF q.items # <<>> /\ q.items[1] = "error" THEN "error" ELSE "ok">>
            ELSE q.items

(* uint32_t( -1 ), more than any body has items.                           *)
Unlimited == MaxItems + 1

Init == /\ at = [r \in Requests |-> "new"]
        /\ req = [r \in Requests |-> NoRequest]
        /\ access = [r \in Requests |-> FALSE]
        /\ limit = [r \in Requests |-> 0]
        /\ granted = [r \in Requests |-> 0]
        /\ entries = [r \in Requests |-> <<>>]
        /\ ended = [r \in Requests |-> "not"]
        /\ left = Value
        /\ unpaid = {}
        /\ gauge = 0 /\ observed = 0
        /\ counter = [good |-> 0, overdraw |-> 0, bad |-> 0]

-----------------------------------------------------------------------------
Goto(r, label) == at' = [at EXCEPT ![r] = label]

(* The handler is called and its two trackers are built.                   *)
Enter(r) ==
    /\ at[r] = "new"
    /\ \E q \in RequestSet :
          /\ req' = [req EXCEPT ![r] = q]
          /\ Goto(r, IF q.kind = "status" THEN "work"
                     ELSE IF q.kind \in HasBody THEN "parse" ELSE "authorize")
    /\ gauge' = gauge + 1
    /\ UNCHANGED <<access, limit, granted, entries, ended, left, unpaid, observed, counter>>

(* Without the trackers' destructors.                                      *)
ThrowPastTrackers(r) ==
    /\ Goto(r, "done")
    /\ ended' = [ended EXCEPT ![r] = "threw"]
    /\ UNCHANGED <<req, access, limit, granted, entries, left, unpaid, metrics>>

(* An exception leaves the handler: only destructors run.                  *)
Throw(r) ==
    /\ Goto(r, "leave")
    /\ ended' = [ended EXCEPT ![r] = "threw"]
    /\ UNCHANGED <<req, access, limit, granted, entries, left, unpaid, metrics>>

(* json::parse of the body, which may be no JSON.                          *)
ParseOK(r) ==
    /\ at[r] = "parse"
    /\ Goto(r, "authorize")
    /\ UNCHANGED <<req, access, limit, granted, entries, ended, left, unpaid, metrics>>

ParseFails(r) == at[r] = "parse" /\ Throw(r)

(* preliminary() returned 0: the whole response is a 401 without access,   *)
(* or a 403 with nothing left of the quota.                                *)
Turned(r, status) ==
    /\ counter' = [counter EXCEPT !.overdraw = @ + 1]
    /\ ended' = [ended EXCEPT ![r] = status]
    /\ Goto(r, "leave")

(* authorized(): credentials or token, then accessible().                  *)
Authorized(r) ==
    /\ at[r] = "authorize"
    /\ access' = [access EXCEPT ![r] = TRUE]
    /\ Goto(r, "charge")
    /\ UNCHANGED <<req, limit, granted, entries, ended, left, unpaid, metrics>>

Denied(r) ==
    /\ at[r] = "authorize"
    /\ Turned(r, "unauthorized")
    /\ UNCHANGED <<req, access, limit, granted, entries, left, unpaid, gauge, observed>>

(* The database fails, or the credentials are no base64.                   *)
AuthorizeFails(r) == at[r] = "authorize" /\ Throw(r)

(* rate_limit() answered a; left is what the quota has then.               *)
Granted(r, a) ==
    /\ at[r] = "charge"
    /\ limit' = [limit EXCEPT ![r] = a]
    /\ granted' = [granted EXCEPT ![r] = a]
    /\ IF a = 0
       THEN Turned(r, "forbidden")
       ELSE Goto(r, "work") /\ UNCHANGED <<ended, counter>>
    /\ UNCHANGED <<req, access, entries, gauge, observed>>

(* A grant that is not limited to what is left.                            *)
ShareUnclamped(r) == Cost(req[r])

Share(r) == IF Cost(req[r]) <= left THEN Cost(req[r]) ELSE left

Charge(r) == Granted(r, Share(r)) /\ left' = left - Share(r) /\ UNCHANGED unpaid

(* The statement failed, or only the commit after it: rate_limit() answers *)
(* -1 or what was computed, and nothing is recorded.                       *)
ChargeFails(r) ==
    /\ MayFail
    /\ \E a \in {Unlimited, Share(r)} : Granted(r, a)
    /\ unpaid' = unpaid \cup {r}
    /\ UNCHANGED left

(* rate_limit() throws: there is no connection, or the rollback failed too.*)
ChargeThrows(r) == MayFail /\ at[r] = "charge" /\ Throw(r)

-----------------------------------------------------------------------------
Position(r) == Len(entries[r]) + 1
MoreWork(r) == at[r] = "work" /\ Position(r) <= Len(Items(req[r]))

(* Throttling one item too soon, or in the wrong place.                    *)
ThrottleLast(r) ==
    /\ MoreWork(r) /\ req[r].kind = "post" /\ limit[r] <= 1
    /\ entries' = [entries EXCEPT ![r] = Append(@, "throttled")]
    /\ UNCHANGED <<at, req, access, limit, granted, ended, left, unpaid, metrics>>

ThrottlePrepends(r) ==
    /\ MoreWork(r) /\ req[r].kind = "post" /\ limit[r] = 0
    /\ entries' = [entries EXCEPT ![r] = <<"throttled">> \o @]
    /\ UNCHANGED <<at, req, access, limit, granted, ended, left, unpaid, metrics>>

(* One item: POST marks the items beyond its limit as throttled, the other *)
(* handlers have one item and a limit of at least one.                     *)
Throttle(r) ==
    /\ MoreWork(r) /\ req[r].kind = "post" /\ limit[r] = 0
    /\ entries' = [entries EXCEPT ![r] = Append(@, "throttled")]
    /\ UNCHANGED <<at, req, access, limit, granted, ended, left, unpaid, metrics>>

Item(r, decrement) ==
    /\ MoreWork(r) /\ (req[r].kind = "post" => limit[r] > 0)
    /\ LET outcome == Items(req[r])[Position(r)]
       IN  IF outcome = "throw"
           THEN Throw(r)
           ELSE /\ entries' = [entries EXCEPT ![r] = Append(@, outcome)]
                /\ limit' = [limit EXCEPT ![r] = IF req[r].kind = "post" THEN @ - decrement ELSE @]
                /\ UNCHANGED <<at, req, access, granted, ended, left, unpaid, metrics>>

WorkUncounted(r) == Item(r, 0)

Work(r) == Item(r, 1)

(* response_set(): an object with "error" is a failure, an array never.    *)
(* POST answers an array with an array.                                    *)
Failed(r) == ~(req[r].array /\ req[r].kind = "post") /\ Last(entries[r]) = "error"

Respond(r) ==
    /\ at[r] = "work" /\ ~MoreWork(r)
    /\ counter' = IF Failed(r) THEN [counter EXCEPT !.bad = @ + 1] ELSE [counter EXCEPT !.good = @ + 1]
    /\ ended' = [ended EXCEPT ![r] = "responded"]
    /\ Goto(r, "leave")
    /\ UNCHANGED <<req, access, limit, granted, entries, left, unpaid, gauge, observed>>

(* json.dump() throws for text out of the vault or the path that is not    *)
(* UTF-8, before anything is counted.                                      *)
RespondThrows(r) ==
    /\ at[r] = "work" /\ ~MoreWork(r) /\ entries[r] # <<>>
    /\ Throw(r)

(* The trackers are destroyed, on return and when an exception passes.     *)
Leave(r) ==
    /\ at[r] = "leave"
    /\ gauge' = gauge - 1 /\ observed' = observed + 1
    /\ Goto(r, "done")
    /\ UNCHANGED <<req, access, limit, granted, entries, ended, left, unpaid, counter>>

Handler(r) == \/ ParseOK(r) \/ ParseFails(r)
              \/ Authorized(r) \/ Denied(r) \/ AuthorizeFails(r)
              \/ Charge(r) \/ ChargeFails(r) \/ ChargeThrows(r)
              \/ Throttle(r) \/ Work(r) \/ Respond(r) \/ RespondThrows(r) \/ Leave(r)

Next == \E r \in Requests : Enter(r) \/ Handler(r)

Spec == Init /\ [][Next]_vars

-----------------------------------------------------------------------------
(* The items of r that were taken to the manager, and those of all rs: the *)
(* operations that were asked of it.                                       *)
Done(r)        == {i \in DOMAIN entries[r] : entries[r][i] # "throttled"}
Processed(r)   == Cardinality(Done(r))
Operations(rs) == UNION {{r} \X Done(r) : r \in rs}

InHandler == {r \in Requests : at[r] \notin {"new", "done"}}
Finished  == {r \in Requests : at[r] = "done"}
Refused   == {r \in Requests : ended[r] \in {"unauthorized", "forbidden"}}
Responded == {r \in Requests : ended[r] = "responded"}
Guarded   == {r \in Requests : req[r].kind \notin {"none", "status"}}
Paid(r)   == r \notin unpaid

Label == {"new", "parse", "authorize", "charge", "work", "leave", "done"}
End   == {"not", "threw", "unauthorized", "forbidden", "responded"}

TypeOK == /\ at \in [Requests -> Label]
          /\ \A r \in Requests : req[r] \in RequestSet \cup {NoRequest}
          /\ access \in [Requests -> BOOLEAN]
          /\ limit \in [Requests -> 0..Unlimited] /\ granted \in [Requests -> 0..Unlimited]
          /\ \A r \in Requests : Range(entries[r]) \subseteq {"ok", "error", "throttled"}
          /\ ended \in [Requests -> End]
          /\ left \in 0..Value /\ unpaid \subseteq Requests
          /\ gauge \in Nat /\ observed \in Nat /\ counter \in [{"good", "overdraw", "bad"} -> Nat]

Trackers == gauge = Cardinality(InHandler) /\ observed = Cardinality(Finished)
Counters == /\ counter.overdraw = Cardinality(Refused)
            /\ counter.good + counter.bad = Cardinality(Responded)

(* "Number of requests currently being processed" (tokenization.hh:400) is *)
(* just that and every request that is over was timed, also when handlers  *)
(* are left by exceptions; and "Number of processed requests" (396) counts *)
(* each request that got an answer of its handler once, as refused or as   *)
(* worked on (tokenization.hh:37-73, 457, 715).                            *)
MetricsFollowRequests == Trackers /\ Counters

(* A handler asks nothing of the manager before the user's access was      *)
(* found, and never more than its own grant (tokenization.hh:536-559).     *)
OperationsAreGranted ==
    \A r \in Guarded : Processed(r) <= granted[r] /\ (Processed(r) > 0 => access[r])

(* The operations that all handlers together have asked of the manager     *)
(* are covered by what was taken from the quota, but for calls answered    *)
(* while the database failed (tokenization.hh:347, 536-559).               *)
QuotaCoversWork ==
    /\ OperationsAreGranted
    /\ Cardinality(Operations({r \in Guarded : Paid(r)})) <= Value - left

(* And nothing is taken from the quota in vain, but by a handler that is   *)
(* left by an exception or by PUT, which charges an array body by its      *)
(* length and does one operation (tokenization.hh:356, 499).               *)
Wasteful(r) == ended[r] = "threw" \/ (req[r].kind = "put" /\ req[r].array)

ChargeIsUsed ==
    \A r \in Guarded : ended[r] \in {"responded", "forbidden"} /\ ~Wasteful(r) /\ Paid(r) =>
                         Processed(r) = granted[r]

(* A batch that is answered has one entry for each of its items, in their  *)
(* order: the result of each item within the grant, "throttled" for all    *)
(* the others (tokenization.hh:536-559).                                   *)
BatchAnswered ==
    \A r \in Requests : ended[r] = "responded" /\ req[r].kind = "post" =>
        entries[r] = [i \in DOMAIN req[r].items |->
                        IF i <= granted[r] THEN req[r].items[i] ELSE "throttled"]
=============================================================================
