--------------------------- MODULE HandlersProofs ---------------------------
(***************************************************************************)
(* The handlers, for any number of requests, items and quota.  The         *)
(* invariant says how far a request is through its items, what of its      *)
(* limit is left, and which of its results are throttled; the metrics are  *)
(* counted over the requests.                                              *)
(***************************************************************************)
EXTENDS Handlers, SequenceTheorems, FiniteSetTheorems, TLAPS

Result == {"ok", "error", "throw"}

(* What a request may be.                                                  *)
LEMMA RequestFacts ==
    ASSUME NEW q \in RequestSet
    PROVE  /\ q.kind \in Kinds /\ q.array \in BOOLEAN
           /\ q.items \in Seq(Result) /\ Len(q.items) \in Nat /\ Len(q.items) <= Unlimited
           /\ q.array => q.kind \in HasBody
           /\ ~q.array => Len(q.items) = 1
           /\ Cost(q) \in 0..Unlimited
<1>1. PICK k \in Kinds : q \in [kind : {k}, array : BOOLEAN, items : Bodies(k)]
  BY DEF RequestSet
<1>2. /\ q.kind = k /\ q.array \in BOOLEAN /\ q.items \in Bodies(k)
      /\ IF q.array THEN q.kind \in HasBody ELSE Len(q.items) = 1
  BY <1>1 DEF RequestSet
<1>3. Outcomes(k) \subseteq Result
  BY DEF Outcomes, Result
<1>4. PICK n \in 0..(MaxItems + 1) : q.items \in [1..n -> Outcomes(k)]
  <2>1. CASE k \in HasBody
    <3>1. PICK n \in 0..MaxItems : q.items \in [1..n -> Outcomes(k)]
      BY <1>2, <2>1 DEF Bodies
    <3>2. n \in 0..(MaxItems + 1)
      BY QuotaAssumption
    <3>3. QED
      BY <3>1, <3>2
  <2>2. CASE k \notin HasBody
    <3>1. q.items \in [1..1 -> Outcomes(k)] /\ 1 \in 0..(MaxItems + 1)
      BY <1>2, <2>2, QuotaAssumption DEF Bodies
    <3>2. QED
      BY <3>1
  <2>3. QED
    BY <2>1, <2>2
<1>5. n \in Nat /\ n <= Unlimited /\ q.items \in [1..n -> Result] /\ Unlimited \in Nat /\ 1 <= Unlimited
  BY <1>3, <1>4, QuotaAssumption DEF Unlimited
<1>6. q.items \in Seq(Result)
  BY <1>5, SeqDef
<1>7. Len(q.items) = n
  BY <1>5, <1>6, LenProperties
<1>8. QED
  BY <1>2, <1>5, <1>6, <1>7 DEF Cost

(* The items that are gone through.                                        *)
LEMMA ItemsFacts ==
    ASSUME NEW q \in RequestSet
    PROVE  /\ Items(q) \in Seq(Result) /\ Len(Items(q)) \in Nat
           /\ DOMAIN Items(q) = 1..Len(Items(q))
           /\ q.kind = "post" => Items(q) = q.items
           /\ q.kind # "post" => Len(Items(q)) = 1
           /\ q.kind # "put" => Cost(q) = Len(Items(q))
           /\ ~q.array => Cost(q) = Len(Items(q))
<1>1. Items(q) \in Seq(Result)
  <2>1. <<"error">> \in Seq(Result) /\ <<"ok">> \in Seq(Result)
    BY DEF Result
  <2>2. QED
    BY <2>1, RequestFacts DEF Items
<1>2. Len(<<"error">>) = 1 /\ Len(<<"ok">>) = 1
  OBVIOUS
<1>3. q.kind # "post" => Len(Items(q)) = 1
  BY <1>2, RequestFacts DEF Items, HasBody
<1>4. q.kind # "put" => Cost(q) = Len(Items(q))
  BY RequestFacts DEF Items, Cost
<1>5. ~q.array => Cost(q) = Len(Items(q))
  BY RequestFacts DEF Items, Cost
<1>6. QED
  BY <1>1, <1>3, <1>4, <1>5, LenProperties DEF Items

-----------------------------------------------------------------------------
Types == /\ at \in [Requests -> Label]
         /\ req \in [Requests -> RequestSet \cup {NoRequest}]
         /\ access \in [Requests -> BOOLEAN]
         /\ limit \in [Requests -> 0..Unlimited] /\ granted \in [Requests -> 0..Unlimited]
         /\ entries \in [Requests -> Seq({"ok", "error", "throttled"})]
         /\ ended \in [Requests -> End]
         /\ left \in 0..Value /\ unpaid \subseteq Requests
         /\ counter \in [{"good", "overdraw", "bad"} -> Nat]

(* Where the handler is tells whether it has ended, and what it knows.     *)
Place(r) ==
    /\ at[r] = "new" <=> req[r] = NoRequest
    /\ ended[r] = "not" <=> at[r] \in {"new", "parse", "authorize", "charge", "work"}
    /\ at[r] \in {"new", "parse", "authorize", "charge"} => granted[r] = 0 /\ limit[r] = 0 /\ entries[r] = <<>>
    /\ at[r] \in {"parse", "authorize", "charge"} => req[r].kind # "status"
    /\ at[r] = "charge" => access[r]

(* What was granted is used up item by item, and pays for the results.     *)
Grants(r) ==
    /\ granted[r] > 0 => access[r]
    /\ entries[r] # <<>> /\ req[r].kind # "status" => granted[r] > 0
    /\ at[r] = "work" /\ req[r].kind # "status" => granted[r] > 0
    /\ ended[r] = "forbidden" => granted[r] = 0
    /\ ended[r] = "responded" /\ req[r].kind # "status" => granted[r] > 0
    /\ r \notin unpaid /\ at[r] # "new" => granted[r] <= Cost(req[r])

Results(r) ==
    at[r] # "new" =>
       /\ Len(entries[r]) <= Len(Items(req[r]))
       /\ ended[r] = "responded" => Len(entries[r]) = Len(Items(req[r]))
       /\ req[r].kind = "post" =>
             /\ limit[r] = IF Len(entries[r]) <= granted[r] THEN granted[r] - Len(entries[r]) ELSE 0
             /\ \A i \in DOMAIN entries[r] :
                   entries[r][i] = IF i <= granted[r] THEN Items(req[r])[i] ELSE "throttled"
       /\ req[r].kind # "post" => \A i \in DOMAIN entries[r] : entries[r][i] # "throttled"

Own(r) == Place(r) /\ Grants(r) /\ Results(r)

Inv == Types /\ \A r \in Requests : Own(r)

(* The empty sequence.                                                     *)
LEMMA EmptyFacts ==
    /\ \A S : <<>> \in Seq(S)
    /\ Len(<<>>) = 0 /\ DOMAIN <<>> = {}
  OBVIOUS

(* Nothing was asked at first.                                             *)
LEMMA InitInv == Init => Inv
<1> SUFFICES ASSUME Init PROVE Inv
  OBVIOUS
<1>1. Types
  BY EmptyFacts, QuotaAssumption DEF Init, Types, Label, End, Unlimited
<1>2. ASSUME NEW r \in Requests PROVE Own(r)
  BY DEF Init, Own, Place, Grants, Results
<1>3. QED
  BY <1>1, <1>2 DEF Inv

(* A request of whose state nothing has changed.                           *)
Frame(r) == \A s \in Requests \ {r} :
    /\ at'[s] = at[s] /\ req'[s] = req[s] /\ access'[s] = access[s] /\ limit'[s] = limit[s]
    /\ granted'[s] = granted[s] /\ entries'[s] = entries[s] /\ ended'[s] = ended[s]
    /\ s \in unpaid' <=> s \in unpaid

LEMMA OneKeepsInv ==
    ASSUME Inv, Types', NEW r \in Requests, Frame(r), Own(r)'
    PROVE  Inv'
<1>1. ASSUME NEW s \in Requests, s # r PROVE Own(s)'
  BY <1>1 DEF Frame, Inv, Own, Place, Grants, Results
<1>2. QED
  BY <1>1 DEF Inv

(* The handler is called.                                                  *)
LEMMA EnterKeepsInv ==
    ASSUME Inv, NEW r \in Requests, Enter(r)
    PROVE  Inv'
<1>1. PICK q \in RequestSet :
         /\ req' = [req EXCEPT ![r] = q]
         /\ at' = [at EXCEPT ![r] = IF q.kind = "status" THEN "work"
                                    ELSE IF q.kind \in HasBody THEN "parse" ELSE "authorize"]
  BY DEF Enter, Goto
<1>2. at[r] = "new" /\ UNCHANGED <<access, limit, granted, entries, ended, left, unpaid, counter>>
  BY DEF Enter
<1>3. q # NoRequest
  BY RequestFacts DEF NoRequest, Kinds
<1>4. Types' /\ Frame(r)
  BY <1>1, <1>2 DEF Inv, Types, Label, Frame
<1>5. /\ req'[r] = q /\ at'[r] \in {"work", "parse", "authorize"}
      /\ at'[r] = "work" <=> q.kind = "status"
  BY <1>1 DEF Inv, Types
<1>6. granted[r] = 0 /\ limit[r] = 0 /\ entries[r] = <<>> /\ ended[r] = "not"
  BY <1>2 DEF Inv, Own, Place
<1>7. Cost(q) >= 0 /\ Len(Items(q)) >= 0
  BY RequestFacts, ItemsFacts, QuotaAssumption DEF Unlimited
<1>8. Place(r)'
  BY <1>2, <1>3, <1>5, <1>6 DEF Place
<1>9. Grants(r)'
  BY <1>2, <1>5, <1>6, <1>7 DEF Grants
<1>10. Results(r)'
  <2>1. Len(entries'[r]) = 0 /\ DOMAIN entries'[r] = {} /\ Len(Items(req'[r])) \in Nat
    BY <1>2, <1>5, <1>6, EmptyFacts, ItemsFacts
  <2>2. ended'[r] = "not" /\ limit'[r] = 0 /\ granted'[r] = 0
    BY <1>2, <1>6
  <2>3. QED
    BY <2>1, <2>2 DEF Results
<1>11. QED
  BY <1>4, <1>8, <1>9, <1>10, OneKeepsInv DEF Own

(* Steps from place to place, before the handler has a limit or after its  *)
(* work is done, that leave its results alone.                             *)
LEMMA MoveKeepsInv ==
    ASSUME Inv, NEW r \in Requests, NEW l \in Label, NEW e \in End, NEW a \in BOOLEAN,
           at' = [at EXCEPT ![r] = l], ended' = [ended EXCEPT ![r] = e],
           access' = [access EXCEPT ![r] = a], a = access[r] \/ a = TRUE,
           UNCHANGED <<req, limit, granted, entries, left, unpaid>>,
           counter' \in [{"good", "overdraw", "bad"} -> Nat],
           at[r] # "new", l # "new", e = "not" <=> l \in {"parse", "authorize", "charge", "work"},
           l \in {"parse", "authorize", "charge"} =>
              at[r] \in {"parse", "authorize", "charge"} /\ (l = "charge" => a),
           l # "work", e = "forbidden" => granted[r] = 0,
           e = "responded" => \/ ended[r] = "responded"
                              \/ at[r] = "work" /\ Len(entries[r]) = Len(Items(req[r]))
    PROVE  Inv'
<1>1. Types' /\ Frame(r)
  BY DEF Inv, Types, Frame
<1>2. /\ at'[r] = l /\ ended'[r] = e /\ access'[r] = a
  BY DEF Inv, Types
<1>3. Own(r)
  BY DEF Inv
<1>4. Place(r)'
  BY <1>2, <1>3 DEF Own, Place
<1>5. Grants(r)'
  BY <1>2, <1>3 DEF Own, Grants
<1>6. Results(r)'
  BY <1>2, <1>3 DEF Own, Results
<1>7. QED
  BY <1>1, <1>4, <1>5, <1>6, OneKeepsInv DEF Own

(* The limit is what the quota granted.                                    *)
LEMMA GrantKeepsInv ==
    ASSUME Inv, NEW r \in Requests, Charge(r) \/ ChargeFails(r)
    PROVE  Inv'
<1>1. PICK a \in {Unlimited, Share(r)} :
         /\ Granted(r, a)
         /\ \/ a = Share(r) /\ left' = left - Share(r) /\ unpaid' = unpaid
            \/ left' = left /\ unpaid' = unpaid \cup {r}
  BY DEF Charge, ChargeFails
<1>2. at[r] = "charge" /\ access[r] /\ req[r] \in RequestSet /\ req[r].kind # "status" /\ entries[r] = <<>>
  BY <1>1 DEF Granted, Inv, Types, Own, Place
<1>3. /\ Cost(req[r]) \in 0..Unlimited /\ Unlimited \in Nat /\ left \in Nat /\ left <= Value
  BY <1>2, RequestFacts, QuotaAssumption DEF Unlimited, Inv, Types
<1>4. /\ a \in 0..Unlimited /\ left - Share(r) \in 0..Value
      /\ a = Share(r) => a <= Cost(req[r])
  BY <1>3, QuotaAssumption DEF Share
<1>5. /\ limit' = [limit EXCEPT ![r] = a] /\ granted' = [granted EXCEPT ![r] = a]
      /\ UNCHANGED <<req, access, entries>>
  BY <1>1 DEF Granted
<1>6. \/ /\ a = 0 /\ at' = [at EXCEPT ![r] = "leave"] /\ ended' = [ended EXCEPT ![r] = "forbidden"]
         /\ counter' = [counter EXCEPT !.overdraw = @ + 1]
      \/ a # 0 /\ at' = [at EXCEPT ![r] = "work"] /\ UNCHANGED <<ended, counter>>
  BY <1>1 DEF Granted, Turned, Goto
<1>7. /\ limit'[r] = a /\ granted'[r] = a
      /\ \/ a = 0 /\ at'[r] = "leave" /\ ended'[r] = "forbidden"
         \/ a # 0 /\ at'[r] = "work" /\ ended'[r] = "not"
  BY <1>2, <1>5, <1>6 DEF Inv, Types, Own, Place
<1>8. Types'
  <2>1. left' \in 0..Value /\ unpaid' \subseteq Requests
    BY <1>1, <1>3, <1>4 DEF Inv, Types
  <2>2. counter' \in [{"good", "overdraw", "bad"} -> Nat]
    <3>1. counter \in [{"good", "overdraw", "bad"} -> Nat]
      BY DEF Inv, Types
    <3>2. counter.overdraw + 1 \in Nat
      BY <3>1
    <3>3. QED
      BY <1>6, <3>1, <3>2
  <2>3. at' \in [Requests -> Label] /\ ended' \in [Requests -> End]
    BY <1>6 DEF Inv, Types, Label, End
  <2>4. QED
    BY <1>4, <1>5, <2>1, <2>2, <2>3 DEF Inv, Types
<1>9. Frame(r)
  <2>1. \A s \in Requests \ {r} : at'[s] = at[s] /\ ended'[s] = ended[s]
    BY <1>6 DEF Inv, Types
  <2>2. \A s \in Requests \ {r} : s \in unpaid' <=> s \in unpaid
    BY <1>1
  <2>3. QED
    BY <1>5, <2>1, <2>2 DEF Frame, Inv, Types
<1>10. Place(r)'
  BY <1>2, <1>5, <1>7 DEF Inv, Own, Place
<1>11. Grants(r)'
  <2>1. r \notin unpaid' => a <= Cost(req[r])
    BY <1>1, <1>4
  <2>2. a # 0 => a > 0
    BY <1>3, <1>4
  <2>3. QED
    BY <1>2, <1>5, <1>7, <2>1, <2>2 DEF Grants
<1>12. Results(r)'
  <2>1. Len(entries'[r]) = 0 /\ DOMAIN entries'[r] = {} /\ 0 <= Len(Items(req'[r]))
    BY <1>2, <1>5, EmptyFacts, ItemsFacts
  <2>2. ended'[r] # "responded" /\ 0 <= a /\ a - 0 = a
    BY <1>3, <1>4, <1>7
  <2>3. QED
    BY <1>7, <2>1, <2>2 DEF Results
<1>13. QED
  BY <1>8, <1>9, <1>10, <1>11, <1>12, OneKeepsInv DEF Own

(* One result more: that of the item, or throttled.                        *)
LEMMA ResultKeepsInv ==
    ASSUME Inv, NEW r \in Requests, NEW x \in {"ok", "error", "throttled"}, NEW n \in Nat,
           MoreWork(r), entries' = [entries EXCEPT ![r] = Append(@, x)],
           limit' = [limit EXCEPT ![r] = n], n <= limit[r],
           UNCHANGED <<at, req, access, granted, ended, left, unpaid, counter>>,
           IF req[r].kind = "post" /\ limit[r] = 0
           THEN x = "throttled" /\ n = 0
           ELSE /\ x = Items(req[r])[Position(r)] /\ x # "throttled"
                /\ req[r].kind = "post" => n = limit[r] - 1
    PROVE  Inv'
<1>1. /\ at[r] = "work" /\ Own(r) /\ req[r] \in RequestSet
      /\ entries[r] \in Seq({"ok", "error", "throttled"})
      /\ granted[r] \in 0..Unlimited /\ limit[r] \in 0..Unlimited /\ Unlimited \in Nat
  BY QuotaAssumption DEF MoreWork, Inv, Types, Own, Place, Unlimited
<1>2. /\ granted[r] \in Nat /\ limit[r] \in Nat /\ n \in 0..Unlimited
  BY <1>1
<1> DEFINE E == entries[r]
           F == Append(E, x)
<1>3. /\ F \in Seq({"ok", "error", "throttled"}) /\ Len(F) = Len(E) + 1 /\ Len(E) \in Nat
      /\ DOMAIN F = 1..(Len(E) + 1) /\ DOMAIN E = 1..Len(E)
      /\ \A i \in 1..Len(E) : F[i] = E[i]
      /\ F[Len(E) + 1] = x
  BY <1>1, AppendProperties, LenProperties
<1>4. entries'[r] = F /\ limit'[r] = n /\ entries' = [entries EXCEPT ![r] = F]
  BY DEF Inv, Types
<1>5. Len(E) + 1 <= Len(Items(req[r])) /\ Len(Items(req[r])) \in Nat /\ Position(r) = Len(E) + 1
  BY <1>1, ItemsFacts DEF MoreWork, Position
<1> HIDE DEF E, F
<1>6. Types' /\ Frame(r)
  BY <1>2, <1>3, <1>4 DEF Inv, Types, Frame
<1>7. F # <<>>
  BY <1>3, EmptyFacts
<1>8. Place(r)' /\ Grants(r)'
  BY <1>1 DEF Own, Place, Grants
<1>9. Results(r)'
  <2>1. ended'[r] # "responded"
    BY <1>1 DEF Own, Place
  <2>2. Len(F) <= Len(Items(req[r]))
    BY <1>3, <1>5
  <2>3. CASE req[r].kind # "post"
    <3>1. \A i \in DOMAIN E : E[i] # "throttled"
      BY <1>1, <2>3 DEF Own, Results, E
    <3>2. \A i \in DOMAIN F : F[i] # "throttled"
      BY <1>3, <2>3, <3>1
    <3>3. QED
      BY <1>4, <2>1, <2>2, <2>3, <3>2 DEF Results
  <2>4. CASE req[r].kind = "post"
    <3>1. /\ limit[r] = IF Len(E) <= granted[r] THEN granted[r] - Len(E) ELSE 0
          /\ \A i \in DOMAIN E : E[i] = IF i <= granted[r] THEN Items(req[r])[i] ELSE "throttled"
      BY <1>1, <2>4 DEF Own, Results, E
    <3>2. n = IF Len(F) <= granted[r] THEN granted[r] - Len(F) ELSE 0
      BY <1>2, <1>3, <2>4, <3>1
    <3>3. x = IF Len(E) + 1 <= granted[r] THEN Items(req[r])[Len(E) + 1] ELSE "throttled"
      BY <1>2, <1>3, <1>5, <2>4, <3>1
    <3>4. \A i \in DOMAIN F : F[i] = IF i <= granted[r] THEN Items(req[r])[i] ELSE "throttled"
      BY <1>3, <3>1, <3>3
    <3>5. QED
      BY <1>4, <2>1, <2>2, <2>4, <3>2, <3>4 DEF Results
  <2>5. QED
    BY <2>3, <2>4
<1>10. QED
  BY <1>6, <1>8, <1>9, OneKeepsInv DEF Own

(* Counting a response keeps the counters natural numbers.                 *)
LEMMA CounterFacts ==
    ASSUME Inv
    PROVE  \A m \in {"good", "overdraw", "bad"} :
              [counter EXCEPT ![m] = @ + 1] \in [{"good", "overdraw", "bad"} -> Nat]
<1>1. counter \in [{"good", "overdraw", "bad"} -> Nat]
  BY DEF Inv, Types
<1>2. \A m \in {"good", "overdraw", "bad"} : counter[m] + 1 \in Nat
  BY <1>1
<1>3. QED
  BY <1>1, <1>2

(* The steps that only move a request from place to place.                 *)
LEMMA MovesKeepInv ==
    ASSUME Inv, NEW r \in Requests,
           \/ ParseOK(r) \/ Authorized(r) \/ Denied(r) \/ Leave(r) \/ Respond(r)
           \/ Throw(r) /\ at[r] \in {"parse", "authorize", "charge", "work"}
    PROVE  Inv'
<1>1. /\ access = [access EXCEPT ![r] = access[r]] /\ ended = [ended EXCEPT ![r] = ended[r]]
      /\ access[r] \in BOOLEAN /\ ended[r] \in End
      /\ counter \in [{"good", "overdraw", "bad"} -> Nat] /\ Own(r)
      /\ at[r] \in Label
  BY DEF Inv, Types
<1>2. CASE ParseOK(r)
  <2>1. /\ at' = [at EXCEPT ![r] = "authorize"] /\ ended[r] = "not"
        /\ at[r] = "parse" /\ UNCHANGED <<req, access, limit, granted, entries, ended, left, unpaid, counter>>
    BY <1>1, <1>2 DEF ParseOK, Goto, metrics, Own, Place
  <2>2. QED
    BY <1>1, <2>1, MoveKeepsInv DEF Label
<1>3. CASE Authorized(r)
  <2>1. /\ at' = [at EXCEPT ![r] = "charge"] /\ ended[r] = "not" /\ access' = [access EXCEPT ![r] = TRUE]
        /\ at[r] = "authorize" /\ UNCHANGED <<req, limit, granted, entries, ended, left, unpaid, counter>>
    BY <1>1, <1>3 DEF Authorized, Goto, metrics, Own, Place
  <2>2. QED
    BY <1>1, <2>1, MoveKeepsInv DEF Label
<1>4. CASE Denied(r)
  <2>1. /\ at' = [at EXCEPT ![r] = "leave"] /\ ended' = [ended EXCEPT ![r] = "unauthorized"]
        /\ counter' = [counter EXCEPT !["overdraw"] = @ + 1]
        /\ at[r] = "authorize" /\ UNCHANGED <<req, access, limit, granted, entries, left, unpaid>>
    BY <1>4 DEF Denied, Turned, Goto
  <2>2. counter' \in [{"good", "overdraw", "bad"} -> Nat]
    BY <2>1, CounterFacts
  <2>3. QED
    BY <1>1, <2>1, <2>2, MoveKeepsInv DEF Label, End
<1>5. CASE Leave(r)
  <2>1. /\ at' = [at EXCEPT ![r] = "done"] /\ ended[r] # "not"
        /\ at[r] = "leave" /\ UNCHANGED <<req, access, limit, granted, entries, ended, left, unpaid, counter>>
    BY <1>1, <1>5 DEF Leave, Goto, Own, Place
  <2>2. ended[r] = "forbidden" => granted[r] = 0
    BY <1>1 DEF Own, Grants
  <2>3. QED
    BY <1>1, <2>1, <2>2, MoveKeepsInv DEF Label
<1>6. CASE Respond(r)
  <2>1. /\ at' = [at EXCEPT ![r] = "leave"] /\ ended' = [ended EXCEPT ![r] = "responded"]
        /\ at[r] = "work" /\ UNCHANGED <<req, access, limit, granted, entries, left, unpaid>>
        /\ \/ counter' = [counter EXCEPT !["bad"] = @ + 1]
           \/ counter' = [counter EXCEPT !["good"] = @ + 1]
        /\ ~(Len(entries[r]) + 1 <= Len(Items(req[r])))
    BY <1>6 DEF Respond, Goto, MoreWork, Position
  <2>2. counter' \in [{"good", "overdraw", "bad"} -> Nat]
    BY <2>1, CounterFacts
  <2>3. req[r] \in RequestSet /\ entries[r] \in Seq({"ok", "error", "throttled"})
    BY <1>1, <2>1 DEF Inv, Types, Own, Place
  <2>4. Len(entries[r]) \in Nat /\ Len(Items(req[r])) \in Nat /\ Len(entries[r]) <= Len(Items(req[r]))
    BY <1>1, <2>1, <2>3, ItemsFacts, LenProperties DEF Own, Results
  <2>5. Len(entries[r]) = Len(Items(req[r]))
    BY <2>1, <2>4
  <2>6. QED
    BY <1>1, <2>1, <2>2, <2>5, MoveKeepsInv DEF Label, End
<1>7. CASE Throw(r) /\ at[r] \in {"parse", "authorize", "charge", "work"}
  <2>1. /\ at' = [at EXCEPT ![r] = "leave"] /\ ended' = [ended EXCEPT ![r] = "threw"]
        /\ UNCHANGED <<req, access, limit, granted, entries, left, unpaid, counter>>
    BY <1>7 DEF Throw, Goto, metrics
  <2>2. QED
    BY <1>1, <1>7, <2>1, MoveKeepsInv DEF Label, End
<1>8. QED
  BY <1>2, <1>3, <1>4, <1>5, <1>6, <1>7

(* POST marks an item beyond its limit.                                    *)
LEMMA ThrottleKeepsInv ==
    ASSUME Inv, NEW r \in Requests, Throttle(r)
    PROVE  Inv'
<1>1. /\ MoreWork(r) /\ req[r].kind = "post" /\ limit[r] = 0
      /\ entries' = [entries EXCEPT ![r] = Append(@, "throttled")]
      /\ UNCHANGED <<at, req, access, limit, granted, ended, left, unpaid, counter>>
  BY DEF Throttle, metrics
<1>2. limit' = [limit EXCEPT ![r] = 0] /\ 0 \in Nat /\ 0 <= limit[r]
  BY <1>1 DEF Inv, Types
<1>3. QED
  BY <1>1, <1>2, ResultKeepsInv

(* One item is worked on.                                                  *)
LEMMA WorkKeepsInv ==
    ASSUME Inv, NEW r \in Requests, Work(r)
    PROVE  Inv'
<1> DEFINE x == Items(req[r])[Position(r)]
<1>1. /\ MoreWork(r) /\ (req[r].kind = "post" => limit[r] > 0)
      /\ \/ Throw(r)
         \/ /\ x # "throw" /\ entries' = [entries EXCEPT ![r] = Append(@, x)]
            /\ limit' = [limit EXCEPT ![r] = IF req[r].kind = "post" THEN limit[r] - 1 ELSE limit[r]]
            /\ UNCHANGED <<at, req, access, granted, ended, left, unpaid, counter>>
  BY DEF Work, Item, metrics
<1> HIDE DEF x
<1>2. /\ at[r] = "work" /\ Own(r) /\ req[r] \in RequestSet
      /\ entries[r] \in Seq({"ok", "error", "throttled"})
      /\ limit[r] \in 0..Unlimited /\ Unlimited \in Nat
  BY <1>1, QuotaAssumption DEF MoreWork, Inv, Types, Own, Place, Unlimited
<1>3. CASE Throw(r)
  BY <1>2, <1>3, MovesKeepInv
<1>4. CASE ~Throw(r)
  <2>1. Items(req[r]) \in Seq(Result) /\ Position(r) \in 1..Len(Items(req[r]))
    <3>1. Len(entries[r]) \in Nat /\ Len(Items(req[r])) \in Nat /\ Items(req[r]) \in Seq(Result)
      BY <1>2, ItemsFacts, LenProperties
    <3>2. Position(r) = Len(entries[r]) + 1 /\ Position(r) <= Len(Items(req[r]))
      BY <1>1 DEF MoreWork, Position
    <3>3. QED
      BY <3>1, <3>2
  <2>2. x \in Result
    BY <2>1, ElementOfSeq DEF x
  <2>3. x \in {"ok", "error", "throttled"} /\ x # "throttled"
    BY <1>1, <1>4, <2>2 DEF Result
  <2> DEFINE n == IF req[r].kind = "post" THEN limit[r] - 1 ELSE limit[r]
  <2>4. n \in Nat /\ n <= limit[r]
    BY <1>1, <1>2
  <2>5. limit' = [limit EXCEPT ![r] = n] /\ entries' = [entries EXCEPT ![r] = Append(@, x)]
    BY <1>1, <1>4
  <2>6. ~(req[r].kind = "post" /\ limit[r] = 0) /\ (req[r].kind = "post" => n = limit[r] - 1)
    BY <1>1, <1>2
  <2> HIDE DEF n
  <2>7. x = Items(req[r])[Position(r)]
    BY DEF x
  <2>8. UNCHANGED <<at, req, access, granted, ended, left, unpaid, counter>>
    BY <1>1, <1>4
  <2>9. QED
    BY <1>1, <2>3, <2>4, <2>5, <2>6, <2>7, <2>8, ResultKeepsInv
<1>5. QED
  BY <1>3, <1>4

(* Every step keeps the invariant.                                         *)
LEMMA NextKeepsInv == Inv /\ [Next]_vars => Inv'
<1> SUFFICES ASSUME Inv, [Next]_vars PROVE Inv'
  OBVIOUS
<1>1. ASSUME NEW r \in Requests, Handler(r) PROVE Inv'
  <2>1. CASE ParseFails(r) \/ AuthorizeFails(r) \/ ChargeThrows(r) \/ RespondThrows(r)
    BY <2>1, MovesKeepInv DEF ParseFails, AuthorizeFails, ChargeThrows, RespondThrows
  <2>2. QED
    BY <1>1, <2>1, MovesKeepInv, GrantKeepsInv, ThrottleKeepsInv, WorkKeepsInv DEF Handler
<1>2. CASE UNCHANGED vars
  BY <1>2 DEF vars, Inv, Types, Own, Place, Grants, Results
<1>3. QED
  BY <1>1, <1>2, EnterKeepsInv DEF Next

(* Inv holds in every state.                                               *)
THEOREM Invariant == Spec => []Inv
  BY InitInv, NextKeepsInv, PTL DEF Spec

-----------------------------------------------------------------------------
(* What is known of a request that has entered.                            *)
LEMMA EnteredFacts ==
    ASSUME Inv, NEW r \in Requests, at[r] # "new"
    PROVE  /\ req[r] \in RequestSet /\ Own(r) /\ granted[r] \in Nat
           /\ Items(req[r]) \in Seq(Result) /\ Len(Items(req[r])) \in Nat
           /\ DOMAIN Items(req[r]) = 1..Len(Items(req[r]))
           /\ Len(entries[r]) \in Nat /\ DOMAIN entries[r] = 1..Len(entries[r])
           /\ entries[r] \in Seq({"ok", "error", "throttled"})
           /\ entries[r] = [i \in 1..Len(entries[r]) |-> entries[r][i]]
           /\ Len(entries[r]) <= Len(Items(req[r]))
<1>1. /\ req[r] \in RequestSet /\ Own(r) /\ granted[r] \in 0..Unlimited /\ Unlimited \in Nat
      /\ entries[r] \in Seq({"ok", "error", "throttled"})
  BY QuotaAssumption DEF Inv, Types, Own, Place, Unlimited
<1>2. granted[r] \in Nat /\ Len(entries[r]) <= Len(Items(req[r]))
  BY <1>1 DEF Own, Results
<1>3. /\ Items(req[r]) \in Seq(Result) /\ Len(Items(req[r])) \in Nat
      /\ DOMAIN Items(req[r]) = 1..Len(Items(req[r]))
  BY <1>1, ItemsFacts
<1>4. /\ Len(entries[r]) \in Nat /\ DOMAIN entries[r] = 1..Len(entries[r])
      /\ entries[r] \in [1..Len(entries[r]) -> {"ok", "error", "throttled"}]
  BY <1>1, LenProperties
<1>5. QED
  BY <1>1, <1>2, <1>3, <1>4

(* The results that are not throttled are those of the first items, as     *)
(* many as were granted.                                                   *)
LEMMA DoneFacts ==
    ASSUME Inv, NEW r \in Requests, at[r] # "new", req[r].kind # "status"
    PROVE  LET n == Len(entries[r])
           IN  /\ \A i \in 1..n : entries[r][i] # "throttled" <=> i <= granted[r]
               /\ req[r].kind # "post" => n <= granted[r]
<1> DEFINE E == entries[r]
           n == Len(entries[r])
           g == granted[r]
<1>1. n \in Nat /\ g \in Nat /\ DOMAIN E = 1..n
  BY EnteredFacts
<1>2. req[r].kind # "post" => n <= g
  <2>1. SUFFICES ASSUME req[r].kind # "post" PROVE n <= g
    OBVIOUS
  <2>2. n <= 1
    BY <2>1, EnteredFacts, ItemsFacts
  <2>3. n = 0 \/ E # <<>>
    BY EmptyFacts
  <2>4. E # <<>> => g > 0
    BY EnteredFacts DEF Own, Grants
  <2>5. QED
    BY <1>1, <2>2, <2>3, <2>4
<1>3. \A i \in 1..n : E[i] # "throttled" <=> i <= g
  <2>1. CASE req[r].kind = "post"
    <3>1. \A i \in 1..n : E[i] = IF i <= g THEN Items(req[r])[i] ELSE "throttled"
      BY <1>1, <2>1, EnteredFacts DEF Own, Results
    <3>2. \A i \in 1..n : Items(req[r])[i] # "throttled"
      <4>1. TAKE i \in 1..n
      <4>2. i \in 1..Len(Items(req[r])) /\ Items(req[r]) \in Seq(Result)
        <5>1. /\ n <= Len(Items(req[r])) /\ Len(Items(req[r])) \in Nat
              /\ Items(req[r]) \in Seq(Result)
          BY EnteredFacts
        <5>2. QED
          BY <1>1, <5>1
      <4>3. Items(req[r])[i] \in Result
        BY <4>2, ElementOfSeq
      <4>4. QED
        BY <4>3 DEF Result
    <3>3. QED
      BY <1>1, <3>1, <3>2
  <2>2. CASE req[r].kind # "post"
    <3>1. \A i \in 1..n : E[i] # "throttled"
      BY <1>1, <2>2, EnteredFacts DEF Own, Results
    <3>2. QED
      BY <1>1, <1>2, <2>2, <3>1
  <2>3. QED
    BY <2>1, <2>2
<1>4. QED
  BY <1>2, <1>3

LEMMA ProcessedFacts ==
    ASSUME Inv, NEW r \in Requests, at[r] # "new", req[r].kind # "status"
    PROVE  LET n == Len(entries[r])
           IN  Processed(r) = IF n <= granted[r] THEN n ELSE granted[r]
<1> DEFINE n == Len(entries[r])
           m == IF n <= granted[r] THEN n ELSE granted[r]
<1>1. n \in Nat /\ granted[r] \in Nat /\ m \in Nat /\ DOMAIN entries[r] = 1..n
  BY EnteredFacts
<1>2. \A i \in 1..n : entries[r][i] # "throttled" <=> i <= granted[r]
  BY DoneFacts
<1>3. Done(r) = 1..m
  BY <1>1, <1>2 DEF Done
<1> HIDE DEF m
<1>4. Cardinality(1..m) = m
  BY <1>1, FS_Interval
<1>5. QED
  BY <1>3, <1>4 DEF Processed, m

(* What Inv says of all requests, put together.                            *)
LEMMA EnteredBy ==
    ASSUME Inv, NEW r \in Requests
    PROVE  /\ r \in Guarded => at[r] # "new" /\ req[r].kind # "status"
           /\ ended[r] # "not" => at[r] # "new"
<1>1. NoRequest.kind = "none"
  BY DEF NoRequest
<1>2. QED
  BY <1>1 DEF Inv, Own, Place, Guarded

(* A handler asks the manager for nothing before access was found, and for *)
(* no more than its grant, whatever else shares the quota and fails.       *)
THEOREM WorkIsGranted == Spec => []OperationsAreGranted
<1>1. Inv => OperationsAreGranted
  <2> SUFFICES ASSUME Inv, NEW r \in Guarded
               PROVE  Processed(r) <= granted[r] /\ (Processed(r) > 0 => access[r])
    BY DEF OperationsAreGranted
  <2>1. r \in Requests /\ at[r] # "new" /\ req[r].kind # "status"
    BY EnteredBy DEF Guarded
  <2>2. /\ Processed(r) = IF Len(entries[r]) <= granted[r] THEN Len(entries[r]) ELSE granted[r]
        /\ Len(entries[r]) \in Nat /\ granted[r] \in Nat /\ Own(r)
    BY <2>1, ProcessedFacts, EnteredFacts
  <2>3. granted[r] > 0 => access[r]
    BY <2>2 DEF Own, Grants
  <2>4. QED
    BY <2>2, <2>3
<1>2. QED
  BY <1>1, Invariant, PTL

(* What was charged was worked for, but by the handlers named Wasteful.    *)
THEOREM ChargesAreUsed == Spec => []ChargeIsUsed
<1>1. Inv => ChargeIsUsed
  <2> SUFFICES ASSUME Inv, NEW r \in Guarded, ended[r] \in {"responded", "forbidden"},
                      ~Wasteful(r), Paid(r)
               PROVE  Processed(r) = granted[r]
    BY DEF ChargeIsUsed
  <2>1. r \in Requests /\ at[r] # "new" /\ req[r].kind # "status"
    BY EnteredBy DEF Guarded
  <2>2. /\ Processed(r) = IF Len(entries[r]) <= granted[r] THEN Len(entries[r]) ELSE granted[r]
        /\ Len(entries[r]) \in Nat /\ granted[r] \in Nat /\ Own(r) /\ req[r] \in RequestSet
        /\ Len(Items(req[r])) \in Nat
    BY <2>1, ProcessedFacts, EnteredFacts
  <2>3. CASE ended[r] = "forbidden"
    BY <2>2, <2>3 DEF Own, Grants
  <2>4. CASE ended[r] = "responded"
    <3>1. Len(entries[r]) = Len(Items(req[r]))
      BY <2>1, <2>2, <2>4 DEF Own, Results
    <3>2. Cost(req[r]) = Len(Items(req[r]))
      BY <2>2, ItemsFacts DEF Wasteful
    <3>3. granted[r] <= Cost(req[r])
      BY <2>1, <2>2 DEF Own, Grants, Paid
    <3>4. QED
      BY <2>2, <3>1, <3>2, <3>3
  <2>5. QED
    BY <2>3, <2>4
<1>2. QED
  BY <1>1, Invariant, PTL

(* A batch of any length is answered item by item, in order.               *)
THEOREM Batches == Spec => []BatchAnswered
<1>1. Inv => BatchAnswered
  <2> SUFFICES ASSUME Inv, NEW r \in Requests, ended[r] = "responded", req[r].kind = "post"
               PROVE  entries[r] = [i \in DOMAIN req[r].items |->
                                      IF i <= granted[r] THEN req[r].items[i] ELSE "throttled"]
    BY DEF BatchAnswered
  <2>1. at[r] # "new"
    BY EnteredBy
  <2>2. /\ Own(r) /\ req[r] \in RequestSet
        /\ entries[r] = [i \in 1..Len(entries[r]) |-> entries[r][i]]
        /\ DOMAIN entries[r] = 1..Len(entries[r]) /\ DOMAIN Items(req[r]) = 1..Len(Items(req[r]))
    BY <2>1, EnteredFacts
  <2>3. Items(req[r]) = req[r].items
    BY <2>2, ItemsFacts
  <2>4. /\ Len(entries[r]) = Len(Items(req[r]))
        /\ \A i \in 1..Len(entries[r]) :
              entries[r][i] = IF i <= granted[r] THEN Items(req[r])[i] ELSE "throttled"
    BY <2>1, <2>2 DEF Own, Results
  <2>5. QED
    BY <2>2, <2>3, <2>4
<1>2. QED
  BY <1>1, Invariant, PTL

-----------------------------------------------------------------------------
(* The sets that the metrics count, when a handler moves.                  *)
LEMMA CountFacts ==
    /\ IsFiniteSet(InHandler) /\ IsFiniteSet(Finished)
    /\ Cardinality(InHandler) \in Nat /\ Cardinality(Finished) \in Nat
<1>1. IsFiniteSet(InHandler) /\ IsFiniteSet(Finished)
  BY RequestsAssumption, FS_Subset DEF InHandler, Finished
<1>2. QED
  BY <1>1, FS_CardinalityType

(* A request enters, leaves, or stays where it is counted.                 *)
LEMMA EnterCounts ==
    ASSUME Inv, Trackers, NEW r \in Requests, Enter(r)
    PROVE  Trackers'
<1>1. /\ at[r] = "new" /\ gauge' = gauge + 1 /\ observed' = observed
      /\ at'[r] \in {"work", "parse", "authorize"}
      /\ \A s \in Requests \ {r} : at'[s] = at[s]
  BY DEF Enter, Goto, Inv, Types
<1>2. InHandler' = InHandler \cup {r} /\ r \notin InHandler /\ Finished' = Finished
  BY <1>1 DEF InHandler, Finished
<1>3. QED
  BY <1>1, <1>2, CountFacts, FS_AddElement DEF Trackers

(* The trackers are destroyed.                                             *)
LEMMA LeaveCounts ==
    ASSUME Inv, Trackers, NEW r \in Requests, Leave(r)
    PROVE  Trackers'
<1>1. /\ at[r] = "leave" /\ gauge' = gauge - 1 /\ observed' = observed + 1
      /\ at'[r] = "done"
      /\ \A s \in Requests \ {r} : at'[s] = at[s]
  BY DEF Leave, Goto, Inv, Types
<1>2. /\ InHandler' = InHandler \ {r} /\ r \in InHandler
      /\ Finished' = Finished \cup {r} /\ r \notin Finished
  BY <1>1 DEF InHandler, Finished
<1>3. /\ Cardinality(InHandler \ {r}) = Cardinality(InHandler) - 1
      /\ Cardinality(Finished \cup {r}) = Cardinality(Finished) + 1
  BY <1>2, CountFacts, FS_AddElement, FS_RemoveElement
<1>4. QED
  BY <1>1, <1>2, <1>3 DEF Trackers

(* Every other step of a handler leaves it inside.                         *)
LEMMA OthersCount ==
    ASSUME Inv, Trackers, NEW r \in Requests, Handler(r), ~Leave(r)
    PROVE  Trackers'
<1>1. /\ at[r] \notin {"new", "done"} /\ UNCHANGED <<gauge, observed>>
      /\ \/ at' = at
         \/ \E l \in {"authorize", "charge", "work", "leave"} : at' = [at EXCEPT ![r] = l]
  <2>1. CASE ParseOK(r) \/ ParseFails(r)
    BY <2>1 DEF ParseOK, ParseFails, Throw, Goto, metrics
  <2>2. CASE Authorized(r) \/ Denied(r) \/ AuthorizeFails(r)
    BY <2>2 DEF Authorized, Denied, AuthorizeFails, Turned, Throw, Goto, metrics
  <2>7. CASE ChargeThrows(r) \/ RespondThrows(r)
    BY <2>7 DEF ChargeThrows, RespondThrows, Throw, Goto, metrics
  <2>3. CASE Charge(r) \/ ChargeFails(r)
    <3>1. \E a \in {Unlimited, Share(r)} : Granted(r, a)
      BY <2>3 DEF Charge, ChargeFails
    <3>2. QED
      BY <3>1 DEF Granted, Turned, Goto
  <2>4. CASE Throttle(r) \/ Work(r)
    BY <2>4 DEF Throttle, Work, Item, MoreWork, Throw, Goto, metrics
  <2>5. CASE Respond(r)
    BY <2>5 DEF Respond, Goto
  <2>6. QED
    BY <2>1, <2>2, <2>3, <2>4, <2>5, <2>7 DEF Handler
<1>2. \A s \in Requests : at'[s] = at[s] \/ (at[s] \notin {"new", "done"} /\ at'[s] \notin {"new", "done"})
  BY <1>1 DEF Inv, Types
<1>3. InHandler' = InHandler /\ Finished' = Finished
  BY <1>2 DEF InHandler, Finished
<1>4. QED
  BY <1>1, <1>3 DEF Trackers

(* How a step of r can end its request, and what it counts then.           *)
Ends(r, e, counts) == /\ ended[r] = "not" /\ ended' = [ended EXCEPT ![r] = e]
                      /\ counter' = counts

LEMMA EndOfRequest ==
    ASSUME Inv, NEW r \in Requests, Enter(r) \/ Handler(r)
    PROVE  \/ UNCHANGED <<ended, counter>>
           \/ Ends(r, "threw", counter)
           \/ \E e \in {"unauthorized", "forbidden"} : Ends(r, e, [counter EXCEPT !.overdraw = @ + 1])
           \/ Ends(r, "responded", [counter EXCEPT !.bad = @ + 1])
           \/ Ends(r, "responded", [counter EXCEPT !.good = @ + 1])
<1>1. at[r] \in {"new", "parse", "authorize", "charge", "work"} => ended[r] = "not"
  BY DEF Inv, Own, Place
<1>2. CASE Enter(r) \/ ParseOK(r) \/ Authorized(r) \/ Throttle(r) \/ Leave(r)
  BY <1>2 DEF Enter, ParseOK, Authorized, Throttle, Leave, metrics
<1>3. CASE ParseFails(r) \/ AuthorizeFails(r) \/ ChargeThrows(r) \/ RespondThrows(r)
  BY <1>1, <1>3 DEF ParseFails, AuthorizeFails, ChargeThrows, RespondThrows, Throw, metrics, Ends
<1>4. CASE Denied(r)
  BY <1>1, <1>4 DEF Denied, Turned, Ends
<1>5. CASE Charge(r) \/ ChargeFails(r)
  <2>1. \E a \in {Unlimited, Share(r)} : Granted(r, a)
    BY <1>5 DEF Charge, ChargeFails
  <2>2. QED
    BY <1>1, <2>1 DEF Granted, Turned, Ends
<1>6. CASE Work(r)
  BY <1>1, <1>6 DEF Work, Item, MoreWork, Throw, metrics, Ends
<1>7. CASE Respond(r)
  BY <1>1, <1>7 DEF Respond, Ends
<1>8. QED
  BY <1>2, <1>3, <1>4, <1>5, <1>6, <1>7 DEF Handler

(* Each request that ends with an answer is counted once.                  *)
LEMMA CountersCount ==
    ASSUME Inv, Counters, NEW r \in Requests, Enter(r) \/ Handler(r)
    PROVE  Counters'
<1>1. /\ IsFiniteSet(Refused) /\ IsFiniteSet(Responded)
      /\ ended \in [Requests -> End] /\ counter \in [{"good", "overdraw", "bad"} -> Nat]
  BY RequestsAssumption, FS_Subset DEF Refused, Responded, Inv, Types
<1>2. CASE UNCHANGED <<ended, counter>>
  BY <1>2 DEF Counters, Refused, Responded
<1>3. CASE Ends(r, "threw", counter)
  <2>1. Refused' = Refused /\ Responded' = Responded
    BY <1>1, <1>3 DEF Ends, Refused, Responded
  <2>2. QED
    BY <1>3, <2>1 DEF Ends, Counters
<1>4. ASSUME NEW e \in {"unauthorized", "forbidden"}, Ends(r, e, [counter EXCEPT !.overdraw = @ + 1])
      PROVE  Counters'
  <2>1. Refused' = Refused \cup {r} /\ r \notin Refused /\ Responded' = Responded
    BY <1>1, <1>4 DEF Ends, Refused, Responded
  <2>2. Cardinality(Refused') = Cardinality(Refused) + 1
    BY <1>1, <2>1, FS_AddElement
  <2>3. /\ counter'.overdraw = counter.overdraw + 1
        /\ counter'.good = counter.good /\ counter'.bad = counter.bad
    BY <1>1, <1>4 DEF Ends
  <2>4. QED
    BY <2>1, <2>2, <2>3 DEF Counters
<1>5. CASE \/ Ends(r, "responded", [counter EXCEPT !.bad = @ + 1])
           \/ Ends(r, "responded", [counter EXCEPT !.good = @ + 1])
  <2>1. Responded' = Responded \cup {r} /\ r \notin Responded /\ Refused' = Refused
    BY <1>1, <1>5 DEF Ends, Refused, Responded
  <2>2. Cardinality(Responded') = Cardinality(Responded) + 1
    BY <1>1, <2>1, FS_AddElement
  <2>3. /\ counter'.overdraw = counter.overdraw
        /\ counter'.good + counter'.bad = counter.good + counter.bad + 1
    BY <1>1, <1>5 DEF Ends
  <2>4. QED
    BY <2>1, <2>2, <2>3 DEF Counters
<1>6. QED
  BY <1>2, <1>3, <1>4, <1>5, EndOfRequest

(* The gauge is the number of handlers that run, every request that is     *)
(* over was timed, also when handlers are left by exceptions, and each     *)
(* request that got an answer was counted once.                            *)
THEOREM Metrics == Spec => []MetricsFollowRequests
<1>1. Init => MetricsFollowRequests
  <2> SUFFICES ASSUME Init PROVE MetricsFollowRequests
    OBVIOUS
  <2>1. InHandler = {} /\ Finished = {} /\ gauge = 0 /\ observed = 0
    BY DEF Init, InHandler, Finished
  <2>2. /\ Refused = {} /\ Responded = {}
        /\ counter.good = 0 /\ counter.overdraw = 0 /\ counter.bad = 0
    BY DEF Init, Refused, Responded
  <2>3. QED
    BY <2>1, <2>2, FS_EmptySet DEF MetricsFollowRequests, Trackers, Counters
<1>2. Inv /\ MetricsFollowRequests /\ [Next]_vars => MetricsFollowRequests'
  <2> SUFFICES ASSUME Inv, MetricsFollowRequests, [Next]_vars PROVE MetricsFollowRequests'
    OBVIOUS
  <2>1. CASE UNCHANGED vars
    BY <2>1 DEF vars, MetricsFollowRequests, Trackers, Counters, InHandler, Finished,
                Refused, Responded
  <2>2. QED
    BY <2>1, EnterCounts, LeaveCounts, OthersCount, CountersCount DEF Next, MetricsFollowRequests
<1>3. QED
  BY <1>1, <1>2, Invariant, PTL DEF Spec

(* Every variable keeps its type.                                          *)
THEOREM Typed == Spec => []TypeOK
<1>1. Inv /\ MetricsFollowRequests => TypeOK
  <2> SUFFICES ASSUME Inv, MetricsFollowRequests PROVE TypeOK
    OBVIOUS
  <2>1. gauge \in Nat /\ observed \in Nat
    BY CountFacts DEF MetricsFollowRequests, Trackers
  <2>2. ASSUME NEW r \in Requests PROVE Range(entries[r]) \subseteq {"ok", "error", "throttled"}
    <3>1. entries[r] \in Seq({"ok", "error", "throttled"})
      BY DEF Inv, Types
    <3>2. \A i \in DOMAIN entries[r] : entries[r][i] \in {"ok", "error", "throttled"}
      BY <3>1, LenProperties, ElementOfSeq
    <3>3. QED
      BY <3>2 DEF Range
  <2>3. \A r \in Requests : req[r] \in RequestSet \cup {NoRequest}
    BY DEF Inv, Types
  <2>4. QED
    BY <2>1, <2>2, <2>3 DEF Inv, Types, TypeOK
<1>2. QED
  BY <1>1, Invariant, Metrics, PTL
-----------------------------------------------------------------------------
(* What was taken from the quota, as tickets: one for each operation that  *)
(* a request was granted and charged for.                                  *)
Charged == {r \in Requests : Paid(r)}
Tickets == UNION {{r} \X (1..granted[r]) : r \in Charged}

(* The quota pays for the tickets, and a charge is lost only once it was   *)
(* made, so that no request is charged twice.                              *)
Accounts == /\ IsFiniteSet(Tickets) /\ Cardinality(Tickets) = Value - left
            /\ \A r \in unpaid : at[r] \notin {"new", "parse", "authorize", "charge"}

LEMMA InitAccounts == Init => Accounts
<1> SUFFICES ASSUME Init PROVE Accounts
  OBVIOUS
<1>1. Tickets = {}
  BY DEF Init, Tickets, Charged
<1>2. QED
  BY <1>1, FS_EmptySet, QuotaAssumption DEF Init, Accounts

(* A handler that is not charged keeps its tickets and does not go back.   *)
LEMMA OthersAccount ==
    ASSUME Inv, Accounts, NEW r \in Requests, at[r] # "charge", Enter(r) \/ Handler(r)
    PROVE  Accounts'
<1>1. /\ UNCHANGED <<granted, left, unpaid>>
      /\ at[r] \in {"work", "leave"} => at' = at \/ \E l \in {"leave", "done"} : at' = [at EXCEPT ![r] = l]
      /\ at[r] # "done" /\ \E l \in Label : at' = [at EXCEPT ![r] = l]
  <2>1. at = [at EXCEPT ![r] = at[r]] /\ at[r] \in Label
    BY DEF Inv, Types
  <2>2. CASE Enter(r)
    BY <2>2 DEF Enter, Goto, Label
  <2>3. CASE ParseOK(r) \/ ParseFails(r)
    BY <2>3 DEF ParseOK, ParseFails, Throw, Goto, Label
  <2>4. CASE Authorized(r) \/ Denied(r) \/ AuthorizeFails(r)
    BY <2>4 DEF Authorized, Denied, AuthorizeFails, Turned, Throw, Goto, Label
  <2>5. CASE Charge(r) \/ ChargeFails(r) \/ ChargeThrows(r)
    BY <2>5 DEF Charge, ChargeFails, ChargeThrows, Granted
  <2>6. CASE Throttle(r) \/ Work(r)
    BY <2>1, <2>6 DEF Throttle, Work, Item, MoreWork, Throw, Goto, Label
  <2>7. CASE Respond(r) \/ RespondThrows(r) \/ Leave(r)
    BY <2>7 DEF Respond, RespondThrows, Throw, Leave, Goto, Label
  <2>8. QED
    BY <2>2, <2>3, <2>4, <2>5, <2>6, <2>7 DEF Handler
<1>2. Tickets' = Tickets
  BY <1>1 DEF Tickets, Charged, Paid
<1>3. ASSUME NEW s \in unpaid' PROVE at'[s] \notin {"new", "parse", "authorize", "charge"}
  <2>1. s \in Requests /\ at[s] \notin {"new", "parse", "authorize", "charge"}
    BY <1>1 DEF Accounts, Inv, Types
  <2>2. CASE s # r
    BY <1>1, <2>1, <2>2 DEF Inv, Types
  <2>3. CASE s = r
    BY <1>1, <2>1, <2>3 DEF Inv, Types, Label
  <2>4. QED
    BY <2>2, <2>3
<1>4. QED
  BY <1>1, <1>2, <1>3 DEF Accounts

(* A charge adds the tickets of one request, which had none.               *)
LEMMA ChargeAccounts ==
    ASSUME Inv, Accounts, NEW r \in Requests, Charge(r) \/ ChargeFails(r)
    PROVE  Accounts'
<1>1. PICK a \in {Unlimited, Share(r)} :
         /\ at[r] = "charge" /\ granted' = [granted EXCEPT ![r] = a]
         /\ \E l \in {"leave", "work"} : at' = [at EXCEPT ![r] = l]
         /\ \/ a = Share(r) /\ left' = left - Share(r) /\ unpaid' = unpaid
            \/ left' = left /\ unpaid' = unpaid \cup {r}
  BY DEF Charge, ChargeFails, Granted, Turned, Goto
<1>2. r \in Charged /\ granted[r] = 0 /\ req[r] \in RequestSet /\ left \in Nat /\ Value \in Nat
  BY <1>1, QuotaAssumption DEF Accounts, Charged, Paid, Inv, Own, Place, Types
<1>3. \A s \in Requests : granted'[s] = IF s = r THEN a ELSE granted[s]
  BY <1>1 DEF Inv, Types
<1>4. ASSUME NEW s \in unpaid' PROVE at'[s] \notin {"new", "parse", "authorize", "charge"}
  BY <1>1 DEF Accounts, Inv, Types
<1>5. 1..granted[r] = {}
  BY <1>2
<1>6. CASE unpaid' = unpaid \cup {r} /\ left' = left
  <2>1. Charged' = Charged \ {r}
    BY <1>6 DEF Charged, Paid
  <2>2. Tickets' = Tickets
    BY <1>3, <1>5, <2>1 DEF Tickets, Charged
  <2>3. QED
    BY <1>4, <1>6, <2>2 DEF Accounts
<1>7. CASE a = Share(r) /\ left' = left - Share(r) /\ unpaid' = unpaid
  <2>1. a \in Nat
    BY <1>2, <1>7, RequestFacts, QuotaAssumption DEF Share, Unlimited
  <2>2. IsFiniteSet(1..a) /\ Cardinality(1..a) = a
    BY <2>1, FS_Interval
  <2>3. IsFiniteSet({r} \X (1..a)) /\ Cardinality({r} \X (1..a)) = a
    <3>1. IsFiniteSet({r}) /\ Cardinality({r}) = 1
      BY FS_Singleton
    <3>2. /\ IsFiniteSet({r} \X (1..a))
          /\ Cardinality({r} \X (1..a)) = Cardinality({r}) * Cardinality(1..a)
      BY <2>2, <3>1, FS_Product
    <3>3. 1 * a = a
      BY <2>1
    <3>4. QED
      BY <2>2, <3>1, <3>2, <3>3
  <2>4. Charged' = Charged
    BY <1>7 DEF Charged, Paid
  <2>5. Tickets' = Tickets \cup ({r} \X (1..a))
    BY <1>2, <1>3, <1>5, <2>4 DEF Tickets, Charged
  <2>6. Tickets \cap ({r} \X (1..a)) = {}
    BY <1>5 DEF Tickets
  <2>7. IsFiniteSet(Tickets') /\ Cardinality(Tickets') = Cardinality(Tickets) + a
    <3>1. Cardinality(Tickets \cap ({r} \X (1..a))) = 0 /\ Cardinality(Tickets) \in Nat
      BY <2>6, FS_EmptySet, FS_CardinalityType DEF Accounts
    <3>2. QED
      BY <2>1, <2>3, <2>5, <3>1, FS_Union DEF Accounts
  <2>8. QED
    BY <1>2, <1>4, <1>7, <2>1, <2>7 DEF Accounts
<1>8. QED
  BY <1>1, <1>6, <1>7

(* A charge that threw took nothing and granted nothing.                   *)
LEMMA ChargeThrowsAccounts ==
    ASSUME Inv, Accounts, NEW r \in Requests, ChargeThrows(r)
    PROVE  Accounts'
<1>1. UNCHANGED <<granted, left, unpaid>> /\ at' = [at EXCEPT ![r] = "leave"]
  BY DEF ChargeThrows, Throw, Goto
<1>2. Tickets' = Tickets
  BY <1>1 DEF Tickets, Charged, Paid
<1>3. \A s \in unpaid' : at'[s] \notin {"new", "parse", "authorize", "charge"}
  BY <1>1 DEF Accounts, Inv, Types
<1>4. QED
  BY <1>1, <1>2, <1>3 DEF Accounts

LEMMA AccountsInvariant == Spec => []Accounts
<1>1. Inv /\ Accounts /\ [Next]_vars => Accounts'
  <2> SUFFICES ASSUME Inv, Accounts, [Next]_vars PROVE Accounts'
    OBVIOUS
  <2>1. CASE UNCHANGED vars
    BY <2>1 DEF vars, Accounts, Tickets, Charged, Paid
  <2>2. ASSUME NEW r \in Requests, at[r] = "charge", Enter(r) \/ Handler(r)
        PROVE  Charge(r) \/ ChargeFails(r) \/ ChargeThrows(r)
    BY <2>2 DEF Enter, Handler, ParseOK, ParseFails, Authorized, Denied, AuthorizeFails,
                Throttle, Work, Item, MoreWork, Respond, RespondThrows, Leave
  <2>3. ASSUME NEW r \in Requests, ChargeThrows(r) PROVE Accounts'
    BY <2>3, ChargeThrowsAccounts
  <2>4. QED
    BY <2>1, <2>2, <2>3, ChargeAccounts, OthersAccount DEF Next
<1>2. QED
  BY <1>1, InitAccounts, Invariant, PTL DEF Spec

(* However requests of any number and size interleave on one quota, what   *)
(* their handlers have asked of the manager never exceeds what was taken   *)
(* from it, but for calls that were answered while the database failed     *)
(* (preliminary and the handlers of tokenization.hh).                      *)
THEOREM QuotaCovers == Spec => []QuotaCoversWork
<1>1. ASSUME Inv, Accounts, OperationsAreGranted PROVE QuotaCoversWork
  <2> DEFINE Payers == {r \in Guarded : Paid(r)}
  <2>1. ASSUME NEW r \in Payers, NEW i \in Done(r) PROVE r \in Charged /\ i \in 1..granted[r]
    <3>1. r \in Requests /\ at[r] # "new" /\ req[r].kind # "status" /\ r \in Charged
      BY <1>1, EnteredBy DEF Guarded, Charged
    <3>2. granted[r] \in Nat /\ i \in 1..Len(entries[r]) /\ entries[r][i] # "throttled"
      BY <1>1, <3>1, EnteredFacts DEF Done
    <3>3. i <= granted[r]
      BY <1>1, <3>1, <3>2, DoneFacts
    <3>4. QED
      BY <3>1, <3>2, <3>3
  <2>2. Operations(Payers) \subseteq Tickets
    BY <2>1 DEF Operations, Tickets
  <2>3. Cardinality(Operations(Payers)) <= Cardinality(Tickets)
    BY <1>1, <2>2, FS_Subset DEF Accounts
  <2>4. QED
    BY <1>1, <2>3 DEF Accounts, QuotaCoversWork
<1>2. QED
  BY <1>1, Invariant, AccountsInvariant, WorkIsGranted, PTL
-----------------------------------------------------------------------------
(* The handlers' one-step charges are calls of Quota: a request asks when  *)
(* its access was found and is answered by its charge, or rate_limit()     *)
(* throws and it is not, all in one window.                                *)
CallOf(r) == IF at[r] = "charge" THEN "asking"
             ELSE IF granted[r] > 0 \/ ended[r] = "forbidden" THEN "answered" ELSE "none"
WantOf(r) == IF at[r] = "charge" THEN Cost(req[r]) ELSE 0

Charges == INSTANCE Quota WITH
    Callers <- Requests, Period <- 0, Requests <- 0..Unlimited, clock <- 0, ends <- 0,
    since <- [r \in Requests |-> 0], call <- [r \in Requests |-> CallOf(r)],
    want <- [r \in Requests |-> WantOf(r)], answer <- granted

(* A step that neither enters nor leaves the place of the charge.          *)
LEMMA QuietStep ==
    ASSUME Inv, NEW r \in Requests, UNCHANGED <<granted, left>>,
           \A s \in Requests : ended'[s] = "forbidden" <=> ended[s] = "forbidden",
           at' = at \/ \E l \in Label \ {"charge"} : at' = [at EXCEPT ![r] = l],
           at[r] # "charge", \A s \in Requests : s # r => req'[s] = req[s]
    PROVE  UNCHANGED Charges!vars
<1>1. \A s \in Requests : /\ s # r => at'[s] = at[s] /\ req'[s] = req[s]
                          /\ at'[r] # "charge"
  BY DEF Inv, Types
<1>2. \A s \in Requests : CallOf(s)' = CallOf(s) /\ WantOf(s)' = WantOf(s)
  BY <1>1 DEF CallOf, WantOf
<1>3. QED
  BY <1>2 DEF Charges!vars

LEMMA AskStep ==
    ASSUME Inv, NEW r \in Requests, Authorized(r)
    PROVE  Charges!Ask(r)
<1>1. /\ at[r] = "authorize" /\ at' = [at EXCEPT ![r] = "charge"]
      /\ UNCHANGED <<req, granted, ended, left>>
  BY DEF Authorized, Goto
<1>2. /\ granted[r] = 0 /\ ended[r] = "not"
      /\ req[r] \in RequestSet /\ Cost(req[r]) \in 0..Unlimited
  BY <1>1, RequestFacts DEF Inv, Own, Place, Types
<1>3. /\ \A s \in Requests : s # r => CallOf(s)' = CallOf(s) /\ WantOf(s)' = WantOf(s)
      /\ CallOf(r) # "asking" /\ CallOf(r)' = "asking" /\ WantOf(r)' = Cost(req[r])
  BY <1>1, <1>2 DEF CallOf, WantOf, Inv, Types
<1>4. granted = [granted EXCEPT ![r] = 0]
  BY <1>2 DEF Inv, Types
<1>5. QED
  BY <1>1, <1>2, <1>3, <1>4 DEF Charges!Ask

LEMMA AnswerStep ==
    ASSUME Inv, NEW r \in Requests, Charge(r) \/ ChargeFails(r)
    PROVE  Charges!Serve(r) \/ Charges!ServeUnrecorded(r) \/ Charges!FailOpen(r)
<1>1. PICK a \in {Unlimited, Share(r)} :
         /\ at[r] = "charge" /\ granted' = [granted EXCEPT ![r] = a] /\ UNCHANGED req
         /\ \/ /\ a = 0 /\ at' = [at EXCEPT ![r] = "leave"]
               /\ ended' = [ended EXCEPT ![r] = "forbidden"]
            \/ a # 0 /\ at' = [at EXCEPT ![r] = "work"] /\ UNCHANGED ended
         /\ left' = left \/ (a = Share(r) /\ left' = left - Share(r))
  BY DEF Charge, ChargeFails, Granted, Turned, Goto
<1>2. a \in Nat
  <2>1. req[r] \in RequestSet /\ left \in Nat /\ Unlimited \in Nat
    BY <1>1, QuotaAssumption DEF Unlimited, Inv, Types, Own, Place
  <2>2. Cost(req[r]) \in Nat
    BY <2>1, RequestFacts
  <2>3. QED
    BY <1>1, <2>1, <2>2 DEF Share
<1>3. /\ \A s \in Requests : s # r => CallOf(s)' = CallOf(s) /\ WantOf(s)' = WantOf(s)
      /\ CallOf(r) = "asking" /\ CallOf(r)' = "answered"
      /\ WantOf(r) = Cost(req[r]) /\ WantOf(r)' = 0
  BY <1>1, <1>2 DEF CallOf, WantOf, Inv, Types
<1>4. Charges!Answered(r, a)
  BY <1>1, <1>3 DEF Charges!Answered, Charges!Done
<1>5. Charges!Available(r) = left /\ Charges!Share(r) = Share(r)
  BY <1>3 DEF Charges!Available, Charges!Share, Share
<1>6. QED
  BY <1>1, <1>4, <1>5 DEF Charges!Serve, Charges!ServeUnrecorded, Charges!FailOpen

LEMMA VanishStep ==
    ASSUME Inv, NEW r \in Requests, ChargeThrows(r)
    PROVE  Charges!Vanish(r)
<1>1. /\ at[r] = "charge" /\ at' = [at EXCEPT ![r] = "leave"]
      /\ ended' = [ended EXCEPT ![r] = "threw"] /\ UNCHANGED <<req, granted, left>>
  BY DEF ChargeThrows, Throw, Goto
<1>2. granted[r] = 0
  BY <1>1 DEF Inv, Own, Place
<1>3. /\ \A s \in Requests : s # r => CallOf(s)' = CallOf(s) /\ WantOf(s)' = WantOf(s)
      /\ CallOf(r) = "asking" /\ CallOf(r)' = "none" /\ WantOf(r)' = 0
  BY <1>1, <1>2 DEF CallOf, WantOf, Inv, Types
<1>4. QED
  BY <1>1, <1>3 DEF Charges!Vanish, Charges!Done

(* What the handlers see of the quota is what Quota describes, the same    *)
(* that RateLimit is shown to implement: rate_limit() as one step promises *)
(* them nothing else (preliminary, tokenization.hh).                       *)
THEOREM HandlersUseQuota == Spec => Charges!Spec
<1>1. Init => Charges!Init
  <2> SUFFICES ASSUME Init PROVE Charges!Init
    OBVIOUS
  <2>1. \A r \in Requests : CallOf(r) = "none" /\ WantOf(r) = 0
    BY DEF Init, CallOf, WantOf
  <2>2. QED
    BY <2>1, QuotaAssumption DEF Init, Charges!Init
<1>2. ASSUME Inv, [Next]_vars PROVE [Charges!Next]_Charges!vars
  <2>1. CASE UNCHANGED vars
    BY <2>1 DEF vars, Charges!vars, CallOf, WantOf
  <2>2. ASSUME NEW r \in Requests, Enter(r) PROVE UNCHANGED Charges!vars
    <3>1. /\ at[r] = "new" /\ UNCHANGED <<ended, granted, left>>
          /\ \E l \in Label \ {"charge"} : at' = [at EXCEPT ![r] = l]
      BY <2>2 DEF Enter, Goto, Label
    <3>2. \A s \in Requests : s # r => req'[s] = req[s]
      BY <1>2, <2>2 DEF Enter, Inv, Types
    <3>3. QED
      BY <1>2, <3>1, <3>2, QuietStep
  <2>3. ASSUME NEW r \in Requests, Handler(r), ~Authorized(r), ~Charge(r), ~ChargeFails(r),
               ~ChargeThrows(r)
        PROVE  UNCHANGED Charges!vars
    <3>1. /\ at[r] # "charge" /\ UNCHANGED <<req, granted, left>>
          /\ at' = at \/ \E l \in Label \ {"charge"} : at' = [at EXCEPT ![r] = l]
      <4>1. CASE ParseOK(r) \/ ParseFails(r) \/ Denied(r) \/ AuthorizeFails(r)
        BY <4>1 DEF ParseOK, ParseFails, Denied, AuthorizeFails, Turned, Throw, Goto, Label
      <4>2. CASE Throttle(r) \/ Work(r)
        BY <4>2 DEF Throttle, Work, Item, MoreWork, Throw, Goto, Label
      <4>3. CASE Respond(r) \/ RespondThrows(r) \/ Leave(r)
        BY <4>3 DEF Respond, RespondThrows, Throw, Leave, Goto, Label
      <4>4. QED
        BY <2>3, <4>1, <4>2, <4>3 DEF Handler
    <3>2. \A s \in Requests : ended'[s] = "forbidden" <=> ended[s] = "forbidden"
      <4>1. \/ UNCHANGED ended
            \/ /\ ended[r] = "not"
               /\ \E e \in {"threw", "unauthorized", "responded"} : ended' = [ended EXCEPT ![r] = e]
        <5>1. CASE Denied(r)
          BY <1>2, <5>1 DEF Denied, Turned, Inv, Own, Place
        <5>2. CASE Respond(r)
          BY <1>2, <5>2 DEF Respond, Inv, Own, Place
        <5>3. CASE Throw(r) /\ at[r] # "leave" /\ at[r] # "done" /\ at[r] \in Label
          BY <1>2, <5>3 DEF Throw, Inv, Own, Place, Label
        <5>4. QED
          BY <1>2, <2>3, <5>1, <5>2, <5>3
             DEF Handler, ParseOK, ParseFails, AuthorizeFails, Throttle, Work, Item, MoreWork,
                 RespondThrows, Leave, Inv, Types
      <4>2. QED
        BY <1>2, <4>1 DEF Inv, Types
    <3>3. QED
      BY <1>2, <3>1, <3>2, QuietStep
  <2>4. QED
    BY <1>2, <2>1, <2>2, <2>3, AskStep, AnswerStep, VanishStep DEF Next, Charges!Next
<1>3. QED
  BY <1>1, <1>2, Invariant, PTL DEF Spec, Charges!Spec
=============================================================================
