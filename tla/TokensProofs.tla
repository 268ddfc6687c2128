---------------------------- MODULE TokensProofs ----------------------------
(***************************************************************************)
(* What the token routes keep and tell, for any requests, bodies and time  *)
(* zone: lemmas on the conversions first, then the invariant, which says   *)
(* that objects under way have dates as the server reads them and that     *)
(* answers lie in the places of their items.                               *)
(***************************************************************************)
EXTENDS Tokens, SequenceTheorems, FiniteSetTheorems, WellFoundedInduction, TLAPS

-----------------------------------------------------------------------------
(* The conversions, field by field.                                        *)

(* Copying changes nothing, since the destination was cleared.             *)
LEMMA CopyIs ==
    ASSUME NEW s
    PROVE  /\ DOMAIN Copy(s) = DOMAIN s
           /\ \A f \in DOMAIN s : Copy(s)[f] = s[f]
  BY DEF Copy, Set, Blank, Has

(* The wire shows every field, properties as an object.                    *)
LEMMA WireIs ==
    ASSUME NEW s
    PROVE  /\ DOMAIN WireSetter(s) = DOMAIN s
           /\ \A f \in DOMAIN s : WireSetter(s)[f] =
                 IF f = "properties" THEN [form |-> "object", map |-> s[f]] ELSE s[f]
<1> DEFINE w == [f \in DOMAIN s |->
                    IF f = "properties" THEN [form |-> "object", map |-> s[f]] ELSE s[f]]
<1>1. DOMAIN w = DOMAIN s /\ \A f \in DOMAIN s : w[f] =
                 IF f = "properties" THEN [form |-> "object", map |-> s[f]] ELSE s[f]
  OBVIOUS
<1>2. WireSetter(s) = Copy(w)
  BY DEF WireSetter
<1>3. QED
  BY <1>1, <1>2, CopyIs

(* A successful answer shows the entry, its date in UTC.                   *)
LEMMA SucceededIs ==
    ASSUME NEW e
    PROVE  /\ DOMAIN Succeeded(e) = Filled(e)
           /\ \A f \in Filled(e) : Succeeded(e)[f] =
                 CASE f = "properties" -> [form |-> "object", map |-> e[f]]
                   [] f = "expiration" -> FromTime(e[f])
                   [] OTHER -> e[f]
<1> DEFINE g == TokenGetter(e)
<1>1. DOMAIN g = Filled(e) /\ \A f \in Filled(e) : g[f] =
                 IF f = "expiration" THEN FromTime(e[f]) ELSE e[f]
  BY DEF TokenGetter
<1>2. DOMAIN Copy(g) = Filled(e) /\ \A f \in Filled(e) : Copy(g)[f] = g[f]
  BY <1>1, CopyIs
<1> DEFINE c == Copy(g)
<1>3. Succeeded(e) = WireSetter(c)
  BY DEF Succeeded
<1>4. DOMAIN c = Filled(e) /\ \A f \in Filled(e) : c[f] =
                 IF f = "expiration" THEN FromTime(e[f]) ELSE e[f]
  BY <1>1, <1>2
<1> HIDE DEF c
<1>5. /\ DOMAIN WireSetter(c) = DOMAIN c
      /\ \A f \in DOMAIN c : WireSetter(c)[f] =
            IF f = "properties" THEN [form |-> "object", map |-> c[f]] ELSE c[f]
  BY WireIs
<1>6. QED
  BY <1>3, <1>4, <1>5

(* An error answer adds the error to what was asked.                       *)
LEMMA FailedIs ==
    ASSUME NEW s
    PROVE  /\ DOMAIN Failed(s) = DOMAIN s \cup {"error"}
           /\ \A f \in DOMAIN s \ {"error", "properties"} : Failed(s)[f] = s[f]
<1> DEFINE t == Set(s, [error |-> "error"])
<1>1. DOMAIN t = DOMAIN s \cup {"error"} /\ \A f \in DOMAIN s \ {"error"} : t[f] = s[f]
  BY DEF Set, Has
<1>2. Failed(s) = WireSetter(t)
  BY DEF Failed
<1> HIDE DEF t
<1>3. QED
  BY <1>1, <1>2, WireIs

(* Whether an object's date, if it has one, is a string: what strptime     *)
(* reads of it, with any offset.                                           *)
GoodDate(json) == Has(json, "expiration") =>
    IF json.expiration = Odd THEN TRUE ELSE json.expiration \in [clock : Int \cup {Unparsed}, offset : Int \cup {NoOffset}]

EntryOK(e) == /\ DOMAIN e \subseteq Kept
              /\ Has(e, "expiration") => e.expiration \in Int

(* Whatever the time zone, an answer tells the instant that is stored.     *)
LEMMA AnswersAreTrue ==
    ASSUME NEW e, EntryOK(e)
    PROVE  Data(Succeeded(e)) = EntryData(e)
<1> DEFINE j == Succeeded(e)
<1>1. Has(e, "expiration") => Instant(FromTime(e.expiration)) = e.expiration
  BY DatesAssumption DEF Instant, FromTime, EntryOK
<1>2. DOMAIN j = Filled(e) /\ \A f \in Filled(e) : j[f] =
                 CASE f = "properties" -> [form |-> "object", map |-> e[f]]
                   [] f = "expiration" -> FromTime(e[f])
                   [] OTHER -> e[f]
  BY SucceededIs
<1> HIDE DEF j
<1>3. "expiration" \in Filled(e) => /\ Instant(j["expiration"]) = e.expiration
                                    /\ e.expiration # 0
  BY <1>1, <1>2 DEF Filled, Has
<1>4. {g \in DOMAIN j \cap Told : g = "expiration" => Instant(j[g]) # 0} = Filled(e) \cap Told
  BY <1>2, <1>3
<1>5. \A f \in Filled(e) \cap Told :
         (CASE f = "expiration" -> Instant(j[f])
            [] f = "properties" -> j[f].map
            [] OTHER            -> j[f]) = e[f]
  BY <1>2, <1>3 DEF Told
<1>6. QED
  BY <1>4, <1>5 DEF Data, EntryData, j

(* A date that was read stands for the instant that it means or one off by *)
(* the difference of the offsets; zeros stand for one before the epoch.    *)
LEMMA TimesStandFor ==
    ASSUME NEW date \in [clock : Int \cup {Unparsed}, offset : Int \cup {NoOffset}]
    PROVE  ToTime(date) \in Int /\ StandsFor(ToTime(date), date)
<1> DEFINE c == date.clock
           o == date.offset
<1>1. c \in Int \cup {Unparsed} /\ o \in Int \cup {NoOffset}
  OBVIOUS
<1>2. Zone \in Int /\ ZeroTm \in Int /\ ZeroTm < Zone
  BY DatesAssumption
<1>3. /\ ToTime(date) = (IF c = Unparsed THEN ZeroTm ELSE c) - Zone
      /\ Instant(date) = c - (IF o = NoOffset THEN Zone ELSE o)
  BY DEF ToTime, Instant
<1>4. /\ StandsFor(ToTime(date), date) =
             /\ c = Unparsed => ToTime(date) < 0
             /\ c # Unparsed =>
                   ToTime(date) - Instant(date) = IF o \in {NoOffset, Zone} THEN 0 ELSE o - Zone
  BY DEF StandsFor
<1> HIDE DEF c, o
<1>5. CASE c = Unparsed
  <2>1. ToTime(date) = ZeroTm - Zone
    BY <1>3, <1>5
  <2>2. QED
    BY <1>2, <1>4, <1>5, <2>1
<1>6. CASE c # Unparsed
  <2>1. c \in Int /\ ToTime(date) = c - Zone
    BY <1>1, <1>3, <1>6
  <2>2. CASE o = NoOffset
    <3>1. Instant(date) = c - Zone /\ o \in {NoOffset, Zone}
      BY <1>3, <2>2
    <3>2. (c - Zone) - (c - Zone) = 0 /\ c - Zone \in Int
      BY <1>2, <2>1
    <3>3. QED
      BY <1>4, <1>6, <2>1, <3>1, <3>2
  <2>3. CASE o # NoOffset
    <3>1. o \in Int /\ Instant(date) = c - o
      BY <1>1, <1>3, <2>3
    <3>2. (c - Zone) - (c - o) = o - Zone
      BY <1>2, <2>1, <3>1
    <3>3. (IF o \in {NoOffset, Zone} THEN 0 ELSE o - Zone) = o - Zone
      BY <1>2, <2>3, <3>1
    <3>4. ToTime(date) \in Int
      BY <1>2, <2>1
    <3>5. QED
      BY <1>4, <1>6, <2>1, <3>1, <3>2, <3>3, <3>4
  <2>4. QED
    BY <2>2, <2>3
<1>7. QED
  BY <1>5, <1>6

(* The entry made of a body keeps what the body asks for.                  *)
LEMMA EntriesKeep ==
    ASSUME NEW b, Readable(b), GoodDate(b), NEW k
    PROVE  Keeps(EntryData(Set(ToEntry(WireGetter(b)), [token |-> k])), b)
<1> DEFINE w == WireGetter(b)
           t == ToEntry(w)
           e == Set(t, [token |-> k])
           data == EntryData(e)
<1>1. DOMAIN w = DOMAIN b \cap Read /\ \A f \in DOMAIN w : w[f] = IF f = "properties" THEN b[f].map ELSE b[f]
  BY DEF WireGetter
<1>2. DOMAIN t = DOMAIN w \cap Kept /\ \A f \in DOMAIN t : t[f] = IF f = "expiration" THEN ToTime(w[f]) ELSE w[f]
  BY DEF ToEntry
<1> HIDE DEF w
<1>3. DOMAIN e = DOMAIN t \cup {"token"} /\ \A f \in DOMAIN t \ {"token"} : e[f] = t[f]
  BY DEF Set, Has
<1> HIDE DEF t, e
<1>4. \A f \in Told : f \in DOMAIN e <=> f \in DOMAIN b
  BY <1>1, <1>2, <1>3 DEF Told, Kept, Read
<1>5. /\ Has(b, "value") => e["value"] = b["value"]
      /\ Has(b, "properties") => e["properties"] = b["properties"].map
      /\ Has(b, "expiration") => e["expiration"] = ToTime(b["expiration"])
  BY <1>1, <1>2, <1>3 DEF Kept, Read, Has
<1>6. DOMAIN data = Filled(e) \cap Told /\ \A f \in DOMAIN data : data[f] = e[f]
  BY DEF EntryData
<1> HIDE DEF data
<1>7. DOMAIN data \subseteq DOMAIN b
  BY <1>4, <1>6 DEF Filled
<1>8. \A f \in DOMAIN b \cap {"value", "properties"} : Has(data, f)
  BY <1>4, <1>6 DEF Filled, Told, Has
<1>9. /\ Has(b, "value") => data["value"] = b["value"]
      /\ Has(b, "properties") => data["properties"] = b["properties"].map
  BY <1>5, <1>6, <1>8 DEF Has
<1>10. ASSUME Has(b, "expiration")
       PROVE  StandsFor(IF Has(data, "expiration") THEN data["expiration"] ELSE 0, b["expiration"])
  <2>1. b["expiration"] \in [clock : Int \cup {Unparsed}, offset : Int \cup {NoOffset}]
    BY <1>10 DEF Readable, GoodDate, Has, Read
  <2>2. StandsFor(ToTime(b["expiration"]), b["expiration"])
    BY <2>1, TimesStandFor
  <2>3. "expiration" \in DOMAIN e /\ e["expiration"] = ToTime(b["expiration"])
    BY <1>4, <1>5, <1>10 DEF Told, Has
  <2>4. (IF Has(data, "expiration") THEN data["expiration"] ELSE 0) = e["expiration"]
    BY <1>6, <2>3 DEF Filled, Told, Has
  <2>5. QED
    BY <2>2, <2>3, <2>4
<1>11. Keeps(data, b)
  BY <1>7, <1>8, <1>9, <1>10 DEF Keeps
<1>12. QED
  BY <1>11 DEF data, e, t, w

(* A date that is sent back as it was served moves by the server's offset  *)
(* from UTC: the conversions are inverse to each other in UTC alone.       *)
THEOREM ServedDatesMove ==
    ASSUME NEW time \in Int
    PROVE  ToTime(FromTime(time)) = time - Zone
  BY DatesAssumption DEF ToTime, FromTime

-----------------------------------------------------------------------------
(* The invariant.                                                          *)
Shape ==
    /\ DOMAIN at = Requests /\ DOMAIN req = Requests /\ DOMAIN item = Requests /\ DOMAIN rows = Requests
    /\ \A r \in Requests :
          /\ item[r] \in Nat \ {0}
          /\ Len(req[r].bodies) \in Nat /\ DOMAIN req[r].bodies = 1..Len(req[r].bodies)
          /\ at[r] = "idle" => rows[r] = <<>> /\ item[r] = 1 /\ req[r].op = "none"
          /\ at[r] = "work" => /\ item[r] <= Len(req[r].bodies)
                               /\ DOMAIN rows[r] = 1..(item[r] - 1)
                               /\ req[r].op \notin {"put", "post"} => Len(req[r].bodies) = 1

Dates ==
    /\ \A k \in DOMAIN vault : EntryOK(vault[k]) /\ Has(vault[k], "token") /\ vault[k].token = k
    /\ GoodDate(seen)
    /\ \A r \in Requests : /\ \A i \in DOMAIN req[r].bodies : GoodDate(req[r].bodies[i])
                           /\ \A i \in DOMAIN rows[r] : ~Has(rows[r][i], "error") => GoodDate(rows[r][i])

Inv == Shape /\ Dates

(* What clients compose or send back has good dates.                       *)
LEMMA ItemsAreGood ==
    ASSUME Inv, NEW b \in Items \cup {Blank}
    PROVE  GoodDate(b)
<1>1. CASE b \in Bodies
  BY <1>1, DatesAssumption DEF GoodDate, Has
<1>2. CASE b = seen
  BY <1>2 DEF Inv, Dates
<1>3. CASE b = Blank
  BY <1>3 DEF GoodDate, Has, Blank
<1>4. QED
  BY <1>1, <1>2, <1>3 DEF Items

(* Whatever the route, the body of a new request is a sequence of them.    *)
LEMMA BodiesAreGood ==
    ASSUME Inv, NEW op, NEW bodies \in BodiesOf(op)
    PROVE  /\ Len(bodies) \in Nat /\ DOMAIN bodies = 1..Len(bodies)
           /\ \A i \in DOMAIN bodies : GoodDate(bodies[i])
           /\ bodies # <<>> => 1 <= Len(bodies)
           /\ op \notin {"put", "post"} => Len(bodies) = 1
<1> DEFINE S == Items \cup {Blank}
<1>1. bodies \in Seq(S)
  <2>1. ASSUME NEW b \in S PROVE <<b>> \in Seq(S)
    OBVIOUS
  <2>2. CASE op = "put"
    <3>1. BodiesOf(op) = {<<b>> : b \in S}
      BY <2>2 DEF BodiesOf
    <3>2. QED
      BY <3>1, <2>1
  <2>3. CASE op = "post"
    <3>1. PICK n \in 0..MaxItems : bodies \in [1..n -> Items]
      BY <2>3 DEF BodiesOf, Payloads
    <3>2. n \in Nat
      BY MaxItemsAssumption
    <3> HIDE DEF S
    <3>3. bodies \in [1..n -> S]
      BY <3>1 DEF S
    <3>4. QED
      BY <3>2, <3>3, SeqDef
  <2>4. CASE op \notin {"put", "post"}
    <3>1. BodiesOf(op) = {<<Blank>>}
      BY <2>4 DEF BodiesOf
    <3>2. QED
      BY <3>1, <2>1
  <2>5. QED
    BY <2>2, <2>3, <2>4
<1> HIDE DEF S
<1>2. /\ Len(bodies) \in Nat /\ DOMAIN bodies = 1..Len(bodies)
      /\ bodies # <<>> => Len(bodies) # 0
  BY <1>1, LenProperties, EmptySeq
<1>3. \A i \in DOMAIN bodies : GoodDate(bodies[i])
  BY <1>1, <1>2, ElementOfSeq, ItemsAreGood DEF S
<1>4. op \notin {"put", "post"} => Len(bodies) = 1
  BY DEF BodiesOf
<1>5. QED
  BY <1>2, <1>3, <1>4

(* The entry of a readable body has an instant for its date.               *)
LEMMA NewEntryOK ==
    ASSUME NEW b, Readable(b), GoodDate(b), NEW k
    PROVE  LET e == Set(ToEntry(WireGetter(b)), [token |-> k])
           IN EntryOK(e) /\ Has(e, "token") /\ e.token = k
<1> DEFINE w == WireGetter(b)
           t == ToEntry(w)
           e == Set(t, [token |-> k])
<1>1. DOMAIN w = DOMAIN b \cap Read /\ \A f \in DOMAIN w : w[f] = IF f = "properties" THEN b[f].map ELSE b[f]
  BY DEF WireGetter
<1>2. DOMAIN t = DOMAIN w \cap Kept /\ \A f \in DOMAIN t : t[f] = IF f = "expiration" THEN ToTime(w[f]) ELSE w[f]
  BY DEF ToEntry
<1> HIDE DEF w
<1>3. /\ DOMAIN e = DOMAIN t \cup {"token"} /\ e["token"] = k
      /\ \A f \in DOMAIN t \ {"token"} : e[f] = t[f]
  BY DEF Set, Has
<1> HIDE DEF t, e
<1>4. Has(b, "expiration") /\ "expiration" \in Read => ToTime(b["expiration"]) \in Int
  BY TimesStandFor DEF Readable, GoodDate, Has
<1>5. Has(e, "expiration") => e["expiration"] \in Int
  BY <1>1, <1>2, <1>3, <1>4 DEF Has
<1>6. DOMAIN e \subseteq Kept
  BY <1>2, <1>3 DEF Kept
<1>7. EntryOK(e) /\ Has(e, "token") /\ e.token = k
  BY <1>3, <1>5, <1>6 DEF EntryOK, Has
<1>8. QED
  BY <1>7 DEF e, t, w

(* A good entry makes a good answer.                                       *)
LEMMA AnswerOK ==
    ASSUME NEW e, EntryOK(e)
    PROVE  /\ GoodDate(Succeeded(e)) /\ ~Has(Succeeded(e), "error")
           /\ Has(e, "token") => IsResponse(Succeeded(e)) /\ Succeeded(e).token = e.token
<1> DEFINE j == Succeeded(e)
<1>1. DOMAIN j = Filled(e) /\ \A f \in Filled(e) : j[f] =
                 CASE f = "properties" -> [form |-> "object", map |-> e[f]]
                   [] f = "expiration" -> FromTime(e[f])
                   [] OTHER -> e[f]
  BY SucceededIs
<1> HIDE DEF j
<1>2. Has(j, "expiration") => j["expiration"] = FromTime(e["expiration"]) /\ e["expiration"] \in Int
  BY <1>1 DEF Filled, Has, EntryOK
<1>3. GoodDate(j)
  BY <1>2 DEF GoodDate, FromTime, Has
<1>4. ~Has(j, "error")
  BY <1>1 DEF Filled, EntryOK, Kept, Has
<1>5. Has(e, "token") => Has(j, "token") /\ j["token"] = e["token"]
  BY <1>1 DEF Filled, Has
<1>6. Has(e, "token") => IsResponse(j)
  <2>1. DOMAIN j \subseteq {"token"} \cup Told
    BY <1>1 DEF Filled, EntryOK, Kept, Told
  <2>2. Has(j, "properties") => j["properties"].form = "object"
    BY <1>1 DEF Has
  <2>3. QED
    BY <1>5, <2>1, <2>2 DEF IsResponse
<1>7. QED
  BY <1>3, <1>4, <1>5, <1>6 DEF j

(* Answering the item keeps the shape, and the dates if the answer's is.   *)
LEMMA AnswerKeepsInv ==
    ASSUME Inv, NEW r \in Requests, at[r] = "work", NEW row, Answer(r, row),
           Has(row, "error") \/ GoodDate(row),
           \A k \in DOMAIN vault' : EntryOK(vault'[k]) /\ Has(vault'[k], "token") /\ vault'[k].token = k
    PROVE  Inv'
<1>1. Shape'
  <2>1. /\ DOMAIN at' = Requests /\ DOMAIN req' = Requests
        /\ DOMAIN item' = Requests /\ DOMAIN rows' = Requests
    BY DEF Inv, Shape, Answer
  <2>2. ASSUME NEW s \in Requests
        PROVE  /\ item'[s] \in Nat \ {0}
               /\ Len(req'[s].bodies) \in Nat /\ DOMAIN req'[s].bodies = 1..Len(req'[s].bodies)
               /\ at'[s] = "idle" => rows'[s] = <<>> /\ item'[s] = 1 /\ req'[s].op = "none"
               /\ at'[s] = "work" => /\ item'[s] <= Len(req'[s].bodies)
                                     /\ DOMAIN rows'[s] = 1..(item'[s] - 1)
                                     /\ req'[s].op \notin {"put", "post"} => Len(req'[s].bodies) = 1
    <3>1. CASE s = r
      <4>1. /\ item'[s] = item[s] + 1 /\ req'[s] = req[s]
            /\ at'[s] = IF item[s] = Len(req[s].bodies) THEN "done" ELSE "work"
            /\ DOMAIN rows'[s] = DOMAIN rows[s] \cup {item[s]}
        BY <3>1 DEF Inv, Shape, Answer
      <4>2. /\ item[s] \in Nat \ {0} /\ item[s] <= Len(req[s].bodies) /\ Len(req[s].bodies) \in Nat
            /\ DOMAIN rows[s] = 1..(item[s] - 1) /\ DOMAIN req[s].bodies = 1..Len(req[s].bodies)
            /\ req[s].op \notin {"put", "post"} => Len(req[s].bodies) = 1
        BY <3>1 DEF Inv, Shape
      <4>3. QED
        BY <4>1, <4>2
    <3>2. CASE s # r
      <4>1. item'[s] = item[s] /\ req'[s] = req[s] /\ at'[s] = at[s] /\ rows'[s] = rows[s]
        BY <3>2 DEF Inv, Shape, Answer
      <4>2. QED
        BY <4>1 DEF Inv, Shape
    <3>3. QED
      BY <3>1, <3>2
  <2>3. QED
    BY <2>1, <2>2 DEF Shape
<1>2. Dates'
  <2>1. GoodDate(seen')
    BY DEF Inv, Dates, Answer
  <2>2. ASSUME NEW s \in Requests
        PROVE  /\ \A i \in DOMAIN req'[s].bodies : GoodDate(req'[s].bodies[i])
               /\ \A i \in DOMAIN rows'[s] : ~Has(rows'[s][i], "error") => GoodDate(rows'[s][i])
    <3>1. \A i \in DOMAIN rows'[s] : rows'[s][i] = row \/ (i \in DOMAIN rows[s] /\ rows'[s][i] = rows[s][i])
      BY DEF Inv, Shape, Answer
    <3>2. QED
      BY <3>1 DEF Inv, Dates, Answer
  <2>3. QED
    BY <2>1, <2>2 DEF Dates
<1>3. QED
  BY <1>1, <1>2 DEF Inv

(* Nothing is stored nor under way at first.                               *)
LEMMA InitInv == Init => Inv
<1> SUFFICES ASSUME Init PROVE Shape /\ Dates
  BY DEF Inv
<1>1. \A r \in Requests : Len(req[r].bodies) = 0 /\ DOMAIN req[r].bodies = {} /\ req[r].op = "none"
  BY DEF Init, NoRequest
<1>2. Shape
  BY <1>1 DEF Init, Shape
<1>3. Dates
  BY <1>1 DEF Init, Dates, Blank, GoodDate, Has
<1>4. QED
  BY <1>2, <1>3

(* A new request has bodies with good dates and no answers.                *)
LEMMA SendKeepsInv ==
    ASSUME Inv, NEW r \in Requests, Send(r)
    PROVE  Inv'
<1>1. PICK verb \in Verbs, path \in Paths :
         \E route \in Routes(verb, Clean(path)) :
            \E bodies \in BodiesOf(route.op) : Route(r, route, Clean(path), bodies)
  BY DEF Send
<1>2. PICK route \in Routes(verb, Clean(path)) :
         \E bodies \in BodiesOf(route.op) : Route(r, route, Clean(path), bodies)
  BY <1>1
<1> DEFINE op == route.op
<1>3. PICK bodies \in BodiesOf(op) : Route(r, route, Clean(path), bodies)
  BY <1>2
<1>4. /\ Len(bodies) \in Nat /\ DOMAIN bodies = 1..Len(bodies)
      /\ \A i \in DOMAIN bodies : GoodDate(bodies[i])
      /\ bodies # <<>> => 1 <= Len(bodies)
      /\ op \notin {"put", "post"} => Len(bodies) = 1
  BY BodiesAreGood
<1>5. vault' = vault /\ item' = item /\ rows' = rows /\ seen' = seen /\ at[r] = "idle"
  BY DEF Send
<1>6. /\ req'[r].bodies = bodies /\ req'[r].op = op
      /\ at'[r] = IF bodies = <<>> THEN "done" ELSE "work"
      /\ rows[r] = <<>> /\ item[r] = 1
      /\ \A s \in Requests \ {r} : req'[s] = req[s] /\ at'[s] = at[s]
  BY <1>3, <1>5 DEF Inv, Shape, Route
<1>7. Shape'
  <2>1. DOMAIN at' = Requests /\ DOMAIN req' = Requests /\ DOMAIN item' = Requests /\ DOMAIN rows' = Requests
    BY <1>3, <1>5 DEF Inv, Shape, Route
  <2>2. DOMAIN rows[r] = 1..(item[r] - 1)
    BY <1>6
  <2>3. ASSUME NEW s \in Requests
        PROVE  /\ item'[s] \in Nat \ {0}
               /\ Len(req'[s].bodies) \in Nat /\ DOMAIN req'[s].bodies = 1..Len(req'[s].bodies)
               /\ at'[s] = "idle" => rows'[s] = <<>> /\ item'[s] = 1 /\ req'[s].op = "none"
               /\ at'[s] = "work" => /\ item'[s] <= Len(req'[s].bodies)
                                     /\ DOMAIN rows'[s] = 1..(item'[s] - 1)
                                     /\ req'[s].op \notin {"put", "post"} => Len(req'[s].bodies) = 1
    <3>1. CASE s = r
      <4>1. item'[s] = 1 /\ DOMAIN rows'[s] = 1..(item'[s] - 1)
        BY <1>5, <1>6, <2>2, <3>1
      <4>2. at'[s] # "idle" /\ (at'[s] = "work" => bodies # <<>>)
        BY <1>6, <3>1
      <4>3. req'[s].bodies = bodies /\ req'[s].op = op
        BY <1>6, <3>1
      <4>4. QED
        BY <1>4, <4>1, <4>2, <4>3
    <3>2. CASE s # r
      BY <1>5, <1>6, <3>2 DEF Inv, Shape
    <3>3. QED
      BY <3>1, <3>2
  <2>4. QED
    BY <2>1, <2>3 DEF Shape
<1>8. Dates'
  BY <1>4, <1>5, <1>6 DEF Inv, Dates
<1>9. QED
  BY <1>7, <1>8 DEF Inv

(* The entry is made of a body that was read.                              *)
LEMMA TokenizeKeepsInv ==
    ASSUME Inv, NEW r \in Requests, Tokenize(r)
    PROVE  Inv'
<1> DEFINE new == ToEntry(WireGetter(Body(r)))
<1>1. PICK k \in Places(new) :
         /\ vault' = [j \in DOMAIN vault \cup {k} |-> IF j = k THEN Set(new, [token |-> k]) ELSE vault[j]]
         /\ Answer(r, Succeeded(Set(new, [token |-> k])))
  BY DEF Tokenize
<1> DEFINE e == Set(new, [token |-> k])
<1>2. at[r] = "work" /\ Readable(Body(r)) /\ GoodDate(Body(r))
  BY DEF Tokenize, Working, Inv, Shape, Dates, Body
<1>3. EntryOK(e) /\ Has(e, "token") /\ e.token = k
  BY <1>2, NewEntryOK
<1> HIDE DEF e
<1>4. GoodDate(Succeeded(e))
  BY <1>3, AnswerOK
<1>5. \A j \in DOMAIN vault' : EntryOK(vault'[j]) /\ Has(vault'[j], "token") /\ vault'[j].token = j
  BY <1>1, <1>3 DEF Inv, Dates, e
<1>6. QED
  BY <1>1, <1>2, <1>4, <1>5, AnswerKeepsInv DEF e

(* The vault is as it was, or one entry less.                              *)
LEMMA LookupKeepsInv ==
    ASSUME Inv, NEW r \in Requests, Detokenize(r) \/ Remove(r)
    PROVE  Inv'
<1>1. PICK k \in DOMAIN vault : Answer(r, Succeeded(vault[k]))
  BY DEF Detokenize, Remove
<1>2. \A j \in DOMAIN vault' : j \in DOMAIN vault /\ vault'[j] = vault[j]
  BY DEF Detokenize, Remove
<1>3. GoodDate(Succeeded(vault[k]))
  BY AnswerOK DEF Inv, Dates
<1>4. QED
  BY <1>1, <1>2, <1>3, AnswerKeepsInv DEF Inv, Dates, Detokenize, Remove, Working

(* These answers have no date, or an error.                                *)
LEMMA FailureKeepsInv ==
    ASSUME Inv, NEW r \in Requests, TokenizeFails(r) \/ LookupFails(r) \/ Status(r) \/ Metrics(r)
    PROVE  Inv'
<1>1. at[r] = "work" /\ vault' = vault
  BY DEF TokenizeFails, LookupFails, Status, Metrics, Working
<1>2. \A s : Has(Failed(s), "error")
  BY FailedIs DEF Has
<1>3. DOMAIN WireSetter([status |-> "status"]) = {"status"} /\ DOMAIN Blank = {}
  BY WireIs DEF Blank
<1>4. PICK row : Answer(r, row) /\ (Has(row, "error") \/ GoodDate(row))
  BY <1>2, <1>3 DEF TokenizeFails, LookupFails, Status, Metrics, GoodDate, Has
<1>5. QED
  BY <1>1, <1>4, AnswerKeepsInv DEF Inv, Dates

(* All answers of a query come at once.                                    *)
LEMMA QueryKeepsInv ==
    ASSUME Inv, NEW r \in Requests, Query(r)
    PROVE  Inv'
<1>1. PICK n \in 0..Cardinality(DOMAIN vault) : \E found \in [1..n -> DOMAIN vault] :
         rows' = [rows EXCEPT ![r] = [i \in 1..n |-> Succeeded(vault[found[i]])]]
  BY DEF Query
<1> PICK found \in [1..n -> DOMAIN vault] :
         rows' = [rows EXCEPT ![r] = [i \in 1..n |-> Succeeded(vault[found[i]])]]
  BY <1>1
<1>2. at' = [at EXCEPT ![r] = "done"] /\ UNCHANGED <<vault, req, item, seen, asked>>
  BY DEF Query
<1>3. Shape'
  BY <1>2 DEF Inv, Shape
<1>4. ASSUME NEW s \in Requests, NEW i \in DOMAIN rows'[s], ~Has(rows'[s][i], "error")
      PROVE  GoodDate(rows'[s][i])
  <2>1. \A k \in DOMAIN vault : GoodDate(Succeeded(vault[k]))
    BY AnswerOK DEF Inv, Dates
  <2>2. CASE s = r
    BY <2>1, <2>2 DEF Inv, Shape
  <2>3. CASE s # r
    BY <1>4, <2>3 DEF Inv, Shape, Dates
  <2>4. QED
    BY <2>2, <2>3
<1>5. Dates'
  BY <1>2, <1>4 DEF Inv, Dates
<1>6. QED
  BY <1>3, <1>5 DEF Inv

(* What a client keeps was good when it was answered.                      *)
LEMMA FinishKeepsInv ==
    ASSUME Inv, NEW r \in Requests, Respond(r) \/ Throw(r) \/ Abort(r)
    PROVE  Inv'
<1>1. Finish(r) \/ Abort(r)
  BY DEF Respond, Throw
<1>2. GoodDate(seen')
  BY DEF Respond, Throw, Abort, Inv, Dates, Tells
<1>3. /\ Len(NoRequest.bodies) = 0 /\ DOMAIN NoRequest.bodies = {} /\ NoRequest.op = "none"
  BY DEF NoRequest
<1>4. \A s \in Requests : \/ /\ at'[s] = "idle" /\ rows'[s] = <<>> /\ item'[s] = 1 /\ req'[s] = NoRequest
                          \/ at'[s] = at[s] /\ rows'[s] = rows[s] /\ item'[s] = item[s] /\ req'[s] = req[s]
  BY <1>1 DEF Finish, Abort, Inv, Shape
<1>5. Shape'
  <2>1. DOMAIN at' = Requests /\ DOMAIN req' = Requests /\ DOMAIN item' = Requests /\ DOMAIN rows' = Requests
    BY <1>1 DEF Finish, Abort, Inv, Shape
  <2>2. QED
    BY <1>3, <1>4, <2>1 DEF Inv, Shape
<1>6. Dates'
  BY <1>1, <1>2, <1>3, <1>4 DEF Finish, Abort, Inv, Dates
<1>7. QED
  BY <1>5, <1>6 DEF Inv

(* Every step keeps the invariant.                                         *)
LEMMA NextKeepsInv == Inv /\ [Next]_vars => Inv'
<1> SUFFICES ASSUME Inv, [Next]_vars PROVE Inv'
  OBVIOUS
<1>1. CASE UNCHANGED vars
  BY <1>1 DEF Inv, Shape, Dates, vars
<1>2. CASE Next
  BY <1>2, SendKeepsInv, TokenizeKeepsInv, LookupKeepsInv, FailureKeepsInv, QueryKeepsInv, FinishKeepsInv DEF Next
<1>3. QED
  BY <1>1, <1>2

(* The inductive invariant, for any number of requests, any bodies, paths  *)
(* and time zone: answers lie in the places of their items, every entry is *)
(* kept under its own token, and its date is an instant (Marshal,          *)
(* types/token.hh).                                                        *)
THEOREM Invariant == Spec => []Inv
  BY InitInv, NextKeepsInv, PTL DEF Spec

-----------------------------------------------------------------------------
(* What is stored.                                                         *)

(* What tokenize() keeps is what the client asked for.                     *)
LEMMA KeptAsAsked ==
    ASSUME Inv, NEW r \in Requests, Tokenize(r)
    PROVE  \E k : LET e == Set(ToEntry(WireGetter(Body(r))), [token |-> k])
                  IN /\ EntryOK(e) /\ Has(e, "token") /\ e.token = k
                     /\ Keeps(EntryData(e), Body(r))
                     /\ vault' = [j \in DOMAIN vault \cup {k} |-> IF j = k THEN e ELSE vault[j]]
                     /\ asked' = [j \in DOMAIN asked \cup {k} |-> IF j = k THEN Body(r) ELSE asked[j]]
                     /\ Answer(r, Succeeded(e))
<1> DEFINE new == ToEntry(WireGetter(Body(r)))
<1>1. PICK k \in Places(new) :
         /\ vault' = [j \in DOMAIN vault \cup {k} |-> IF j = k THEN Set(new, [token |-> k]) ELSE vault[j]]
         /\ asked' = [j \in DOMAIN asked \cup {k} |-> IF j = k THEN Body(r) ELSE asked[j]]
         /\ Answer(r, Succeeded(Set(new, [token |-> k])))
  BY DEF Tokenize
<1> DEFINE e == Set(new, [token |-> k])
<1>2. Readable(Body(r)) /\ GoodDate(Body(r))
  BY DEF Tokenize, Working, Inv, Shape, Dates, Body
<1>3. EntryOK(e) /\ Has(e, "token") /\ e.token = k
  BY <1>2, NewEntryOK
<1>4. Keeps(EntryData(e), Body(r))
  BY <1>2, EntriesKeep
<1>5. QED
  BY <1>1, <1>3, <1>4

(* Only tokenize() and remove() change the vault.                          *)
LEMMA NextStores == Inv /\ StoredAsAsked /\ [Next]_vars => StoredAsAsked'
<1> SUFFICES ASSUME Inv, StoredAsAsked, [Next]_vars PROVE StoredAsAsked'
  OBVIOUS
<1>1. DOMAIN asked = DOMAIN vault /\ \A k \in DOMAIN vault : Keeps(EntryData(vault[k]), asked[k])
  BY DEF StoredAsAsked
<1>2. CASE UNCHANGED <<vault, asked>>
  BY <1>1, <1>2 DEF StoredAsAsked
<1>3. ASSUME NEW r \in Requests, Tokenize(r) PROVE StoredAsAsked'
  <2>1. PICK k : LET e == Set(ToEntry(WireGetter(Body(r))), [token |-> k])
                 IN /\ Keeps(EntryData(e), Body(r))
                    /\ vault' = [j \in DOMAIN vault \cup {k} |-> IF j = k THEN e ELSE vault[j]]
                    /\ asked' = [j \in DOMAIN asked \cup {k} |-> IF j = k THEN Body(r) ELSE asked[j]]
    BY <1>3, KeptAsAsked
  <2>2. \A j \in DOMAIN vault' : Keeps(EntryData(vault'[j]), asked'[j])
    BY <1>1, <2>1
  <2>3. QED
    BY <1>1, <2>1, <2>2 DEF StoredAsAsked
<1>4. ASSUME NEW r \in Requests, Remove(r) PROVE StoredAsAsked'
  BY <1>1, <1>4 DEF Remove, StoredAsAsked
<1>5. CASE \E r \in Requests : \/ Send(r) \/ Respond(r) \/ Throw(r) \/ Abort(r) \/ TokenizeFails(r)
                               \/ Detokenize(r) \/ LookupFails(r) \/ Query(r) \/ Status(r) \/ Metrics(r)
  BY <1>2, <1>5 DEF Send, Respond, Throw, Abort, Finish, TokenizeFails, Detokenize, LookupFails, Query, Status, Metrics
<1>6. QED
  BY <1>2, <1>3, <1>4, <1>5 DEF Next, vars

(* For every number of requests and items, every time zone, and whatever   *)
(* dates clients write or send back: what the vault holds under a token is *)
(* what the client asked for that set it last, and its date is the instant *)
(* that was meant or off by the difference of the offsets (tokenization.hh *)
(* PUT and POST handlers, token::setter, toTime).                          *)
THEOREM Storage == Spec => []StoredAsAsked
<1>1. Init => StoredAsAsked
  BY DEF Init, StoredAsAsked, Blank
<1>2. QED
  BY <1>1, NextStores, Invariant, PTL DEF Spec

-----------------------------------------------------------------------------
(* What is answered.                                                       *)

(* The error's object keeps the userId of the item.                        *)
LEMMA FailureNamesUser ==
    ASSUME NEW r \in Requests, TokenizeFails(r)
    PROVE  \E row : Answer(r, row) /\ Has(row, "error") /\ SameUser(row, Body(r))
<1> DEFINE w == WireGetter(Body(r))
           s == IF req[r].op = "put" THEN SetToken(r, w) ELSE w
<1>1. Answer(r, Failed(s))
  BY DEF TokenizeFails
<1>2. Has(w, "userId") <=> Has(Body(r), "userId")
  BY DEF WireGetter, Has, Read
<1>3. Has(w, "userId") => w["userId"] = Body(r)["userId"]
  BY DEF WireGetter, Has, Read
<1> HIDE DEF w
<1>4. /\ Has(SetToken(r, w), "userId") <=> Has(w, "userId")
      /\ Has(w, "userId") => SetToken(r, w)["userId"] = w["userId"]
  BY DEF SetToken, Set, Has
<1>5. /\ Has(s, "userId") <=> Has(Body(r), "userId")
      /\ Has(s, "userId") => s["userId"] = Body(r)["userId"]
  BY <1>2, <1>3, <1>4
<1> HIDE DEF s
<1>6. Has(Failed(s), "error") /\ SameUser(Failed(s), Body(r))
  <2>1. /\ DOMAIN Failed(s) = DOMAIN s \cup {"error"}
        /\ "userId" \in DOMAIN s => Failed(s)["userId"] = s["userId"]
    BY FailedIs
  <2>2. QED
    BY <1>5, <2>1 DEF SameUser, Has
<1>7. QED
  BY <1>1, <1>6

MatchesItem(row, body) ==
    IF Has(row, "error") THEN SameUser(row, body) ELSE IsResponse(row) /\ Keeps(Data(row), body)

(* The answer to an item is one to this item.                              *)
LEMMA TokenizeMatches ==
    ASSUME Inv, NEW r \in Requests, Tokenize(r) \/ TokenizeFails(r)
    PROVE  \E row : Answer(r, row) /\ MatchesItem(row, Body(r))
<1>1. CASE TokenizeFails(r)
  BY <1>1, FailureNamesUser DEF MatchesItem
<1>2. CASE Tokenize(r)
  <2>1. PICK k : LET e == Set(ToEntry(WireGetter(Body(r))), [token |-> k])
                 IN EntryOK(e) /\ Has(e, "token") /\ Keeps(EntryData(e), Body(r)) /\ Answer(r, Succeeded(e))
    BY <1>2, KeptAsAsked
  <2> DEFINE e == Set(ToEntry(WireGetter(Body(r))), [token |-> k])
  <2>2. EntryOK(e) /\ Has(e, "token") /\ Keeps(EntryData(e), Body(r)) /\ Answer(r, Succeeded(e))
    BY <2>1
  <2> HIDE DEF e
  <2>3. /\ ~Has(Succeeded(e), "error") /\ IsResponse(Succeeded(e))
        /\ Data(Succeeded(e)) = EntryData(e)
    BY <2>2, AnswerOK, AnswersAreTrue
  <2>4. QED
    BY <2>2, <2>3 DEF MatchesItem
<1>3. QED
  BY <1>1, <1>2

(* A new answer matches its item, the others stay.                         *)
LEMMA NextAnswers == Inv /\ AnswersMatchItems /\ [Next]_vars => AnswersMatchItems'
<1> SUFFICES ASSUME Inv, AnswersMatchItems, [Next]_vars,
                    NEW s \in Requests, req'[s].op \in {"put", "post"}, NEW i \in DOMAIN rows'[s]
             PROVE  MatchesItem(rows'[s][i], req'[s].bodies[i])
  BY DEF AnswersMatchItems, MatchesItem
<1>1. CASE req'[s] = req[s] /\ i \in DOMAIN rows[s] /\ rows'[s][i] = rows[s][i]
  BY <1>1 DEF AnswersMatchItems, MatchesItem
<1>2. CASE UNCHANGED vars
  BY <1>1, <1>2 DEF vars
<1>3. ASSUME NEW r \in Requests, Send(r)
      PROVE  req'[s] = req[s] /\ i \in DOMAIN rows[s] /\ rows'[s][i] = rows[s][i]
  <2>1. at[r] = "idle" /\ rows' = rows /\ (s # r => req'[s] = req[s])
    BY <1>3 DEF Send, Route, Inv, Shape
  <2>2. DOMAIN rows[r] = {}
    BY <2>1 DEF Inv, Shape
  <2>3. QED
    BY <2>1, <2>2
<1>4. ASSUME NEW r \in Requests, Respond(r) \/ Throw(r) \/ Abort(r)
      PROVE  req'[s] = req[s] /\ i \in DOMAIN rows[s] /\ rows'[s][i] = rows[s][i]
  <2>1. \/ req'[s] = req[s] /\ rows'[s] = rows[s]
        \/ rows'[s] = <<>>
    BY <1>4 DEF Respond, Throw, Abort, Finish, Inv, Shape
  <2>2. QED
    BY <2>1
<1>5. ASSUME NEW r \in Requests, NEW row, Answer(r, row),
             at[r] = "work" /\ req[r].op \in {"put", "post"} => MatchesItem(row, Body(r)),
             at[r] = "work"
      PROVE  MatchesItem(rows'[s][i], req'[s].bodies[i])
  <2>1. CASE s = r /\ i = item[r]
    BY <1>5, <2>1 DEF Answer, Inv, Shape, Body
  <2>2. CASE ~(s = r /\ i = item[r])
    <3>1. req'[s] = req[s] /\ i \in DOMAIN rows[s] /\ rows'[s][i] = rows[s][i]
      BY <1>5, <2>2 DEF Answer, Inv, Shape
    <3>2. QED
      BY <1>1, <3>1
  <2>3. QED
    BY <2>1, <2>2
<1>6. ASSUME NEW r \in Requests, Tokenize(r) \/ TokenizeFails(r)
      PROVE  MatchesItem(rows'[s][i], req'[s].bodies[i])
  <2>1. PICK row : Answer(r, row) /\ MatchesItem(row, Body(r))
    BY <1>6, TokenizeMatches
  <2>2. QED
    BY <1>5, <1>6, <2>1 DEF Tokenize, TokenizeFails, Working
<1>7. ASSUME NEW r \in Requests, Detokenize(r) \/ Remove(r) \/ LookupFails(r) \/ Status(r) \/ Metrics(r)
      PROVE  MatchesItem(rows'[s][i], req'[s].bodies[i])
  <2>1. at[r] = "work" /\ req[r].op \notin {"put", "post"} /\ \E row : Answer(r, row)
    BY <1>7 DEF Detokenize, Remove, LookupFails, Status, Metrics, Working
  <2>2. QED
    BY <1>5, <2>1
<1>8. ASSUME NEW r \in Requests, Query(r)
      PROVE  req'[s] = req[s] /\ i \in DOMAIN rows[s] /\ rows'[s][i] = rows[s][i]
  <2>1. req' = req /\ req[r].op = "query" /\ (s # r => rows'[s] = rows[s])
    BY <1>8 DEF Query, Working
  <2>2. QED
    BY <2>1
<1>9. QED
  BY <1>1, <1>2, <1>3, <1>4, <1>6, <1>7, <1>8 DEF Next

(* Each object of an answer belongs to the item in its place, however many *)
(* items a batch has and whichever of them fail, in whatever time zone: an *)
(* error with the item's userId, or the token with all that is kept of the *)
(* item and nothing else (Marshal::from, tokenization.hh POST handler).    *)
THEOREM Answers == Spec => []AnswersMatchItems
<1>1. Init => AnswersMatchItems
  BY DEF Init, AnswersMatchItems
<1>2. QED
  BY <1>1, NextAnswers, Invariant, PTL DEF Spec

-----------------------------------------------------------------------------
(* The map that the routes implement.                                      *)
ToldTo(r) == {<<rows[r][i].token, Data(rows[r][i])>> : i \in {j \in DOMAIN rows[r] : Tells(rows[r][j])}}

ToldAll == [r \in Requests |-> ToldTo(r)]

(* The data in the vault, as the map has them.                             *)
Stored == [k \in DOMAIN vault |-> EntryData(vault[k])]

(* An answer to an item tells one pair more, or none.                      *)
LEMMA AnswerTells ==
    ASSUME Inv, NEW r \in Requests, at[r] = "work", NEW row, Answer(r, row)
    PROVE  ToldAll' = [ToldAll EXCEPT ![r] = @ \cup IF Tells(row) THEN {<<row.token, Data(row)>>} ELSE {}]
<1>1. \A s \in Requests : s # r => rows'[s] = rows[s]
  BY DEF Answer, Inv, Shape
<1>2. /\ item[r] \notin DOMAIN rows[r]
      /\ DOMAIN rows'[r] = DOMAIN rows[r] \cup {item[r]}
      /\ \A i \in DOMAIN rows[r] : rows'[r][i] = rows[r][i]
      /\ rows'[r][item[r]] = row
  BY DEF Answer, Inv, Shape
<1>3. ToldTo(r)' = ToldTo(r) \cup IF Tells(row) THEN {<<row.token, Data(row)>>} ELSE {}
  BY <1>2 DEF ToldTo
<1>4. \A s \in Requests : s # r => ToldTo(s)' = ToldTo(s)
  BY <1>1 DEF ToldTo
<1>5. QED
  BY <1>3, <1>4 DEF ToldAll

(* A failure, the status and the metrics tell of no token.                 *)
LEMMA NothingTold ==
    ASSUME Inv, NEW r \in Requests, TokenizeFails(r) \/ LookupFails(r) \/ Status(r) \/ Metrics(r)
    PROVE  UNCHANGED Map!vars
<1>1. at[r] = "work" /\ vault' = vault
  BY DEF TokenizeFails, LookupFails, Status, Metrics, Working
<1>2. \A s : Has(Failed(s), "error")
  BY FailedIs DEF Has
<1>3. DOMAIN WireSetter([status |-> "status"]) = {"status"} /\ DOMAIN Blank = {}
  BY WireIs DEF Blank
<1>4. PICK row : Answer(r, row) /\ ~Tells(row)
  BY <1>2, <1>3 DEF TokenizeFails, LookupFails, Status, Metrics, Tells, Has
<1>5. ToldAll' = [ToldAll EXCEPT ![r] = @ \cup {}]
  BY <1>1, <1>4, AnswerTells
<1>6. ToldAll' = ToldAll
  BY <1>5 DEF ToldAll
<1>7. QED
  BY <1>1, <1>6 DEF Map!vars, Stored, ToldAll, ToldTo

(* The answer about an entry tells what is kept.                           *)
LEMMA StoredShown ==
    ASSUME Inv, NEW k \in DOMAIN vault
    PROVE  LET row == Succeeded(vault[k])
           IN Tells(row) /\ row.token = k /\ Data(row) = Stored[k]
<1>1. EntryOK(vault[k]) /\ Has(vault[k], "token") /\ vault[k].token = k
  BY DEF Inv, Dates
<1>2. QED
  BY <1>1, AnswerOK, AnswersAreTrue DEF Tells, IsResponse, Stored

(* A token that is made or replaced is one that the map keeps.             *)
LEMMA TokenizeKeepsMap ==
    ASSUME Inv, NEW r \in Requests, Tokenize(r)
    PROVE  Map!Next
<1>1. PICK k : LET e == Set(ToEntry(WireGetter(Body(r))), [token |-> k])
               IN /\ EntryOK(e) /\ Has(e, "token") /\ e.token = k
                  /\ vault' = [j \in DOMAIN vault \cup {k} |-> IF j = k THEN e ELSE vault[j]]
                  /\ Answer(r, Succeeded(e))
  BY KeptAsAsked
<1> DEFINE e == Set(ToEntry(WireGetter(Body(r))), [token |-> k])
<1>2. /\ EntryOK(e) /\ Has(e, "token") /\ e.token = k
      /\ vault' = [j \in DOMAIN vault \cup {k} |-> IF j = k THEN e ELSE vault[j]]
      /\ Answer(r, Succeeded(e))
  BY <1>1
<1> HIDE DEF e
<1>3. LET row == Succeeded(e) IN Tells(row) /\ row.token = k /\ Data(row) = EntryData(e)
  BY <1>2, AnswerOK, AnswersAreTrue DEF Tells, IsResponse
<1>4. at[r] = "work"
  BY DEF Tokenize, Working
<1>5. ToldAll' = [ToldAll EXCEPT ![r] = @ \cup {<<k, EntryData(e)>>}]
  BY <1>2, <1>3, <1>4, AnswerTells
<1>6. Stored' = [j \in DOMAIN vault' |-> EntryData(vault'[j])]
  BY DEF Stored, EntryData, Filled
<1>7. DOMAIN Stored' = DOMAIN Stored \cup {k} /\ Stored'[k] = EntryData(e)
  BY <1>2, <1>6 DEF Stored
<1>8. Stored' = [j \in DOMAIN Stored \cup {k} |-> IF j = k THEN Stored'[k] ELSE Stored[j]]
  BY <1>2, <1>6, <1>7 DEF Stored
<1>9. ToldAll' = [ToldAll EXCEPT ![r] = @ \cup {<<k, Stored'[k]>>}]
  BY <1>5, <1>7
<1>10. Map!Keep(r)
  BY <1>7, <1>8, <1>9 DEF Map!Keep, Map!Tell, Stored, ToldAll, ToldTo
<1>11. QED
  BY <1>10 DEF Map!Next

(* One that is looked up is shown,                                         *)
LEMMA LookupShows ==
    ASSUME Inv, NEW r \in Requests, Detokenize(r)
    PROVE  Map!Next
<1>1. PICK k \in DOMAIN vault : Answer(r, Succeeded(vault[k]))
  BY DEF Detokenize
<1>2. at[r] = "work" /\ vault' = vault
  BY DEF Detokenize, Working
<1>3. ToldAll' = [ToldAll EXCEPT ![r] = @ \cup {<<k, Stored[k]>>}]
  BY <1>1, <1>2, AnswerTells, StoredShown
<1>4. {<<j, Stored[j]>> : j \in {k}} = {<<k, Stored[k]>>} /\ k \in DOMAIN Stored
  BY DEF Stored
<1>5. Stored' = Stored
  BY <1>2 DEF Stored
<1>6. Map!Show(r, {k})
  BY <1>3, <1>4, <1>5 DEF Map!Show, Map!Tell, Stored, ToldAll, ToldTo
<1>7. QED
  BY <1>4, <1>6 DEF Map!Next, Stored

(* one that is removed is dropped,                                         *)
LEMMA RemoveDrops ==
    ASSUME Inv, NEW r \in Requests, Remove(r)
    PROVE  Map!Next
<1>1. PICK k \in DOMAIN vault : /\ Answer(r, Succeeded(vault[k]))
                               /\ vault' = [j \in DOMAIN vault \ {k} |-> vault[j]]
  BY DEF Remove
<1>2. at[r] = "work"
  BY DEF Remove, Working
<1>3. ToldAll' = [ToldAll EXCEPT ![r] = @ \cup {<<k, Stored[k]>>}]
  BY <1>1, <1>2, AnswerTells, StoredShown
<1>4. Stored' = [j \in DOMAIN vault' |-> EntryData(vault'[j])]
  BY DEF Stored, EntryData, Filled
<1>5. Stored' = [j \in DOMAIN Stored \ {k} |-> Stored[j]] /\ k \in DOMAIN Stored
  BY <1>1, <1>4 DEF Stored
<1>6. Map!Drop(r, k)
  BY <1>3, <1>5 DEF Map!Drop, Map!Tell, Map!Without, Stored, ToldAll, ToldTo
<1>7. QED
  BY <1>5, <1>6 DEF Map!Next, Stored

(* those that a query finds are shown together,                            *)
LEMMA QueryShows ==
    ASSUME Inv, NEW r \in Requests, Query(r)
    PROVE  Map!Next
<1>1. PICK n \in 0..Cardinality(DOMAIN vault) : \E found \in [1..n -> DOMAIN vault] :
         rows' = [rows EXCEPT ![r] = [i \in 1..n |-> Succeeded(vault[found[i]])]]
  BY DEF Query
<1>2. PICK found \in [1..n -> DOMAIN vault] :
         rows' = [rows EXCEPT ![r] = [i \in 1..n |-> Succeeded(vault[found[i]])]]
  BY <1>1
<1>3. vault' = vault /\ at[r] = "work" /\ req[r].op = "query"
  BY DEF Query, Working
<1> DEFINE S == {found[i] : i \in 1..n}
<1>4. S \in SUBSET DOMAIN Stored
  BY DEF Stored
<1>5. ToldTo(r) = {}
  <2>1. /\ item[r] \in Nat \ {0} /\ item[r] <= Len(req[r].bodies) /\ Len(req[r].bodies) = 1
        /\ DOMAIN rows[r] = 1..(item[r] - 1)
    BY <1>3 DEF Inv, Shape
  <2>2. DOMAIN rows[r] = {}
    BY <2>1
  <2>3. QED
    BY <2>2 DEF ToldTo
<1>6. ToldTo(r)' = {<<j, Stored[j]>> : j \in S}
  <2>1. DOMAIN rows'[r] = 1..n /\ \A i \in 1..n : rows'[r][i] = Succeeded(vault[found[i]])
    BY <1>2 DEF Inv, Shape
  <2>2. \A i \in 1..n : /\ Tells(rows'[r][i]) /\ rows'[r][i].token = found[i]
                        /\ Data(rows'[r][i]) = Stored[found[i]]
    BY <2>1, StoredShown
  <2>3. {j \in DOMAIN rows'[r] : Tells(rows'[r][j])} = 1..n
    BY <2>1, <2>2
  <2>4. QED
    BY <2>2, <2>3 DEF ToldTo
<1>7. \A s \in Requests : s # r => ToldTo(s)' = ToldTo(s)
  BY <1>2 DEF ToldTo, Inv, Shape
<1> HIDE DEF S
<1>8. ToldAll' = [ToldAll EXCEPT ![r] = @ \cup {<<j, Stored[j]>> : j \in S}]
  BY <1>5, <1>6, <1>7 DEF ToldAll
<1>9. Map!Show(r, S)
  BY <1>3, <1>8 DEF Map!Show, Map!Tell, Stored, ToldAll, ToldTo
<1>10. QED
  BY <1>4, <1>9 DEF Map!Next, Stored

(* and the end of a request makes room for the next one.                   *)
LEMMA FinishForgets ==
    ASSUME Inv, NEW r \in Requests, Respond(r) \/ Throw(r)
    PROVE  Map!Next
<1>1. rows' = [rows EXCEPT ![r] = <<>>] /\ vault' = vault
  BY DEF Respond, Throw, Finish
<1>2. rows'[r] = <<>> /\ \A s \in Requests : s # r => rows'[s] = rows[s]
  BY <1>1 DEF Inv, Shape
<1>3. ToldTo(r)' = {} /\ \A s \in Requests : s # r => ToldTo(s)' = ToldTo(s)
  BY <1>2 DEF ToldTo
<1>4. ToldAll' = [ToldAll EXCEPT ![r] = {}]
  BY <1>3 DEF ToldAll
<1>5. Map!Forget(r)
  BY <1>1, <1>4 DEF Map!Forget, ToldAll, ToldTo
<1>6. QED
  BY <1>5 DEF Map!Next

(* So does the end of the process, for all of them.                        *)
LEMMA AbortCrashes ==
    ASSUME Inv, NEW r \in Requests, Abort(r)
    PROVE  Map!Next
<1>1. rows' = [s \in Requests |-> <<>>] /\ vault' = vault
  BY DEF Abort
<1>2. \A s \in Requests : ToldTo(s)' = {}
  BY <1>1 DEF ToldTo
<1>3. ToldAll' = [s \in Requests |-> {}]
  BY <1>2 DEF ToldAll
<1>4. Map!Crash
  BY <1>1, <1>3 DEF Map!Crash, ToldAll, ToldTo
<1>5. QED
  BY <1>4 DEF Map!Next

(* Every step is one of the map or a stutter.                              *)
LEMMA NextMaps == Inv /\ [Next]_vars => [Map!Next]_(Map!vars)
<1> SUFFICES ASSUME Inv, [Next]_vars PROVE Map!Next \/ UNCHANGED Map!vars
  OBVIOUS
<1>1. CASE UNCHANGED <<rows, vault>>
  BY <1>1 DEF Map!vars
<1>2. CASE UNCHANGED vars
  BY <1>1, <1>2 DEF vars
<1>3. CASE \E r \in Requests : Send(r)
  BY <1>1, <1>3 DEF Send
<1>4. QED
  BY <1>2, <1>3, NothingTold, TokenizeKeepsMap, LookupShows, RemoveDrops, QueryShows,
     FinishForgets, AbortCrashes DEF Next

(* Whatever requests come and however their steps mix, in a server of any  *)
(* time zone: the routes keep, show and drop tokens as a map does, and     *)
(* tell clients what it holds, dates and properties included.              *)
THEOREM Implements == Spec => ImplementsTokenMap
<1>1. Init => Map!Init
  <2>1. ASSUME Init PROVE ToldAll = [r \in Requests |-> {}]
    BY <2>1 DEF Init, ToldAll, ToldTo
  <2>2. ASSUME Init PROVE Stored = [k \in {} |-> {}]
    BY <2>2 DEF Init, Stored, Blank
  <2>3. QED
    BY <2>1, <2>2 DEF Map!Init, Stored, ToldAll, ToldTo
<1>2. QED
  BY <1>1, NextMaps, Invariant, PTL DEF Spec, ImplementsTokenMap, Map!Spec

-----------------------------------------------------------------------------
(* What the paths of the routes ask of the path of a request.              *)
TokenPath   == <<"vaults", "{vault}", "token", "{token}">>
PostPath    == <<"vaults", "{vault}", "token">>
QueryPath   == <<"vaults", "{vault}", "query">>
VaultPath   == <<"vaults", "{vault}", "status">>
StatusPath  == <<"status">>
MetricsPath == <<"metrics">>

(* A segment that is no placeholder is that of the path.                   *)
LEMMA PathFacts ==
    ASSUME NEW path
    PROVE  /\ Fits(TokenPath, path) => Len(path) = 4
           /\ Fits(PostPath, path) => Len(path) = 3
           /\ Fits(QueryPath, path) => Len(path) = 3 /\ path[3] = "query"
           /\ Fits(VaultPath, path) => Len(path) = 3 /\ path[3] = "status"
           /\ Fits(StatusPath, path) => Len(path) = 1 /\ path[1] = "status"
           /\ Fits(MetricsPath, path) => Len(path) = 1 /\ path[1] = "metrics"
<1>1. Len(TokenPath) = 4 /\ Len(PostPath) = 3
  BY DEF TokenPath, PostPath
<1>2. Len(QueryPath) = 3 /\ QueryPath[3] = "query" /\ "query" \notin Placeholders
  BY DEF QueryPath, Placeholders
<1>3. Len(VaultPath) = 3 /\ VaultPath[3] = "status" /\ "status" \notin Placeholders
  BY DEF VaultPath, Placeholders
<1>4. Len(StatusPath) = 1 /\ StatusPath[1] = "status"
  BY DEF StatusPath
<1>5. Len(MetricsPath) = 1 /\ MetricsPath[1] = "metrics" /\ "metrics" \notin Placeholders
  BY DEF MetricsPath, Placeholders
<1>6. 3 \in 1..3 /\ 1 \in 1..1
  OBVIOUS
<1>7. QED
  BY <1>1, <1>2, <1>3, <1>4, <1>5, <1>6 DEF Fits

(* For every path that a client may send at most one route of a verb fits, *)
(* so that it does not matter in which order getRoute tries them.          *)
THEOREM OneRouteFits == \A verb, path : \A q, r \in Routes(verb, path) : q = r
<1> SUFFICES ASSUME NEW verb, NEW path, NEW q \in Routes(verb, path), NEW r \in Routes(verb, path)
             PROVE  q = r
  OBVIOUS
<1> DEFINE R(v, p, o) == [verb |-> v, path |-> p, op |-> o]
<1>1. /\ q \in RouteTable /\ q.verb = verb /\ Fits(q.path, path)
      /\ r \in RouteTable /\ r.verb = verb /\ Fits(r.path, path)
  BY DEF Routes
<1>2. RouteTable = {R("get", TokenPath, "detokenize"), R("put", TokenPath, "put"),
                    R("post", PostPath, "post"), R("delete", TokenPath, "remove"),
                    R("get", QueryPath, "query"), R("get", VaultPath, "status"),
                    R("get", StatusPath, "status"), R("get", MetricsPath, "metrics")}
  BY DEF RouteTable, TokenPath, PostPath, QueryPath, VaultPath, StatusPath, MetricsPath
<1>3. \A v, p, o : R(v, p, o).verb = v /\ R(v, p, o).path = p
  OBVIOUS
<1> HIDE DEF R
<1>4. ASSUME NEW s \in RouteTable, s.verb = verb, Fits(s.path, path)
      PROVE  s = CASE verb = "put" -> R("put", TokenPath, "put")
                   [] verb = "post" -> R("post", PostPath, "post")
                   [] verb = "delete" -> R("delete", TokenPath, "remove")
                   [] verb = "get" /\ Len(path) = 4 -> R("get", TokenPath, "detokenize")
                   [] verb = "get" /\ Len(path) = 3 /\ path[3] = "query" -> R("get", QueryPath, "query")
                   [] verb = "get" /\ Len(path) = 3 /\ path[3] = "status" -> R("get", VaultPath, "status")
                   [] verb = "get" /\ Len(path) = 1 /\ path[1] = "status" -> R("get", StatusPath, "status")
                   [] verb = "get" /\ Len(path) = 1 /\ path[1] = "metrics" -> R("get", MetricsPath, "metrics")
  BY <1>2, <1>3, <1>4, PathFacts
<1>5. QED
  BY <1>1, <1>4

-----------------------------------------------------------------------------
(* The path without its double and trailing slashes.                       *)

(* A set of natural numbers has a least member.                            *)
LEMMA Least ==
    ASSUME NEW T, T \subseteq Nat, T # {}
    PROVE  \E x \in T : \A y \in T : x <= y
<1>1. PICK x \in T : \A y \in T : ~ (<<y, x>> \in OpToRel(<, Nat))
  BY NatLessThanWellFounded, WFMin
<1>2. \A y \in T : ~(y < x)
  BY <1>1 DEF OpToRel
<1>3. QED
  BY <1>2

(* Among the numbers to m that are kept, each place has its number: the    *)
(* first one up to which so many are kept.                                 *)
LEMMA EachPlaceTaken ==
    ASSUME NEW m \in Nat, NEW kept \in SUBSET (1..m), NEW n \in 1..Cardinality(kept)
    PROVE  \E i \in kept : Cardinality(kept \cap (1..i)) = n
<1> DEFINE C(i) == Cardinality(kept \cap (1..i))
           T == {i \in 1..m : C(i) >= n}
<1>1. IsFiniteSet(kept) /\ \A i \in Nat : IsFiniteSet(kept \cap (1..i)) /\ C(i) \in Nat
  <2>1. IsFiniteSet(1..m)
    BY FS_Interval
  <2>2. IsFiniteSet(kept) /\ \A i \in Nat : IsFiniteSet(kept \cap (1..i))
    BY <2>1, FS_Subset
  <2>3. QED
    BY <2>2, FS_CardinalityType
<1>2. Cardinality(kept) \in Nat /\ n \in Nat /\ n >= 1
  BY <1>1, FS_CardinalityType
<1>3. C(0) = 0
  BY FS_EmptySet
<1>4. \A i \in 1..m : /\ i \in kept => C(i) = C(i - 1) + 1
                      /\ i \notin kept => C(i) = C(i - 1)
  <2> TAKE i \in 1..m
  <2>1. CASE i \in kept
    <3>1. kept \cap (1..i) = (kept \cap (1..(i - 1))) \cup {i} /\ i \notin kept \cap (1..(i - 1))
      BY <2>1
    <3>2. IsFiniteSet(kept \cap (1..(i - 1)))
      BY <1>1
    <3>3. C(i) = C(i - 1) + 1
      BY <3>1, <3>2, FS_AddElement
    <3>4. QED
      BY <2>1, <3>3
  <2>2. CASE i \notin kept
    <3>1. kept \cap (1..i) = kept \cap (1..(i - 1))
      BY <2>2
    <3>2. QED
      BY <2>2, <3>1
  <2>3. QED
    BY <2>1, <2>2
<1>5. m \in T
  <2>1. kept \cap (1..m) = kept
    OBVIOUS
  <2>2. m # 0
    <3>1. m = 0 => kept = {}
      OBVIOUS
    <3>2. Cardinality({}) = 0
      BY FS_EmptySet
    <3>3. kept # {}
      BY <1>2, <3>2
    <3>4. QED
      BY <3>1, <3>3
  <2>3. QED
    BY <1>2, <2>1, <2>2
<1>6. PICK i \in T : \A j \in T : i <= j
  <2>1. T \subseteq 1..m /\ T # {}
    BY <1>5
  <2> HIDE DEF T
  <2>2. T \subseteq Nat
    BY <2>1
  <2>3. QED
    BY <2>1, <2>2, Least
<1>7. i \in 1..m /\ C(i) >= n /\ C(i - 1) < n
  <2>1. i \in 1..m /\ C(i) >= n
    BY <1>6
  <2>2. CASE i = 1
    BY <1>2, <1>3, <2>1, <2>2
  <2>3. CASE i # 1
    <3>1. i - 1 \in 1..m /\ i - 1 \notin T
      BY <1>6, <2>1, <2>3
    <3>2. C(i - 1) \in Nat
      BY <1>1, <2>1
    <3>3. QED
      BY <1>2, <2>1, <3>1, <3>2
  <2>4. QED
    BY <2>2, <2>3
<1>8. i \in kept /\ C(i) = n
  <2>1. C(i) \in Nat /\ C(i - 1) \in Nat
    BY <1>1, <1>7
  <2> HIDE DEF C
  <2>2. QED
    BY <1>2, <1>4, <1>7, <2>1
<1>9. QED
  BY <1>8

(* No two of them have the same place.                                     *)
LEMMA PlacesDiffer ==
    ASSUME NEW m \in Nat, NEW kept \in SUBSET (1..m), NEW i \in kept, NEW j \in kept, i < j
    PROVE  Cardinality(kept \cap (1..i)) < Cardinality(kept \cap (1..j))
<1>1. IsFiniteSet(kept \cap (1..j))
  <2>1. IsFiniteSet(1..j) /\ kept \cap (1..j) \in SUBSET (1..j)
    BY FS_Interval
  <2>2. QED
    BY <2>1, FS_Subset
<1>2. kept \cap (1..i) \subseteq kept \cap (1..j) /\ kept \cap (1..i) # kept \cap (1..j)
  OBVIOUS
<1>3. /\ IsFiniteSet(kept \cap (1..i))
      /\ Cardinality(kept \cap (1..i)) <= Cardinality(kept \cap (1..j))
      /\ Cardinality(kept \cap (1..i)) # Cardinality(kept \cap (1..j))
  BY <1>1, <1>2, FS_Subset
<1>4. QED
  BY <1>1, <1>3, FS_CardinalityType

(* What getRoute compares are the path's segments that are not empty, all  *)
(* of them and in their order: none is lost with a slash (getRoute).       *)
THEOREM SegmentsAreKept ==
    ASSUME NEW path \in Seq(STRING)
    PROVE  /\ Clean(path) \in Seq(STRING \ {""})
           /\ \A i \in Segments(path) : /\ PlaceOf(path, i) \in 1..Len(Clean(path))
                                        /\ Clean(path)[PlaceOf(path, i)] = path[i]
           /\ \A i, j \in Segments(path) : i < j => PlaceOf(path, i) < PlaceOf(path, j)
<1> DEFINE kept == Segments(path)
           N == Cardinality(kept)
<1>0. \A i \in kept : path[i] \in STRING \ {""}
  BY ElementOfSeq DEF Segments
<1>1. Len(path) \in Nat /\ kept \in SUBSET (1..Len(path))
  BY LenProperties DEF Segments
<1>2. IsFiniteSet(kept) /\ N \in Nat
  <2>1. IsFiniteSet(1..Len(path))
    BY <1>1, FS_Interval
  <2>2. IsFiniteSet(kept)
    BY <1>1, <2>1, FS_Subset
  <2>3. QED
    BY <2>2, FS_CardinalityType
<1>3. \A n \in 1..N : \E i \in kept : PlaceOf(path, i) = n
  BY <1>1, EachPlaceTaken DEF PlaceOf
<1>4. \A i, j \in kept : i < j => PlaceOf(path, i) < PlaceOf(path, j)
  BY <1>1, PlacesDiffer DEF PlaceOf
<1>5. \A i \in kept : PlaceOf(path, i) \in 1..N
  <2> TAKE i \in kept
  <2>1. kept \cap (1..i) \subseteq kept /\ i \in kept \cap (1..i)
    <3>1. i \in 1..i
      BY <1>1
    <3>2. QED
      BY <3>1
  <2>2. /\ IsFiniteSet(kept \cap (1..i)) /\ PlaceOf(path, i) <= N
    BY <1>2, <2>1, FS_Subset DEF PlaceOf
  <2>3. PlaceOf(path, i) \in Nat /\ PlaceOf(path, i) # 0
    BY <2>1, <2>2, FS_CardinalityType, FS_EmptySet DEF PlaceOf
  <2>4. QED
    BY <1>2, <2>2, <2>3
<1>6. Clean(path) = [n \in 1..N |-> path[CHOOSE i \in kept : PlaceOf(path, i) = n]]
  BY DEF Clean
<1> HIDE DEF kept, N
<1>7. Clean(path) \in [1..N -> STRING \ {""}]
  BY <1>0, <1>3, <1>6
<1>8. Clean(path) \in Seq(STRING \ {""}) /\ Len(Clean(path)) = N
  <2> DEFINE S == STRING \ {""}
             c == Clean(path)
  <2>1. c \in [1..N -> S]
    BY <1>7
  <2> HIDE DEF S, c
  <2>2. c \in Seq(S)
    BY <1>2, <2>1, SeqDef
  <2>3. Len(c) = N
    BY <1>2, <2>1, <2>2, LenProperties
  <2>4. QED
    BY <2>2, <2>3 DEF S, c
<1>9. \A i \in kept : Clean(path)[PlaceOf(path, i)] = path[i]
  <2> TAKE i \in kept
  <2>1. PICK j \in kept : /\ PlaceOf(path, j) = PlaceOf(path, i)
                          /\ Clean(path)[PlaceOf(path, i)] = path[j]
    BY <1>5, <1>6
  <2>2. j = i
    <3>1. i \in Nat /\ j \in Nat /\ PlaceOf(path, i) \in Nat
      BY <1>1, <1>2, <1>5
    <3>2. ~(i < j) /\ ~(j < i)
      BY <1>4, <2>1, <3>1
    <3>3. QED
      BY <3>1, <3>2
  <2>3. QED
    BY <2>1, <2>2
<1>10. QED
  BY <1>4, <1>5, <1>8, <1>9 DEF kept

(* No route has a placeholder twice.                                       *)
LEMMA PlaceholdersDiffer ==
    ASSUME NEW route \in RouteTable
    PROVE  /\ Len(route.path) \in Nat /\ DOMAIN route.path = 1..Len(route.path)
           /\ \A i, j \in 1..Len(route.path) :
                 route.path[i] \in Placeholders /\ route.path[i] = route.path[j] => i = j
<1> DEFINE Good(p) == \A i, j \in 1..Len(p) : p[i] \in Placeholders /\ p[i] = p[j] => i = j
           Parts == {"vaults", "{vault}", "token", "{token}", "query", "status", "metrics"}
<1>1. /\ \A n \in 1..4 : n = 1 \/ n = 2 \/ n = 3 \/ n = 4
      /\ \A n \in 1..3 : n = 1 \/ n = 2 \/ n = 3
      /\ \A n \in 1..1 : n = 1
  OBVIOUS
<1>2. Good(TokenPath)
  <2>1. /\ TokenPath[1] = "vaults" /\ TokenPath[2] = "{vault}"
        /\ TokenPath[3] = "token" /\ TokenPath[4] = "{token}" /\ Len(TokenPath) = 4
    BY DEF TokenPath
  <2>2. QED
    BY <1>1, <2>1 DEF Placeholders
<1>3. Good(PostPath)
  <2>1. /\ PostPath[1] = "vaults" /\ PostPath[2] = "{vault}"
        /\ PostPath[3] = "token" /\ Len(PostPath) = 3
    BY DEF PostPath
  <2>2. QED
    BY <1>1, <2>1 DEF Placeholders
<1>4. Good(QueryPath)
  <2>1. /\ QueryPath[1] = "vaults" /\ QueryPath[2] = "{vault}"
        /\ QueryPath[3] = "query" /\ Len(QueryPath) = 3
    BY DEF QueryPath
  <2>2. QED
    BY <1>1, <2>1 DEF Placeholders
<1>5. Good(VaultPath)
  <2>1. /\ VaultPath[1] = "vaults" /\ VaultPath[2] = "{vault}"
        /\ VaultPath[3] = "status" /\ Len(VaultPath) = 3
    BY DEF VaultPath
  <2>2. QED
    BY <1>1, <2>1 DEF Placeholders
<1>6. Good(StatusPath)
  <2>1. StatusPath[1] = "status" /\ Len(StatusPath) = 1
    BY DEF StatusPath
  <2>2. QED
    BY <1>1, <2>1 DEF Placeholders
<1>7. Good(MetricsPath)
  <2>1. MetricsPath[1] = "metrics" /\ Len(MetricsPath) = 1
    BY DEF MetricsPath
  <2>2. QED
    BY <1>1, <2>1 DEF Placeholders
<1>8. /\ TokenPath \in Seq(Parts) /\ PostPath \in Seq(Parts) /\ QueryPath \in Seq(Parts)
      /\ VaultPath \in Seq(Parts) /\ StatusPath \in Seq(Parts) /\ MetricsPath \in Seq(Parts)
  <2>1. TokenPath \in Seq(Parts)
    BY DEF TokenPath
  <2>2. PostPath \in Seq(Parts)
    BY DEF PostPath
  <2>3. QueryPath \in Seq(Parts)
    BY DEF QueryPath
  <2>4. VaultPath \in Seq(Parts)
    BY DEF VaultPath
  <2>5. StatusPath \in Seq(Parts)
    BY DEF StatusPath
  <2>6. MetricsPath \in Seq(Parts)
    BY DEF MetricsPath
  <2>7. QED
    BY <2>1, <2>2, <2>3, <2>4, <2>5, <2>6
<1>9. route.path \in {TokenPath, PostPath, QueryPath, VaultPath, StatusPath, MetricsPath}
  <2> DEFINE R(v, p, o) == [verb |-> v, path |-> p, op |-> o]
  <2>1. RouteTable = {R("get", TokenPath, "detokenize"), R("put", TokenPath, "put"),
                      R("post", PostPath, "post"), R("delete", TokenPath, "remove"),
                      R("get", QueryPath, "query"), R("get", VaultPath, "status"),
                      R("get", StatusPath, "status"), R("get", MetricsPath, "metrics")}
    BY DEF RouteTable, TokenPath, PostPath, QueryPath, VaultPath, StatusPath, MetricsPath
  <2>2. \A v, p, o : R(v, p, o).path = p
    OBVIOUS
  <2> HIDE DEF R
  <2>3. QED
    BY <2>1, <2>2
<1> HIDE DEF Good, Parts
<1>10. Good(route.path) /\ route.path \in Seq(Parts)
  BY <1>2, <1>3, <1>4, <1>5, <1>6, <1>7, <1>8, <1>9
<1>11. QED
  BY <1>10, LenProperties DEF Good

(* The parameters of a route fill its placeholders.                        *)

LEMMA ParamsFill ==
    ASSUME NEW route \in RouteTable, NEW path \in Seq(STRING), Fits(route.path, path)
    PROVE  LET params == Params(route.path, path)
           IN path = [i \in DOMAIN route.path |->
                        IF Has(params, route.path[i]) THEN params[route.path[i]] ELSE route.path[i]]
<1> DEFINE p == route.path
           params == Params(p, path)
<1>1. /\ Len(p) = Len(path) /\ DOMAIN p = 1..Len(p) /\ path = [i \in 1..Len(p) |-> path[i]]
      /\ \A i \in 1..Len(p) : p[i] = path[i] \/ p[i] \in Placeholders
      /\ \A i, j \in 1..Len(p) : p[i] \in Placeholders /\ p[i] = p[j] => i = j
  BY PlaceholdersDiffer, LenProperties DEF Fits
<1> HIDE DEF p
<1>2. ASSUME NEW i \in 1..Len(p)
      PROVE  path[i] = IF Has(params, p[i]) THEN params[p[i]] ELSE p[i]
  <2>1. CASE Has(params, p[i])
    <3>1. PICK j \in 1..Len(p) : p[j] \in Placeholders /\ p[j] = p[i]
      BY <2>1 DEF Has, Params
    <3>2. \A k \in 1..Len(p) : p[k] = p[i] => k = i
      BY <1>1, <3>1
    <3>3. (CHOOSE k \in 1..Len(p) : p[k] = p[i]) = i
      BY <3>2
    <3>4. params[p[i]] = path[i]
      BY <2>1, <3>3 DEF Has, Params
    <3>5. QED
      BY <2>1, <3>4
  <2>2. CASE ~Has(params, p[i])
    <3>1. p[i] \in Placeholders => path[i] = p[i]
      BY <2>2 DEF Has, Params
    <3>2. QED
      BY <1>1, <2>2, <3>1
  <2>3. QED
    BY <2>1, <2>2
<1>3. QED
  BY <1>1, <1>2 DEF p

(* A request keeps the route that fits its path.                           *)
Routed(q) == q.op # "none" =>
    \E route \in RouteTable, path \in Seq(STRING) :
        /\ q.route = route.path /\ q.path = path
        /\ Fits(route.path, path) /\ q.params = Params(route.path, path)

(* Whatever slashes and braces a path has: at most one route of a verb     *)
(* fits, and the parameters given to the handler, put into its resource,   *)
(* give the path back (getRoute, route_config.hh).                         *)
THEOREM RightRoutes == Spec => []RightRoute
<1> DEFINE AllRouted == \A r \in Requests : Routed(req[r])
<1>1. Init => AllRouted
  BY DEF Init, Routed, NoRequest
<1>2. Inv /\ AllRouted /\ [Next]_vars => AllRouted'
  <2> SUFFICES ASSUME Inv, AllRouted, [Next]_vars PROVE AllRouted'
    OBVIOUS
  <2>1. CASE UNCHANGED req
    BY <2>1
  <2>2. ASSUME NEW r \in Requests, Send(r) PROVE AllRouted'
    <3>1. PICK verb \in Verbs, path \in Paths :
             \E route \in Routes(verb, Clean(path)) :
                \E bodies \in BodiesOf(route.op) : Route(r, route, Clean(path), bodies)
      BY <2>2 DEF Send
    <3>2. PICK route \in Routes(verb, Clean(path)) :
             \E bodies \in BodiesOf(route.op) : Route(r, route, Clean(path), bodies)
      BY <3>1
    <3>3. Clean(path) \in Seq(STRING)
      <4> DEFINE S == STRING \ {""}
      <4>1. path \in Seq(STRING)
        BY PathsAssumption
      <4>2. Clean(path) \in Seq(S)
        BY <4>1, SegmentsAreKept
      <4>3. S \subseteq STRING
        OBVIOUS
      <4> HIDE DEF S
      <4>4. QED
        BY <4>2, <4>3, SeqMonotonic
    <3>4. route \in RouteTable /\ Fits(route.path, Clean(path))
      BY DEF Routes
    <3>5. PICK bodies : req' = [req EXCEPT ![r] =
             [op |-> route.op, route |-> route.path, path |-> Clean(path),
              params |-> Params(route.path, Clean(path)), bodies |-> bodies]]
      BY <3>2 DEF Route
    <3>6. Routed(req'[r])
      BY <3>3, <3>4, <3>5 DEF Routed, Inv, Shape
    <3>7. QED
      BY <3>5, <3>6 DEF Inv, Shape
  <2>3. ASSUME NEW r \in Requests, Finish(r) \/ Abort(r) PROVE AllRouted'
    <3>1. Routed(NoRequest)
      BY DEF Routed, NoRequest
    <3>2. QED
      BY <2>3, <3>1 DEF Finish, Abort, Inv, Shape
  <2>4. ASSUME NEW r \in Requests,
               \/ Tokenize(r) \/ TokenizeFails(r) \/ Detokenize(r) \/ Remove(r) \/ LookupFails(r)
               \/ Query(r) \/ Status(r) \/ Metrics(r)
        PROVE  UNCHANGED req
    BY <2>4 DEF Tokenize, TokenizeFails, Detokenize, Remove, LookupFails, Query, Status, Metrics, Answer
  <2>5. CASE UNCHANGED vars
    BY <2>1, <2>5 DEF vars
  <2>6. QED
    BY <2>1, <2>2, <2>3, <2>4, <2>5 DEF Next, Respond, Throw
<1>3. ASSUME AllRouted PROVE RightRoute
  <2>1. ASSUME NEW path \in Paths, NEW verb \in Verbs
        PROVE  Cardinality(Routes(verb, Clean(path))) <= 1
    <3> DEFINE R == Routes(verb, Clean(path))
    <3>1. \A q, r \in R : q = r
      BY OneRouteFits
    <3> HIDE DEF R
    <3>2. R = {} \/ \E q : R = {q}
      BY <3>1
    <3>3. Cardinality(R) = 0 \/ Cardinality(R) = 1
      BY <3>2, FS_EmptySet, FS_Singleton
    <3>4. QED
      BY <3>3 DEF R
  <2>2. ASSUME NEW r \in Requests, req[r].op # "none"
        PROVE  req[r].path = [i \in DOMAIN req[r].route |->
                   IF Has(req[r].params, req[r].route[i]) THEN req[r].params[req[r].route[i]] ELSE req[r].route[i]]
    BY <1>3, <2>2, ParamsFill DEF Routed
  <2>3. QED
    BY <2>1, <2>2 DEF RightRoute, AtMostOneFits
<1>4. QED
  BY <1>1, <1>2, <1>3, Invariant, PTL DEF Spec
=============================================================================
