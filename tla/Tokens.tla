------------------------------- MODULE Tokens -------------------------------
(***************************************************************************)
(* What the token routes do with the data of a request: getRoute finds the *)
(* handler and its path parameters (route_config.hh), Marshal carries      *)
(* fields from the JSON body to a TokenEntry and from the answer of the    *)
(* token manager to the JSON response (marshal.hh, types/*.hh,             *)
(* marshal_json.hh), in the handlers of tokenization.hh.                   *)
(*                                                                         *)
(* Requests are those that preliminary() let pass with a full grant        *)
(* (Handlers models the others), all for one vault.  The token manager is  *)
(* external: each of its calls is atomic and may throw.  Fields that take  *)
(* the same way as another one (mask) or that the getter leaves empty      *)
(* (lastUsed, lastUpdated) are left out.                                   *)
(*                                                                         *)
(* JSON objects, states and entries are functions from the fields that     *)
(* they have; a string that is "" and a field that is not there are the    *)
(* same, as they are to set().                                             *)
(***************************************************************************)
EXTENDS Integers, Sequences, FiniteSets

CONSTANTS Requests,   \* requests that may be in progress together
          Vault,      \* the vault their users were granted
          Tokens,     \* tokens that the manager makes up
          Paths,      \* request paths, as the segments between slashes
          Bodies,     \* JSON bodies that clients compose themselves
          MaxItems,   \* bound of the length of an array body
          Braced,     \* segments that begin with a brace
          Zone,       \* offset of the server's standard time from UTC
          NoOffset,   \* a date without %z
          Unparsed,   \* the clock of a date of which strptime reads nothing
          ZeroTm,     \* what a struct tm of zeros stands for: the end of 1899
          Clocks,     \* bound of the dates that clients send back
          Odd         \* a JSON value of another type than the code expects

ASSUME MaxItemsAssumption == MaxItems \in Nat

ASSUME PathsAssumption == Paths \subseteq Seq(STRING)

(* Clients write dates with any offset or none, and text that is no date.  *)
(* The clock is what strptime reads of it, be it that it fails later on.   *)
ASSUME DatesAssumption ==
    /\ Zone \in Int /\ NoOffset \notin Int /\ Unparsed \notin Int
    /\ ZeroTm \in Int /\ ZeroTm < Zone
    /\ \A b \in Bodies : "expiration" \in DOMAIN b /\ b.expiration # Odd =>
          b.expiration \in [clock : Int \cup {Unparsed}, offset : Int \cup {NoOffset}]

VARIABLES vault,      \* the manager's entries by their tokens
          at,         \* at[r]: "idle", "work" or "done"
          req,        \* req[r]: operation, route, path, path parameters and bodies
          item,       \* item[r]: the place in the body of the item under work
          rows,       \* rows[r]: JSON objects of the response so far
          seen,       \* client: the object it kept of an answer
          asked       \* history: what clients asked to be kept under each token

vars == <<vault, at, req, item, rows, seen, asked>>

-----------------------------------------------------------------------------
(* The routes the constructor of Tokenization registers, and getRoute.     *)
Placeholders == {"{vault}", "{token}"}

ASSUME BracedAssumption == Placeholders \subseteq Braced

RouteTable ==
    {[verb |-> "get",    path |-> <<"vaults", "{vault}", "token", "{token}">>, op |-> "detokenize"],
     [verb |-> "put",    path |-> <<"vaults", "{vault}", "token", "{token}">>, op |-> "put"],
     [verb |-> "post",   path |-> <<"vaults", "{vault}", "token">>,            op |-> "post"],
     [verb |-> "delete", path |-> <<"vaults", "{vault}", "token", "{token}">>, op |-> "remove"],
     [verb |-> "get",    path |-> <<"vaults", "{vault}", "query">>,            op |-> "query"],
     [verb |-> "get",    path |-> <<"vaults", "{vault}", "status">>,           op |-> "status"],
     [verb |-> "get",    path |-> <<"status">>,                                op |-> "status"],
     [verb |-> "get",    path |-> <<"metrics">>,                               op |-> "metrics"]}

Verbs == {route.verb : route \in RouteTable}

(* Double and trailing slashes are dropped: what remains are the segments  *)
(* that are not empty, the n-th of them in place n.                        *)
Segments(path) == {i \in 1..Len(path) : path[i] # ""}
PlaceOf(path, i) == Cardinality(Segments(path) \cap (1..i))
Clean(path) ==
    [n \in 1..Cardinality(Segments(path)) |-> path[CHOOSE i \in Segments(path) : PlaceOf(path, i) = n]]

(* Mutant: the end of the registered resource is enough.                   *)
FitsPrefix(route, path) ==
    /\ Len(route) <= Len(path)
    /\ \A i \in 1..Len(route) : \/ route[i] = path[i]
                                \/ route[i] \in Placeholders /\ path[i] \notin Braced

(* mismatch() runs over equal characters, those of a placeholder included; *)
(* from the first difference on only a placeholder of the route goes on.   *)
Fits(route, path) ==
    /\ Len(route) = Len(path)
    /\ \A i \in 1..Len(route) : \/ route[i] = path[i]
                                \/ route[i] \in Placeholders /\ path[i] \notin Braced

(* The parameters are bound where path and placeholder differ.             *)
Params(route, path) ==
    [name \in {route[i] : i \in {j \in 1..Len(route) : route[j] \in Placeholders /\ path[j] # route[j]}} |->
        path[CHOOSE i \in 1..Len(route) : route[i] = name]]

Routes(verb, path) == {route \in RouteTable : route.verb = verb /\ Fits(route.path, path)}

-----------------------------------------------------------------------------
Has(object, f) == f \in DOMAIN object
Blank == [f \in {} |-> {}]

(* set() calls the setter of each field that is there; to() clears its     *)
(* destination first.                                                      *)
Set(dest, src) == [f \in DOMAIN dest \cup DOMAIN src |-> IF Has(src, f) THEN src[f] ELSE dest[f]]
Copy(src) == Set(Blank, src)

(* strptime and mktime: whether the date was read to its end is not looked *)
(* at, %z is parsed and then ignored, the clock is taken for local time.   *)
ToTime(date) == (IF date.clock = Unparsed THEN ZeroTm ELSE date.clock) - Zone

(* gmtime_r and strftime.                                                  *)
FromTime(time) == [clock |-> time, offset |-> 0]

(* json::getter: properties are a list of names and values; any other form *)
(* and any string field that is no string throws.  "gaps" are a list with  *)
(* entries that lack the name or the value: operator[] of a const object   *)
(* is undefined for a key it has not, so that the process may be aborted,  *)
(* the getter may throw, or it reads something, which "map" tells.         *)
Read == {"userId", "token", "value", "expiration", "properties"}

Gaps(json) == Has(json, "properties") /\ json.properties.form = "gaps"

Readable(json) == \A f \in DOMAIN json \cap Read :
                     IF f = "properties" THEN json[f].form \in {"list", "gaps"} ELSE json[f] # Odd

WireGetter(json) == [f \in DOMAIN json \cap Read |-> IF f = "properties" THEN json[f].map ELSE json[f]]

(* json::setter writes properties as one object.                           *)
WireSetter(state) ==
    Copy([f \in DOMAIN state |->
             IF f = "properties" THEN [form |-> "object", map |-> state[f]] ELSE state[f]])

(* token::setter on a new TokenEntry and token::getter, for which the time *)
(* 0 stands for no date.                                                   *)
Kept == {"token", "value", "expiration", "properties"}

(* Mutant: properties are for responses only.                              *)
ToEntryBare(state) == [f \in DOMAIN state \cap {"token", "value", "expiration"} |->
                          IF f = "expiration" THEN ToTime(state[f]) ELSE state[f]]

ToEntry(state) ==
    [f \in DOMAIN state \cap Kept |-> IF f = "expiration" THEN ToTime(state[f]) ELSE state[f]]

Filled(entry) == {f \in DOMAIN entry : f = "expiration" => entry[f] # 0}

TokenGetter(entry) ==
    [f \in Filled(entry) |-> IF f = "expiration" THEN FromTime(entry[f]) ELSE entry[f]]

(* from( Function ): the entry replaces the state, an exception adds to it. *)
Succeeded(entry) == WireSetter(Copy(TokenGetter(entry)))

(* Mutant: the state is cleared for an exception as well.                  *)
FailedCleared(state) == WireSetter([error |-> "error"])

Failed(state) == WireSetter(Set(state, [error |-> "error"]))

-----------------------------------------------------------------------------
(* What an answer means to a client: dates are instants, those without an  *)
(* offset are in the server's time, and the epoch is no date.              *)
Instant(date) == date.clock - (IF date.offset = NoOffset THEN Zone ELSE date.offset)

Told == {"value", "expiration", "properties"}

Data(json) ==
    [f \in {g \in DOMAIN json \cap Told : g = "expiration" => Instant(json[g]) # 0} |->
        CASE f = "expiration" -> Instant(json[f])
          [] f = "properties" -> json[f].map
          [] OTHER            -> json[f]]

EntryData(entry) == [f \in Filled(entry) \cap Told |-> entry[f]]

NoRequest == [op |-> "none", route |-> <<>>, path |-> <<>>, params |-> Blank, bodies |-> <<>>]

Init == /\ vault = Blank
        /\ at = [r \in Requests |-> "idle"]
        /\ req = [r \in Requests |-> NoRequest]
        /\ item = [r \in Requests |-> 1]
        /\ rows = [r \in Requests |-> <<>>]
        /\ seen = Blank
        /\ asked = Blank

(* A client composes bodies or sends back an object that it was given.     *)
Items == Bodies \cup {b \in {seen} : Has(b, "expiration") => b.expiration.clock \in Clocks}
Payloads == UNION {[1..n -> Items] : n \in 0..MaxItems}

(* find() on an array finds no member: PUT takes an array as an empty      *)
(* object.  The other operations have no body.                             *)
BodiesOf(op) == CASE op = "put"  -> {<<b>> : b \in Items \cup {Blank}}
                  [] op = "post" -> Payloads
                  [] OTHER       -> {<<Blank>>}

(* A request without a route is answered with 404, one for another vault   *)
(* with 401, as authorized() finds it not granted; the others reach their  *)
(* handler.                                                                *)
Route(r, route, path, bodies) ==
    LET params == Params(route.path, path)
    IN /\ route.op \in {"status", "metrics"} \/ (Has(params, "{vault}") /\ params["{vault}"] = Vault)
       /\ req' = [req EXCEPT ![r] = [op |-> route.op, route |-> route.path, path |-> path,
                                     params |-> params, bodies |-> bodies]]
       /\ at' = [at EXCEPT ![r] = IF bodies = <<>> THEN "done" ELSE "work"]

Send(r) ==
    /\ at[r] = "idle"
    /\ \E verb \in Verbs, path \in Paths : \E route \in Routes(verb, Clean(path)) :
          \E bodies \in BodiesOf(route.op) : Route(r, route, Clean(path), bodies)
    /\ UNCHANGED <<vault, item, rows, seen, asked>>

-----------------------------------------------------------------------------
Working(r, ops) == at[r] = "work" /\ req[r].op \in ops

(* The next item of the body.                                              *)
Body(r) == req[r].bodies[item[r]]

(* It is answered by one object.                                           *)
Answer(r, row) ==
    /\ rows' = [rows EXCEPT ![r] = [i \in DOMAIN @ \cup {item[r]} |-> IF i = item[r] THEN row ELSE @[i]]]
    /\ item' = [item EXCEPT ![r] = @ + 1]
    /\ at' = [at EXCEPT ![r] = IF item[r] = Len(req[r].bodies) THEN "done" ELSE "work"]
    /\ UNCHANGED <<req, seen>>

(* The token manager.  Each of its calls may throw instead.  tokenize()    *)
(* keeps an entry under the token it was given, or under one it makes up.  *)
Places(entry) == IF Has(entry, "token") THEN {entry.token} ELSE Tokens \ DOMAIN vault

Tokenize(r) ==
    /\ Working(r, {"put", "post"}) /\ Readable(Body(r))
    /\ LET new == ToEntry(WireGetter(Body(r)))
       IN \E k \in Places(new) :
             /\ vault' = [j \in DOMAIN vault \cup {k} |-> IF j = k THEN Set(new, [token |-> k]) ELSE vault[j]]
             /\ asked' = [j \in DOMAIN asked \cup {k} |-> IF j = k THEN Body(r) ELSE asked[j]]
             /\ Answer(r, Succeeded(Set(new, [token |-> k])))

(* setToken( params[ "token" ] ): an error alone shows it, for the entry   *)
(* was filled before.                                                      *)
SetToken(r, state) ==
    IF Has(req[r].params, "{token}") THEN Set(state, [token |-> req[r].params["{token}"]])
    ELSE [f \in DOMAIN state \ {"token"} |-> state[f]]

TokenizeFails(r) ==
    /\ Working(r, {"put", "post"}) /\ Readable(Body(r))
    /\ LET state == WireGetter(Body(r))
       IN Answer(r, Failed(IF req[r].op = "put" THEN SetToken(r, state) ELSE state))
    /\ UNCHANGED <<vault, asked>>

(* The entry under params[ "token" ], if there is one.                     *)
Known(r, k) == Has(req[r].params, "{token}") /\ req[r].params["{token}"] = k

(* Mutant: the date is not looked up.                                      *)
DetokenizeUndated(r) ==
    /\ Working(r, {"detokenize"})
    /\ \E k \in DOMAIN vault :
          Known(r, k) /\ Answer(r, Succeeded([f \in DOMAIN vault[k] \ {"expiration"} |-> vault[k][f]]))
    /\ UNCHANGED <<vault, asked>>

Detokenize(r) ==
    /\ Working(r, {"detokenize"})
    /\ \E k \in DOMAIN vault : Known(r, k) /\ Answer(r, Succeeded(vault[k]))
    /\ UNCHANGED <<vault, asked>>

Remove(r) ==
    /\ Working(r, {"remove"})
    /\ \E k \in DOMAIN vault : /\ Known(r, k)
                               /\ vault' = [j \in DOMAIN vault \ {k} |-> vault[j]]
                               /\ asked' = [j \in DOMAIN asked \ {k} |-> asked[j]]
                               /\ Answer(r, Succeeded(vault[k]))

LookupFails(r) ==
    /\ Working(r, {"detokenize", "remove"})
    /\ Answer(r, Failed(Blank))
    /\ UNCHANGED <<vault, asked>>

(* The entries that the filters of the query select, in any order.         *)
Query(r) ==
    /\ Working(r, {"query"})
    /\ \E n \in 0..Cardinality(DOMAIN vault) : \E found \in [1..n -> DOMAIN vault] :
          /\ \A i, j \in 1..n : found[i] = found[j] => i = j
          /\ rows' = [rows EXCEPT ![r] = [i \in 1..n |-> Succeeded(vault[found[i]])]]
    /\ at' = [at EXCEPT ![r] = "done"]
    /\ UNCHANGED <<vault, req, item, seen, asked>>

Status(r) ==
    /\ Working(r, {"status"})
    /\ Answer(r, WireSetter([status |-> "status"]))
    /\ UNCHANGED <<vault, asked>>

(* Text that no client takes for a token.                                  *)
Metrics(r) ==
    /\ Working(r, {"metrics"})
    /\ Answer(r, Blank)
    /\ UNCHANGED <<vault, asked>>

Finish(r) == /\ at' = [at EXCEPT ![r] = "idle"]
             /\ rows' = [rows EXCEPT ![r] = <<>>]
             /\ item' = [item EXCEPT ![r] = 1]
             /\ req' = [req EXCEPT ![r] = NoRequest]
             /\ UNCHANGED <<vault, asked>>

(* An exception nobody catches before the session does: of the getter,     *)
(* which runs before the try block, or of the manager's query and status.  *)
(* The answers of the items before are lost with it.                       *)
Throw(r) ==
    /\ \/ Working(r, {"put", "post"}) /\ (~Readable(Body(r)) \/ Gaps(Body(r)))
       \/ Working(r, {"query", "status"})
    /\ Finish(r) /\ UNCHANGED seen

(* The process ends over a gap, with every request in it, and is started   *)
(* again; the tokens are in a database.                                    *)
Abort(r) ==
    /\ Working(r, {"put", "post"}) /\ Readable(Body(r)) /\ Gaps(Body(r))
    /\ at' = [s \in Requests |-> "idle"]
    /\ rows' = [s \in Requests |-> <<>>]
    /\ item' = [s \in Requests |-> 1]
    /\ req' = [s \in Requests |-> NoRequest]
    /\ UNCHANGED <<vault, seen, asked>>

(* The client has its answer; one may keep an object that tells a token    *)
(* (a bound: it keeps the first one that it chooses).                      *)
Tells(json) == Has(json, "token") /\ ~Has(json, "error")

Respond(r) ==
    /\ at[r] = "done"
    /\ \/ UNCHANGED seen
       \/ seen = Blank /\ \E i \in DOMAIN rows[r] : Tells(rows[r][i]) /\ seen' = rows[r][i]
    /\ Finish(r)

Next == \E r \in Requests :
           \/ Send(r) \/ Respond(r) \/ Throw(r) \/ Abort(r)
           \/ Tokenize(r) \/ TokenizeFails(r)
           \/ Detokenize(r) \/ Remove(r) \/ LookupFails(r)
           \/ Query(r) \/ Status(r) \/ Metrics(r)

Spec == Init /\ [][Next]_vars

-----------------------------------------------------------------------------
(* The time that stands for a client's date: the instant it means, if it   *)
(* names the server's offset or none; with another one it is off by the    *)
(* difference.  What cannot be read at all lies before the epoch.          *)
StandsFor(time, date) ==
    /\ date.clock = Unparsed => time < 0
    /\ date.clock # Unparsed =>
          time - Instant(date) = IF date.offset \in {NoOffset, Zone} THEN 0 ELSE date.offset - Zone

(* Nothing that was asked is lost and nothing comes in from elsewhere; the *)
(* date is not there if the time is 0.                                     *)
Keeps(data, json) ==
    /\ DOMAIN data \subseteq DOMAIN json
    /\ \A f \in DOMAIN json \cap {"value", "properties"} : Has(data, f)
    /\ Has(json, "value") => data.value = json.value
    /\ Has(json, "properties") => data.properties = json.properties.map
    /\ Has(json, "expiration") =>
          StandsFor(IF Has(data, "expiration") THEN data.expiration ELSE 0, json.expiration)

(* Every token holds what the client that set it last asked for: value,    *)
(* properties and date survive the way through json::getter, state and     *)
(* token::setter, for all that other requests do, in a server of any time  *)
(* zone.                                                                   *)
StoredAsAsked ==
    /\ DOMAIN asked = DOMAIN vault
    /\ \A k \in DOMAIN vault : Keeps(EntryData(vault[k]), asked[k])

(* Each object of a batch's answer belongs to the item in its place.  With *)
(* an error it names the user ("userId" of an error result, marshal.hh).   *)
(* Else it is the whole token response of the code: the token and what is  *)
(* kept of the item, properties as one object and no "userId", where the   *)
(* comment of marshal.hh has both a "userId" and a list.                   *)
SameUser(json, other) == /\ Has(json, "userId") <=> Has(other, "userId")
                         /\ Has(json, "userId") => json.userId = other.userId

IsResponse(json) == /\ Has(json, "token") /\ DOMAIN json \subseteq {"token"} \cup Told
                    /\ Has(json, "properties") => json.properties.form = "object"

AnswersMatchItems ==
    \A r \in Requests : req[r].op \in {"put", "post"} => \A i \in DOMAIN rows[r] :
        IF Has(rows[r][i], "error") THEN SameUser(rows[r][i], req[r].bodies[i])
        ELSE IsResponse(rows[r][i]) /\ Keeps(Data(rows[r][i]), req[r].bodies[i])

(* Whatever slashes the path has: at most one route of a verb fits, so     *)
(* that their order does not matter, and the parameters, put into its      *)
(* resource, give the path back.                                           *)
AtMostOneFits == \A path \in Paths, verb \in Verbs : Cardinality(Routes(verb, Clean(path))) <= 1

RightRoute ==
    /\ AtMostOneFits
    /\ \A r \in Requests : req[r].op # "none" =>
          req[r].path = [i \in DOMAIN req[r].route |->
              IF Has(req[r].params, req[r].route[i]) THEN req[r].params[req[r].route[i]] ELSE req[r].route[i]]

(* A PUT that succeeds answers with the token of its path: setToken() sets *)
(* "the user supplied token value" (marshal.hh).                           *)
PutUsesToken ==
    \A r \in Requests : req[r].op = "put" /\ Has(req[r].params, "{token}") =>
        \A i \in DOMAIN rows[r] : Tells(rows[r][i]) => rows[r][i].token = req[r].params["{token}"]

(* The routes are a map from tokens to what is stored for them, of which   *)
(* answers tell the truth, dates included: a server of any time zone tells *)
(* the instant that it keeps.                                              *)
Map == INSTANCE TokenMap WITH Clients <- Requests,
          map <- [k \in DOMAIN vault |-> EntryData(vault[k])],
          told <- [r \in Requests |->
                      {<<rows[r][i].token, Data(rows[r][i])>> :
                          i \in {j \in DOMAIN rows[r] : Tells(rows[r][j])}}]

ImplementsTokenMap == Map!Spec
=============================================================================
