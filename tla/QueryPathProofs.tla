--------------------------- MODULE QueryPathProofs ---------------------------
(***************************************************************************)
(* The path of a query, for any number of queries and servers: a callback  *)
(* runs twice and a query is answered twice only after a failed send, an   *)
(* answer is complete, and WaitAllFinished returns after the callbacks.    *)
(***************************************************************************)
EXTENDS QueryPath, FiniteSetTheorems, SequenceTheorems, TLAPS

----------------------------------------------------------------------------
(* The inductive invariant *)

(* TypeOK, without the bounds that rest on the counts below. *)
Types ==
    /\ user \in {"add", "count", "send", "wait", "waiting", "returned"}
    /\ current \in Queries /\ unfinished \in 0 .. Width - 1 /\ waiting \in BOOLEAN
    /\ called \in [Queries -> Nat]
    /\ resources \subseteq Queries /\ timeoutList \in Seq(Queries)
    /\ requests \subseteq Requests /\ requestDeadlines \in Seq(Requests)
    /\ packet \in [Packets -> {"none", "posted", "failed", "there", "answered"}]
    /\ handler \in [Queries -> Nat]
    /\ added \in [Queries -> BOOLEAN]
    /\ \A q \in Queries : /\ handler[q] <= Fanout[q] + 1
                          /\ added[q] => handler[q] \in Servers(q)
    /\ count \in [Queries -> 0 .. Width - 1]
    /\ stored \subseteq Requests
    /\ answers \in [Queries -> Nat]
    /\ run \in [Packets \X Causes -> Labels] /\ late \subseteq Packets

(* A query the user has not come to, or has come to and done less with     *)
(* than these steps.                                                       *)
Ahead(q, steps) == q > current \/ (q = current /\ user \in steps)

(* The same for a request and the handler that goes from server to server. *)
AheadOf(q, i) == i > handler[q] \/ (i = handler[q] /\ ~added[q])

(* A callback has not been called by an answer or a deadline as long as it *)
(* is in its manager, or is not there yet.                                 *)
ClientOrder ==
    \A q \in Queries :
        /\ Ahead(q, {"add"}) => q \notin resources
        /\ Ahead(q, {"add"}) \/ q \in resources
            => run[<<Query(q), "answer">>] = "off" /\ Query(q) \notin late
        /\ Ahead(q, {"add", "count", "send"}) => packet[Query(q)] = "none"
        /\ packet[Query(q)] # "there" => handler[q] = 0

ServiceOrder ==
    \A q \in Queries : \A i \in Servers(q) :
        /\ AheadOf(q, i) => <<q, i>> \notin requests
        /\ AheadOf(q, i) \/ <<q, i>> \in requests => run[<<<<q, i>>, "answer">>] = "off"
        /\ i >= handler[q] => packet[<<q, i>>] = "none"

SendOrder == \A p \in Packets : run[<<p, "send">>] # "off" => packet[p] = "failed"

Orders == ClientOrder /\ ServiceOrder /\ SendOrder

(* called is the number of calls that are behind the user's callback. *)
HasCalled(q, cause) ==
    \/ run[<<Query(q), cause>>] = "end"
    \/ run[<<Query(q), cause>>] \in {"decrease", "test", "notify"} /\ ~Expired(q, cause)
Calls(q, cause) == IF HasCalled(q, cause) THEN 1 ELSE 0
CallsCounted ==
    \A q \in Queries : called[q] = Calls(q, "send") + Calls(q, "answer")

(* A counter that has gone below zero. *)
Wrapped(n) == IF n >= 0 THEN n ELSE Width + n

(* unfinished is the number of queries begun less the calls that are       *)
(* behind their decrement.                                                 *)
HasDecreased(q, cause) ==
    \/ run[<<Query(q), cause>>] \in {"test", "notify", "end"}
    \/ run[<<Query(q), cause>>] = "call" /\ Expired(q, cause)
Decreases(cause) == {q \in Queries : HasDecreased(q, cause)}
Begun == IF user \in {"add", "count"} THEN current - 1 ELSE current
JobsCounted ==
    unfinished = Wrapped(Begun - Cardinality(Decreases("send"))
                               - Cardinality(Decreases("answer")))

(* m_unfinishedCount is the number of servers less the calls that have     *)
(* counted, each of which has stored a result; the call that counts the    *)
(* last of them aggregates, and so does the one that counts one too many.  *)
At(q, i, cause) == run[<<<<q, i>>, cause>>]
Counted(q, cause) == {i \in Servers(q) : At(q, i, cause) \in {"aggregate", "end"}}
Aggregating(q, cause) == {i \in Servers(q) : At(q, i, cause) = "aggregate"}
Number(q) == Cardinality(Counted(q, "send")) + Cardinality(Counted(q, "answer"))
Completions(q, n) == IF n < Fanout[q] \/ n = 0 THEN 0 ELSE IF n = Fanout[q] THEN 1 ELSE 2
ResultsCounted ==
    \A q \in Queries :
        /\ count[q] = Wrapped(Fanout[q] - Number(q))
        /\ answers[q] + Cardinality(Aggregating(q, "send"))
              + Cardinality(Aggregating(q, "answer")) = Completions(q, Number(q))
        /\ \A i \in Servers(q), cause \in Causes :
              At(q, i, cause) \in {"count", "aggregate", "end"} => <<q, i>> \in stored

(* The queries whose callback has not run, but for those whose deadline    *)
(* has passed: there cannot be more than sends have failed when the wait   *)
(* returns.  ReturnsAfterCallbacks alone is not inductive: a callback that *)
(* has run because of a failed send may be in its second call.             *)
Overdue(q) == Query(q) \in late /\ Running(Query(q), "answer")
Uncalled == {q \in 1 .. current : called[q] = 0 /\ ~Overdue(q)}
FailedQueries == {q \in Queries : Query(q) \in Failed}
Returned == user = "returned" => Cardinality(Uncalled) <= Cardinality(FailedQueries)

IInv ==
    /\ Types
    /\ Orders
    /\ CallsCounted
    /\ JobsCounted
    /\ ResultsCounted
    /\ Returned

----------------------------------------------------------------------------
(* Constants, packets and the wrapping counters *)

(* What the assumption says of each constant. *)
LEMMA Constants ==
    /\ QueryCount \in Nat \ {0}
    /\ Fanout \in [Queries -> Nat]
    /\ Width \in Nat
    /\ \A q \in Queries : Width > 2 * QueryCount /\ Width > 2 * Fanout[q] + 2
    /\ 1 \in Queries /\ Queries \subseteq Nat
BY QueryPathAssumption DEF Queries

(* Which packets there are. *)
LEMMA PacketKinds ==
    /\ \A q \in Queries : Query(q) \in Packets /\ Query(q) \notin Requests
    /\ \A q \in Queries : \A i \in Servers(q) : <<q, i>> \in Requests /\ <<q, i>> \in Packets
    /\ \A p \in Requests : p \in Packets /\ p[1] \in Queries /\ p[2] \in Servers(p[1])
                            /\ p = <<p[1], p[2]>> /\ p[2] # 0
    /\ \A p \in Packets : p \in Requests \/ \E q \in Queries : p = Query(q)
<1>1. \A q \in Queries : Fanout[q] \in Nat
  BY Constants
<1>2. \A q \in Queries : \A i \in Servers(q) : <<q, i>> \in Requests
  BY DEF Requests
<1>3. \A p \in Requests : /\ p[1] \in Queries /\ p[2] \in Servers(p[1])
                          /\ p = <<p[1], p[2]>> /\ p[2] # 0
  BY <1>1 DEF Requests, Servers
<1>4. \A q \in Queries : Query(q) \notin Requests
  BY <1>3 DEF Query
<1> QED
  BY <1>2, <1>3, <1>4 DEF Packets

(* The next value of a counter that counts down. *)
LEMMA CountDown ==
    ASSUME NEW n \in Int, n < Width, n > 0 - Width
    PROVE  (Wrapped(n) - 1) % Width = Wrapped(n - 1)
<1>1. Width \in Nat \ {0}
  BY Constants
<1>2. CASE n = 0
  <2>1. (0 - 1) % Width = Width - 1
    BY <1>1
  <2> QED
    BY <1>1, <1>2, <2>1 DEF Wrapped
<1>3. CASE n # 0
  <2>1. Wrapped(n) - 1 \in 0 .. Width - 1
    BY <1>1, <1>3 DEF Wrapped
  <2>2. (Wrapped(n) - 1) % Width = Wrapped(n) - 1
    BY <1>1, <2>1
  <2> QED
    BY <1>1, <1>3, <2>2 DEF Wrapped
<1> QED
  BY <1>2, <1>3

(* The same for a counter that counts up. *)
LEMMA CountUp ==
    ASSUME NEW n \in Int, n < Width - 1, n >= 0 - Width
    PROVE  (Wrapped(n) + 1) % Width = Wrapped(n + 1)
<1>1. Width \in Nat \ {0}
  BY Constants
<1>2. CASE n = -1
  <2>1. Width % Width = 0
    BY <1>1
  <2> QED
    BY <1>1, <1>2, <2>1 DEF Wrapped
<1>3. CASE n # -1
  <2>1. Wrapped(n) + 1 \in 0 .. Width - 1
    BY <1>1, <1>3 DEF Wrapped
  <2>2. (Wrapped(n) + 1) % Width = Wrapped(n) + 1
    BY <1>1, <2>1
  <2> QED
    BY <1>1, <1>3, <2>2 DEF Wrapped
<1> QED
  BY <1>2, <1>3

----------------------------------------------------------------------------
(* Types *)

(* A move of a callback to a label keeps the type of run. *)
LEMMA RunType ==
    ASSUME Types, NEW p \in Packets, NEW cause \in Causes, NEW label \in Labels,
           Goto(p, cause, label)
    PROVE  run' \in [Packets \X Causes -> Labels]
BY DEF Types, Goto

(* A counter stays below the width. *)
LEMMA Modulo == \A n \in Int : n % Width \in 0 .. Width - 1
<1>1. Width \in Nat /\ Width > 0
  BY Constants
<1> QED
  BY <1>1

(* Where a handler may be, and that it is at a server between its two steps. *)
LEMMA HandlerBounds ==
    ASSUME Types, NEW q \in Queries
    PROVE  /\ Fanout[q] \in Nat /\ handler[q] \in Nat
           /\ added[q] => handler[q] \in 1 .. Fanout[q]
<1>1. Fanout[q] \in Nat
  BY Constants
<1>2. handler[q] \in Nat /\ (added[q] => handler[q] \in Servers(q))
  BY DEF Types
<1> QED
  BY <1>1, <1>2 DEF Servers

(* The steps of the user keep the types. *)
LEMMA UserTypes ==
    ASSUME Types, UserStep
    PROVE  Types'
<1>1. CASE AddCallback
  <2>1. timeoutList' \in Seq(Queries) /\ resources' \subseteq Queries
    BY <1>1 DEF Types, AddCallback, Callbacks!Add
  <2> QED
    BY <1>1, <2>1 DEF Types, AddCallback, serviceVars
<1>2. CASE CountJob
  <2>1. unfinished' \in 0 .. Width - 1
    BY <1>2, Constants DEF Types, CountJob
  <2> QED
    BY <1>2, <2>1 DEF Types, CountJob, serviceVars
<1>3. CASE SendQuery
  <2>1. current' \in Queries
    <3>1. current \in 1 .. QueryCount /\ QueryCount \in Nat
      BY Constants DEF Types, Queries
    <3>2. current' = current \/ (current' = current + 1 /\ current < QueryCount)
      BY <1>3 DEF SendQuery
    <3> QED
      BY <3>1, <3>2 DEF Queries
  <2>2. packet' \in [Packets -> {"none", "posted", "failed", "there", "answered"}]
    BY <1>3 DEF Types, SendQuery
  <2> QED
    BY <1>3, <2>1, <2>2 DEF Types, SendQuery, serviceVars
<1>4. CASE WaitAllFinished
  BY <1>4 DEF Types, WaitAllFinished, serviceVars
<1>5. CASE NextQuery
  <2>1. current' \in Queries
    BY <1>5, Constants DEF Types, NextQuery, Queries
  <2> QED
    BY <1>5, <2>1 DEF Types, NextQuery, serviceVars
<1> QED
  BY <1>1, <1>2, <1>3, <1>4, <1>5 DEF UserStep

(* The ends of a packet keep the types. *)
LEMMA PacketTypes ==
    ASSUME Types, NEW p \in Packets, SendFails(p) \/ Delivered(p)
    PROVE  Types'
<1>1. CASE SendFails(p)
  <2>1. run' \in [Packets \X Causes -> Labels]
    BY <1>1, RunType DEF SendFails, Causes, Labels
  <2>2. packet' \in [Packets -> {"none", "posted", "failed", "there", "answered"}]
    BY <1>1 DEF Types, SendFails
  <2> QED
    BY <1>1, <2>1, <2>2 DEF Types, SendFails, clientVars, serviceVars
<1>2. CASE Delivered(p)
  <2>1. p[2] = 0 => p[1] \in Queries
    BY PacketKinds DEF Query
  <2>2. \A q \in Queries : 1 <= Fanout[q] + 1 /\ (added[q] => 1 \in Servers(q))
    BY HandlerBounds DEF Servers
  <2>3. packet' \in [Packets -> {"none", "posted", "failed", "there", "answered"}]
    BY <1>2 DEF Types, Delivered
  <2>4. /\ handler' \in [Queries -> Nat]
        /\ \A q \in Queries : /\ handler'[q] <= Fanout[q] + 1
                              /\ added[q] => handler'[q] \in Servers(q)
    BY <1>2, <2>1, <2>2 DEF Types, Delivered
  <2> QED
    BY <1>2, <2>3, <2>4 DEF Types, Delivered, clientVars, Servers
<1> QED
  BY <1>1, <1>2

(* The callbacks of the client keep the types. *)
LEMMA QueryTypes ==
    ASSUME Types, NEW q \in Queries,
           Response(q) \/ QueryExpires(q) \/ ClientCallback(q)
    PROVE  Types'
<1>0. Query(q) \in Packets /\ "answer" \in Causes
  BY PacketKinds DEF Causes
<1>1. CASE Response(q)
  <2>1. run' \in [Packets \X Causes -> Labels]
    BY <1>0, <1>1, RunType DEF Response, Labels
  <2>2. resources' \subseteq Queries /\ timeoutList' = timeoutList
    BY <1>1 DEF Types, Response, Callbacks!Answer, Callbacks!GetAndRemove
  <2> QED
    BY <1>1, <2>1, <2>2 DEF Types, Response, serviceVars
<1>2. CASE QueryExpires(q)
  <2>1. run' \in [Packets \X Causes -> Labels] /\ late' \subseteq Packets
    <3>1. CASE q \in resources
      BY <1>0, <1>2, <3>1, RunType DEF Types, QueryExpires, Labels
    <3>2. CASE q \notin resources
      BY <1>2, <3>2 DEF Types, QueryExpires
    <3> QED
      BY <3>1, <3>2
  <2>2. resources' \subseteq Queries /\ timeoutList' \in Seq(Queries)
    BY <1>2 DEF Types, QueryExpires, Callbacks!Expire, Callbacks!GetAndRemove
  <2> QED
    BY <1>2, <2>1, <2>2 DEF Types, QueryExpires, serviceVars
<1>3. CASE ClientCallback(q)
  <2> PICK cause \in Causes : Call(q, cause) \/ Decrease(q, cause)
                                \/ Test(q, cause) \/ Notify(q, cause)
    BY <1>3 DEF ClientCallback
  <2>1. CASE Call(q, cause)
    <3>1. run' \in [Packets \X Causes -> Labels]
      BY <1>0, <2>1, RunType DEF Call, Labels
    <3>2. called' \in [Queries -> Nat]
      BY <2>1 DEF Types, Call
    <3> QED
      BY <2>1, <3>1, <3>2 DEF Types, Call, serviceVars
  <2>2. CASE Decrease(q, cause)
    <3>1. run' \in [Packets \X Causes -> Labels]
      BY <1>0, <2>2, RunType DEF Decrease, Labels
    <3>2. unfinished' \in 0 .. Width - 1
      <4>1. unfinished - 1 \in Int
        BY DEF Types
      <4> QED
        BY <2>2, <4>1, Modulo DEF Decrease
    <3> QED
      BY <2>2, <3>1, <3>2 DEF Types, Decrease, serviceVars
  <2>3. CASE Test(q, cause)
    <3>1. run' \in [Packets \X Causes -> Labels]
      BY <1>0, <2>3, RunType DEF Test, Decreased, Labels
    <3> QED
      BY <2>3, <3>1 DEF Types, Test, clientVars, serviceVars
  <2>4. CASE Notify(q, cause)
    <3>1. run' \in [Packets \X Causes -> Labels]
      BY <1>0, <2>4, RunType DEF Notify, Decreased, Labels
    <3>2. waiting' \in BOOLEAN /\ user' \in {user, "returned"}
      BY <2>4 DEF Types, Notify
    <3> QED
      BY <2>4, <3>1, <3>2 DEF Types, Notify, serviceVars
  <2> QED
    BY <2>1, <2>2, <2>3, <2>4
<1> QED
  BY <1>1, <1>2, <1>3

(* The handler of a query keeps the types. *)
LEMMA HandlerTypes ==
    ASSUME Types, NEW q \in Queries, Handle(q)
    PROVE  Types'
<1>1. CASE AddRequest(q)
  <2>1. <<q, handler[q]>> \in Requests
    BY <1>1, PacketKinds DEF AddRequest
  <2>2. requests' \subseteq Requests /\ requestDeadlines' \in Seq(Requests)
    <3>1. requests \subseteq Requests /\ requestDeadlines \in Seq(Requests)
      BY DEF Types
    <3>2. /\ requests' = requests \cup {<<q, handler[q]>>}
          /\ requestDeadlines' = Append(requestDeadlines, <<q, handler[q]>>)
      BY <1>1 DEF AddRequest, Aggregator!Add
    <3> HIDE DEF Requests
    <3> QED
      BY <2>1, <3>1, <3>2
  <2>3. /\ added' \in [Queries -> BOOLEAN]
        /\ \A r \in Queries : /\ handler[r] <= Fanout[r] + 1
                              /\ added'[r] => handler[r] \in Servers(r)
    BY <1>1 DEF Types, AddRequest
  <2> QED
    BY <1>1, <2>2, <2>3 DEF Types, AddRequest, clientVars, Servers
<1>2. CASE SendRequest(q)
  <2>1. handler[q] \in Servers(q) /\ handler[q] + 1 \in Nat /\ handler[q] + 1 <= Fanout[q] + 1
    BY <1>2, HandlerBounds DEF SendRequest, Servers
  <2>2. packet' \in [Packets -> {"none", "posted", "failed", "there", "answered"}]
    BY <1>2 DEF Types, SendRequest
  <2>3. /\ added' \in [Queries -> BOOLEAN] /\ handler' \in [Queries -> Nat]
        /\ \A r \in Queries : /\ handler'[r] <= Fanout[r] + 1
                              /\ added'[r] => handler'[r] \in Servers(r)
    BY <1>2, <2>1 DEF Types, SendRequest
  <2> QED
    BY <1>2, <2>2, <2>3 DEF Types, SendRequest, clientVars, Servers
<1> QED
  BY <1>1, <1>2 DEF Handle

(* The answers, deadlines and callbacks of a request keep the types. *)
LEMMA RequestTypes ==
    ASSUME Types, NEW p \in Requests,
           ServerResponse(p) \/ RequestExpires(p) \/ RequestCallback(p)
    PROVE  Types'
<1>0. p \in Packets /\ "answer" \in Causes
  BY PacketKinds DEF Causes
<1>1. CASE ServerResponse(p)
  <2>1. run' \in [Packets \X Causes -> Labels]
    <3>1. CASE p \in requests
      BY <1>0, <1>1, <3>1, RunType DEF ServerResponse, Labels
    <3>2. CASE p \notin requests
      BY <1>1, <3>2 DEF Types, ServerResponse
    <3> QED
      BY <3>1, <3>2
  <2>2. packet' \in [Packets -> {"none", "posted", "failed", "there", "answered"}]
    BY <1>1 DEF Types, ServerResponse
  <2>3. requests' \subseteq Requests /\ requestDeadlines' = requestDeadlines
    BY <1>1 DEF Types, ServerResponse, Aggregator!Answer, Aggregator!GetAndRemove
  <2> QED
    BY <1>1, <2>1, <2>2, <2>3 DEF Types, ServerResponse, clientVars
<1>2. CASE RequestExpires(p)
  <2>1. run' \in [Packets \X Causes -> Labels] /\ late' \subseteq Packets
    <3>1. CASE p \in requests
      BY <1>0, <1>2, <3>1, RunType DEF Types, RequestExpires, Labels
    <3>2. CASE p \notin requests
      BY <1>2, <3>2 DEF Types, RequestExpires
    <3> QED
      BY <3>1, <3>2
  <2>2. requests' \subseteq Requests /\ requestDeadlines' \in Seq(Requests)
    BY <1>2 DEF Types, RequestExpires, Aggregator!Expire, Aggregator!GetAndRemove
  <2> QED
    BY <1>2, <2>1, <2>2 DEF Types, RequestExpires, clientVars
<1>3. CASE RequestCallback(p)
  <2> PICK cause \in Causes : StoreResult(p, cause) \/ CountResult(p, cause)
                                \/ AggregateResults(p, cause)
    BY <1>3 DEF RequestCallback
  <2>1. run' \in [Packets \X Causes -> Labels]
    BY <1>0, RunType DEF StoreResult, CountResult, AggregateResults, Labels
  <2>2. CASE StoreResult(p, cause)
    BY <2>1, <2>2 DEF Types, StoreResult, clientVars
  <2>3. CASE CountResult(p, cause)
    <3>1. (count[p[1]] - 1) % Width \in 0 .. Width - 1
      <4>1. count[p[1]] - 1 \in Int
        BY PacketKinds DEF Types
      <4> QED
        BY <4>1, Modulo
    <3>2. count' \in [Queries -> 0 .. Width - 1]
      BY <2>3, <3>1 DEF Types, CountResult
    <3> QED
      BY <2>1, <2>3, <3>2 DEF Types, CountResult, clientVars
  <2>4. CASE AggregateResults(p, cause)
    <3>1. answers' \in [Queries -> Nat]
      <4>1. p[1] \in Queries
        BY PacketKinds
      <4>2. answers[p[1]] + 1 \in Nat
        BY <4>1 DEF Types
      <4> QED
        BY <2>4, <4>1, <4>2 DEF Types, AggregateResults
    <3> QED
      BY <2>1, <2>4, <3>1 DEF Types, AggregateResults, clientVars
  <2> QED
    BY <2>2, <2>3, <2>4
<1> QED
  BY <1>1, <1>2, <1>3

(* A step of nobody keeps the types. *)
LEMMA StutterTypes ==
    ASSUME Types, UNCHANGED vars
    PROVE  Types'
BY DEF Types, vars, clientVars, serviceVars, Servers

----------------------------------------------------------------------------
(* The order of things *)

(* Packets of different queries and servers are different. *)
LEMMA Distinct ==
    /\ \A q, r \in Queries : Query(q) = Query(r) => q = r
    /\ \A q, r \in Queries : \A i \in Servers(r) : <<r, i>> # Query(q)
BY PacketKinds DEF Query

(* A step of a callback that was called before. *)
Moves(p, cause) ==
    /\ run[<<p, cause>>] # "off"
    /\ \E label \in Labels : Goto(p, cause, label)
    /\ user' = user \/ (user = "waiting" /\ user' = "returned")
    /\ UNCHANGED <<current, resources, requests, packet, handler, added, late>>

(* A step of a user's callback is a move. *)
LEMMA ClientMoves ==
    ASSUME NEW q \in Queries, ClientCallback(q)
    PROVE  \E cause \in Causes : Moves(Query(q), cause)
<1> PICK cause \in Causes : Call(q, cause) \/ Decrease(q, cause)
                              \/ Test(q, cause) \/ Notify(q, cause)
  BY DEF ClientCallback
<1>1. CASE Call(q, cause)
  BY <1>1 DEF Call, Moves, Labels, serviceVars
<1>2. CASE Decrease(q, cause)
  BY <1>2 DEF Decrease, Moves, Labels, serviceVars
<1>3. CASE Test(q, cause)
  BY <1>3 DEF Test, Decreased, Moves, Labels, clientVars, serviceVars
<1>4. CASE Notify(q, cause)
  BY <1>4 DEF Notify, Decreased, Moves, Labels, serviceVars
<1> QED
  BY <1>1, <1>2, <1>3, <1>4

(* A step of a request's callback is a move. *)
LEMMA RequestMoves ==
    ASSUME NEW p \in Requests, RequestCallback(p)
    PROVE  \E cause \in Causes : Moves(p, cause)
<1> PICK cause \in Causes : StoreResult(p, cause) \/ CountResult(p, cause)
                              \/ AggregateResults(p, cause)
  BY DEF RequestCallback
<1>1. CASE StoreResult(p, cause)
  BY <1>1 DEF StoreResult, Moves, Labels, clientVars
<1>2. CASE CountResult(p, cause)
  BY <1>2 DEF CountResult, Moves, Labels, clientVars
<1>3. CASE AggregateResults(p, cause)
  BY <1>3 DEF AggregateResults, Moves, Labels, clientVars
<1> QED
  BY <1>1, <1>2, <1>3

(* A move keeps the order. *)
LEMMA MovesOrders ==
    ASSUME Types, Orders, NEW p \in Packets, NEW cause \in Causes, Moves(p, cause)
    PROVE  Orders'
<1>1. \A x \in Packets \X Causes : run[x] = "off" => run'[x] = "off"
  BY DEF Moves, Goto, Types
<1>2. \A x \in Packets \X Causes : run'[x] # "off" => run[x] # "off"
  BY <1>1
<1>3. \A q \in Queries : <<Query(q), "answer">> \in Packets \X Causes
  BY PacketKinds DEF Causes
<1>4. \A q \in Queries : \A i \in Servers(q) : <<<<q, i>>, "answer">> \in Packets \X Causes
  BY PacketKinds DEF Causes
<1>5. ClientOrder'
  BY <1>1, <1>3 DEF Orders, ClientOrder, Ahead, Moves
<1>6. ServiceOrder'
  BY <1>1, <1>4 DEF Orders, ServiceOrder, AheadOf, Moves, Servers
<1>7. SendOrder'
  BY <1>2 DEF Orders, SendOrder, Moves, Causes
<1> QED
  BY <1>5, <1>6, <1>7 DEF Orders

(* The steps of the user leave the service alone, except for the packet.   *)
LEMMA UserOrders ==
    ASSUME Types, Orders, UserStep
    PROVE  Orders'
<1>0. /\ UNCHANGED <<requests, handler, added, run, late>>
      /\ current \in Nat
      /\ \A q \in Queries : q \in Nat
  BY Constants DEF UserStep, AddCallback, CountJob, SendQuery, WaitAllFinished,
                   NextQuery, serviceVars, Types
<1>1. CASE SendQuery
  <2>1. /\ current \in Queries /\ packet[Query(current)] = "none"
        /\ packet' = [packet EXCEPT ![Query(current)] = "posted"]
        /\ user = "send" /\ UNCHANGED resources
        /\ \/ user' = "add" /\ current' = current + 1
           \/ user' = "wait" /\ current' = current
    BY <1>1 DEF Orders, ClientOrder, Ahead, Types, SendQuery
  <2>2. Query(current) \in Packets
    BY <2>1, PacketKinds
  <2>3. \A q \in Queries : q # current => packet'[Query(q)] = packet[Query(q)]
    BY <2>1, Distinct DEF Types
  <2>4. \A q \in Queries : \A i \in Servers(q) : packet'[<<q, i>>] = packet[<<q, i>>]
    BY <2>1, Distinct DEF Types
  <2>5. ClientOrder'
    <3> SUFFICES ASSUME NEW q \in Queries
                 PROVE  /\ Ahead(q, {"add"})' => q \notin resources
                        /\ Ahead(q, {"add"})' \/ q \in resources
                            => run[<<Query(q), "answer">>] = "off" /\ Query(q) \notin late
                        /\ Ahead(q, {"add", "count", "send"})' => packet'[Query(q)] = "none"
                        /\ packet'[Query(q)] # "there" => handler[q] = 0
      BY <1>0, <2>1 DEF ClientOrder, Ahead
    <3>1. Ahead(q, {"add", "count", "send"})' => Ahead(q, {"add"}) /\ q # current
      BY <1>0, <2>1 DEF Ahead
    <3>2. Ahead(q, {"add"})' => Ahead(q, {"add", "count", "send"})'
      BY DEF Ahead
    <3>3. Ahead(q, {"add"}) => Ahead(q, {"add", "count", "send"})
      BY DEF Ahead
    <3> QED
      BY <2>1, <2>3, <3>1, <3>2, <3>3 DEF Orders, ClientOrder
  <2>6. ServiceOrder'
    BY <1>0, <2>4 DEF Orders, ServiceOrder, AheadOf, Servers
  <2>7. SendOrder'
    BY <1>0, <2>1, <2>2 DEF Orders, SendOrder, Types
  <2> QED
    BY <2>5, <2>6, <2>7 DEF Orders
<1>2. CASE ~SendQuery
  <2>1. UNCHANGED packet
    BY <1>2 DEF UserStep, AddCallback, CountJob, WaitAllFinished, NextQuery
  <2>2. ServiceOrder' /\ SendOrder'
    BY <1>0, <2>1 DEF Orders, ServiceOrder, SendOrder, AheadOf, Servers
  <2>3. \A q \in Queries :
            /\ Ahead(q, {"add"})' => Ahead(q, {"add"}) /\ q \notin resources'
            /\ q \in resources' => q \in resources \/ Ahead(q, {"add"})
            /\ Ahead(q, {"add", "count", "send"})' => Ahead(q, {"add", "count", "send"})
    <3>0. \A q \in Queries : Ahead(q, {"add"}) => q \notin resources
      BY DEF Orders, ClientOrder
    <3>1. CASE AddCallback
      <4>1. /\ user = "add" /\ user' = "count" /\ current' = current
            /\ resources' = resources \cup {current}
        BY <3>1 DEF AddCallback, Callbacks!Add
      <4> QED
        BY <1>0, <3>0, <4>1 DEF Ahead
    <3>2. CASE CountJob
      BY <1>0, <3>2 DEF CountJob, Ahead, Orders, ClientOrder
    <3>3. CASE WaitAllFinished
      BY <1>0, <3>3 DEF WaitAllFinished, Ahead, Orders, ClientOrder
    <3>4. CASE NextQuery
      <4>1. /\ user = "returned" /\ user' = "add" /\ current' = current + 1
            /\ resources' = resources
        BY <3>4 DEF NextQuery
      <4> QED
        BY <1>0, <3>0, <4>1 DEF Ahead
    <3> QED
      BY <1>2, <3>1, <3>2, <3>3, <3>4 DEF UserStep
  <2>4. ClientOrder'
    BY <1>0, <2>1, <2>3 DEF Orders, ClientOrder
  <2> QED
    BY <2>2, <2>4 DEF Orders
<1> QED
  BY <1>1, <1>2

(* A packet that could not be sent is the one whose callback is called for *)
(* that.                                                                   *)
LEMMA FailsOrders ==
    ASSUME Types, Orders, NEW p \in Packets, SendFails(p)
    PROVE  Orders'
<1>1. /\ packet[p] = "posted"
      /\ packet' = [packet EXCEPT ![p] = "failed"]
      /\ UNCHANGED <<user, current, resources, requests, handler, added, late>>
      /\ \E label \in Labels : Goto(p, "send", label)
  BY DEF SendFails, clientVars, serviceVars, Labels
<1>2. \A x \in Packets : run'[<<x, "answer">>] = run[<<x, "answer">>]
  BY <1>1 DEF Goto, Types, Causes
<1>3. \A x \in Packets : run'[<<x, "send">>] # "off" => x = p \/ run[<<x, "send">>] # "off"
  BY <1>1 DEF Goto, Types, Causes
<1>4. /\ packet'[p] = "failed"
      /\ \A x \in Packets : x # p => packet'[x] = packet[x]
  BY <1>1 DEF Types
<1>5. ClientOrder'
  <2> SUFFICES ASSUME NEW q \in Queries
               PROVE  /\ Ahead(q, {"add"})' => q \notin resources'
                      /\ Ahead(q, {"add"})' \/ q \in resources'
                          => run'[<<Query(q), "answer">>] = "off" /\ Query(q) \notin late'
                      /\ Ahead(q, {"add", "count", "send"})' => packet'[Query(q)] = "none"
                      /\ packet'[Query(q)] # "there" => handler'[q] = 0
    BY DEF ClientOrder, Query
  <2>1. Query(q) \in Packets
    BY PacketKinds
  <2>2. \A steps : Ahead(q, steps)' = Ahead(q, steps)
    BY <1>1 DEF Ahead
  <2>3. /\ packet'[Query(q)] # "there" => packet[Query(q)] # "there"
        /\ packet[Query(q)] = "none" => packet'[Query(q)] = "none"
    BY <1>1, <1>4, <2>1
  <2> QED
    BY <1>1, <1>2, <2>1, <2>2, <2>3 DEF Orders, ClientOrder
<1>6. ServiceOrder'
  <2> SUFFICES ASSUME NEW q \in Queries, NEW i \in Servers(q)
               PROVE  /\ AheadOf(q, i)' => <<q, i>> \notin requests'
                      /\ AheadOf(q, i)' \/ <<q, i>> \in requests'
                            => run'[<<<<q, i>>, "answer">>] = "off"
                      /\ i >= handler'[q] => packet'[<<q, i>>] = "none"
    BY DEF ServiceOrder, Servers
  <2>1. <<q, i>> \in Packets
    BY PacketKinds
  <2>2. AheadOf(q, i)' = AheadOf(q, i)
    BY <1>1 DEF AheadOf
  <2>3. packet[<<q, i>>] = "none" => packet'[<<q, i>>] = "none"
    BY <1>1, <1>4, <2>1
  <2> QED
    BY <1>1, <1>2, <2>1, <2>2, <2>3 DEF Orders, ServiceOrder
<1>7. SendOrder'
  BY <1>3, <1>4 DEF Orders, SendOrder
<1> QED
  BY <1>5, <1>6, <1>7 DEF Orders

(* The handler of a query starts once, when the query gets there.          *)
LEMMA DeliveredOrders ==
    ASSUME Types, Orders, NEW p \in Packets, Delivered(p)
    PROVE  Orders'
<1>1. /\ packet[p] = "posted"
      /\ packet' = [packet EXCEPT ![p] = "there"]
      /\ handler' = IF p[2] = 0 THEN [handler EXCEPT ![p[1]] = 1] ELSE handler
      /\ UNCHANGED <<user, current, resources, requests, added, run, late>>
  BY DEF Delivered, clientVars
<1>2. /\ packet'[p] = "there"
      /\ \A x \in Packets : x # p => packet'[x] = packet[x]
  BY <1>1 DEF Types
<1>3. \A q \in Queries : p # Query(q) => handler'[q] = handler[q]
  BY <1>1, PacketKinds DEF Types, Query
<1>4. \A q \in Queries : p = Query(q) => handler[q] = 0 /\ handler'[q] = 1
  <2>1. \A q \in Queries : packet[Query(q)] # "there" => handler[q] = 0
    BY DEF Orders, ClientOrder
  <2>2. \A q \in Queries : p = Query(q) => p[1] = q /\ p[2] = 0
    BY DEF Query
  <2>3. handler \in [Queries -> Nat]
    BY DEF Types
  <2> QED
    BY <1>1, <2>1, <2>2, <2>3
<1>5. ClientOrder'
  <2> SUFFICES ASSUME NEW q \in Queries
               PROVE  /\ Ahead(q, {"add"})' => q \notin resources'
                      /\ Ahead(q, {"add"})' \/ q \in resources'
                          => run'[<<Query(q), "answer">>] = "off" /\ Query(q) \notin late'
                      /\ Ahead(q, {"add", "count", "send"})' => packet'[Query(q)] = "none"
                      /\ packet'[Query(q)] # "there" => handler'[q] = 0
    BY DEF ClientOrder, Query
  <2>1. Query(q) \in Packets
    BY PacketKinds
  <2>2. \A steps : Ahead(q, steps)' = Ahead(q, steps)
    BY <1>1 DEF Ahead
  <2>3. packet[Query(q)] = "none" => packet'[Query(q)] = "none"
    BY <1>1, <1>2, <2>1
  <2>4. packet'[Query(q)] # "there" => handler'[q] = 0
    BY <1>1, <1>2, <1>3, <2>1 DEF Orders, ClientOrder
  <2> QED
    BY <1>1, <2>2, <2>3, <2>4 DEF Orders, ClientOrder
<1>6. ServiceOrder'
  <2> SUFFICES ASSUME NEW q \in Queries, NEW i \in Servers(q)
               PROVE  /\ AheadOf(q, i)' => <<q, i>> \notin requests'
                      /\ AheadOf(q, i)' \/ <<q, i>> \in requests'
                            => run'[<<<<q, i>>, "answer">>] = "off"
                      /\ i >= handler'[q] => packet'[<<q, i>>] = "none"
    BY DEF ServiceOrder, Servers
  <2>1. <<q, i>> \in Packets /\ i \in Nat /\ i >= 1 /\ <<q, i>> # Query(q)
    BY PacketKinds, Distinct, Constants DEF Servers
  <2>2. handler'[q] = handler[q] \/ (handler[q] = 0 /\ handler'[q] = 1)
    BY <1>3, <1>4
  <2>3. AheadOf(q, i)' => AheadOf(q, i)
    BY <1>1, <2>1, <2>2 DEF AheadOf
  <2>4. i >= handler'[q] => i >= handler[q]
    BY <2>1, <2>2
  <2>5. packet[<<q, i>>] = "none" => packet'[<<q, i>>] = "none"
    BY <1>1, <1>2, <2>1
  <2> QED
    BY <1>1, <2>3, <2>4, <2>5 DEF Orders, ServiceOrder
<1>7. SendOrder'
  BY <1>1, <1>2 DEF Orders, SendOrder
<1> QED
  BY <1>5, <1>6, <1>7 DEF Orders

(* An answer or a deadline takes the callback of a query out of the        *)
(* manager and calls it, if it is there.                                   *)
LEMMA CallbackOrders ==
    ASSUME Types, Orders, NEW q \in Queries, Response(q) \/ QueryExpires(q)
    PROVE  Orders'
<1>1. /\ UNCHANGED <<user, current, requests, packet, handler, added>>
      /\ resources' = resources \ {q}
  BY DEF Response, QueryExpires, Callbacks!Answer, Callbacks!Expire,
         Callbacks!GetAndRemove, serviceVars
<1>2. \/ q \notin resources /\ UNCHANGED <<run, late>>
      \/ /\ q \in resources
         /\ late' \subseteq late \cup {Query(q)}
         /\ \E label \in Labels : Goto(Query(q), "answer", label)
  BY DEF Response, QueryExpires, Labels
<1>3. \A x \in Packets : run'[<<x, "send">>] = run[<<x, "send">>]
  BY <1>2 DEF Goto, Types, Causes
<1>4. \A x \in Packets : x # Query(q) =>
          /\ run'[<<x, "answer">>] = run[<<x, "answer">>]
          /\ x \in late' => x \in late
  BY <1>2 DEF Goto, Types, Causes
<1>5. q \notin resources => UNCHANGED <<run, late>>
  BY <1>2
<1>6. ClientOrder'
  <2> SUFFICES ASSUME NEW r \in Queries
               PROVE  /\ Ahead(r, {"add"})' => r \notin resources'
                      /\ Ahead(r, {"add"})' \/ r \in resources'
                          => run'[<<Query(r), "answer">>] = "off" /\ Query(r) \notin late'
                      /\ Ahead(r, {"add", "count", "send"})' => packet'[Query(r)] = "none"
                      /\ packet'[Query(r)] # "there" => handler'[r] = 0
    BY DEF ClientOrder, Query
  <2>1. Query(r) \in Packets /\ (r # q => Query(r) # Query(q))
    BY PacketKinds, Distinct
  <2>2. \A steps : Ahead(r, steps)' = Ahead(r, steps)
    BY <1>1 DEF Ahead
  <2>3. CASE r = q
    BY <1>1, <1>5, <2>2, <2>3 DEF Orders, ClientOrder
  <2>4. CASE r # q
    BY <1>1, <1>4, <2>1, <2>2, <2>4 DEF Orders, ClientOrder
  <2> QED
    BY <2>3, <2>4
<1>7. ServiceOrder'
  <2> SUFFICES ASSUME NEW r \in Queries, NEW i \in Servers(r)
               PROVE  /\ AheadOf(r, i)' => <<r, i>> \notin requests'
                      /\ AheadOf(r, i)' \/ <<r, i>> \in requests'
                            => run'[<<<<r, i>>, "answer">>] = "off"
                      /\ i >= handler'[r] => packet'[<<r, i>>] = "none"
    BY DEF ServiceOrder, Servers
  <2>1. <<r, i>> \in Packets /\ <<r, i>> # Query(q)
    BY PacketKinds, Distinct
  <2>2. AheadOf(r, i)' = AheadOf(r, i)
    BY <1>1 DEF AheadOf
  <2> QED
    BY <1>1, <1>4, <2>1, <2>2 DEF Orders, ServiceOrder
<1>8. SendOrder'
  BY <1>1, <1>3 DEF Orders, SendOrder
<1> QED
  BY <1>6, <1>7, <1>8 DEF Orders

(* The handler adds the callback of a server before it sends the request. *)
LEMMA HandlerOrders ==
    ASSUME Types, Orders, NEW q \in Queries, Handle(q)
    PROVE  Orders'
<1>1. /\ UNCHANGED <<user, current, resources, run, late>>
      /\ handler[q] \in Servers(q) /\ handler[q] \in Nat
  BY HandlerBounds DEF Handle, AddRequest, SendRequest, clientVars, Servers
<1>2. /\ <<q, handler[q]>> \in Packets
      /\ \A r \in Queries : Query(r) # <<q, handler[q]>>
      /\ \A r \in Queries : \A i \in Servers(r) : i \in Nat
  BY <1>1, PacketKinds, Distinct, Constants DEF Servers
<1>3. \/ /\ requests' = requests \cup {<<q, handler[q]>>}
         /\ ~added[q] /\ added' = [added EXCEPT ![q] = TRUE]
         /\ UNCHANGED <<handler, packet>>
      \/ /\ packet' = [packet EXCEPT ![<<q, handler[q]>>] = "posted"]
         /\ handler' = [handler EXCEPT ![q] = @ + 1]
         /\ added[q] /\ added' = [added EXCEPT ![q] = FALSE]
         /\ UNCHANGED requests
  BY DEF Handle, AddRequest, SendRequest, Aggregator!Add
<1>4. handler[q] > 0 /\ packet[Query(q)] = "there"
  <2>1. handler[q] > 0
    BY <1>1, Constants DEF Servers
  <2>2. packet[Query(q)] # "there" => handler[q] = 0
    BY DEF Orders, ClientOrder
  <2> QED
    BY <2>1, <2>2
<1>5. /\ \A r \in Queries : packet'[Query(r)] = packet[Query(r)]
      /\ \A r \in Queries : r # q => handler'[r] = handler[r] /\ added'[r] = added[r]
  BY <1>2, <1>3, PacketKinds DEF Types
<1>6. ClientOrder'
  <2> SUFFICES ASSUME NEW r \in Queries
               PROVE  /\ Ahead(r, {"add"})' => r \notin resources'
                      /\ Ahead(r, {"add"})' \/ r \in resources'
                          => run'[<<Query(r), "answer">>] = "off" /\ Query(r) \notin late'
                      /\ Ahead(r, {"add", "count", "send"})' => packet'[Query(r)] = "none"
                      /\ packet'[Query(r)] # "there" => handler'[r] = 0
    BY DEF ClientOrder, Query
  <2>1. \A steps : Ahead(r, steps)' = Ahead(r, steps)
    BY <1>1 DEF Ahead
  <2>2. packet'[Query(r)] # "there" => handler'[r] = 0
    BY <1>4, <1>5 DEF Orders, ClientOrder
  <2> QED
    BY <1>1, <1>5, <2>1, <2>2 DEF Orders, ClientOrder
<1>7. ServiceOrder'
  <2> SUFFICES ASSUME NEW r \in Queries, NEW i \in Servers(r)
               PROVE  /\ AheadOf(r, i)' => <<r, i>> \notin requests'
                      /\ AheadOf(r, i)' \/ <<r, i>> \in requests'
                            => run'[<<<<r, i>>, "answer">>] = "off"
                      /\ i >= handler'[r] => packet'[<<r, i>>] = "none"
    BY DEF ServiceOrder, Servers
  <2>1. i \in Nat /\ <<r, i>> \in Packets
    BY <1>2, PacketKinds
  <2>2. AheadOf(r, i)' => AheadOf(r, i) /\ <<r, i>> \notin requests'
    <3>1. CASE r # q
      <4>1. AheadOf(r, i)' = AheadOf(r, i)
        BY <1>5, <3>1 DEF AheadOf
      <4>2. <<r, i>> \in requests' => <<r, i>> \in requests
        BY <1>3, <3>1
      <4> QED
        BY <4>1, <4>2 DEF Orders, ServiceOrder
    <3>2. CASE r = q
      <4>1. \/ handler'[q] = handler[q] /\ ~added[q] /\ added'[q]
            \/ handler'[q] = handler[q] + 1 /\ added[q] /\ ~added'[q]
        BY <1>3 DEF Types
      <4>2. AheadOf(r, i)' => i > handler[q]
        BY <1>1, <2>1, <3>2, <4>1 DEF AheadOf
      <4>3. i > handler[q] => AheadOf(r, i) /\ <<r, i>> # <<q, handler[q]>>
        BY <1>1, <2>1, <3>2 DEF AheadOf
      <4>4. <<r, i>> \in requests' => <<r, i>> \in requests \/ <<r, i>> = <<q, handler[q]>>
        BY <1>3
      <4> QED
        BY <4>2, <4>3, <4>4 DEF Orders, ServiceOrder
    <3> QED
      BY <3>1, <3>2
  <2>3. <<r, i>> \in requests' => <<r, i>> \in requests \/ AheadOf(r, i)
    BY <1>3 DEF AheadOf
  <2>4. i >= handler'[r] => packet'[<<r, i>>] = "none"
    <3>1. i >= handler'[r] => i >= handler[r] /\ packet'[<<r, i>>] = packet[<<r, i>>]
      <4>1. CASE UNCHANGED <<handler, packet>>
        BY <4>1
      <4>2. CASE /\ packet' = [packet EXCEPT ![<<q, handler[q]>>] = "posted"]
                 /\ handler' = [handler EXCEPT ![q] = @ + 1]
        <5>1. handler'[q] = handler[q] + 1
          BY <4>2 DEF Types
        <5>2. i >= handler'[r] => i >= handler[r] /\ <<r, i>> # <<q, handler[q]>>
          BY <1>1, <1>5, <2>1, <5>1
        <5> QED
          BY <4>2, <5>2, <2>1 DEF Types
      <4> QED
        BY <1>3, <4>1, <4>2
    <3> QED
      BY <3>1 DEF Orders, ServiceOrder
  <2> QED
    BY <1>1, <2>2, <2>3, <2>4 DEF Orders, ServiceOrder
<1>8. SendOrder'
  <2> SUFFICES ASSUME NEW x \in Packets, run[<<x, "send">>] # "off"
               PROVE  packet'[x] = "failed"
    BY <1>1 DEF SendOrder
  <2>1. packet[x] = "failed"
    BY DEF Orders, SendOrder
  <2>2. packet[<<q, handler[q]>>] = "none"
    <3>1. handler[q] >= handler[q]
      BY <1>1
    <3>2. \A i \in Servers(q) : i >= handler[q] => packet[<<q, i>>] = "none"
      BY DEF Orders, ServiceOrder
    <3> QED
      BY <1>1, <3>1, <3>2
  <2>3. x # <<q, handler[q]>>
    BY <2>1, <2>2
  <2>4. packet'[x] = packet[x]
    <3>1. packet \in [Packets -> {"none", "posted", "failed", "there", "answered"}]
      BY DEF Types
    <3> HIDE DEF Packets
    <3> QED
      BY <1>3, <2>3, <3>1
  <2> QED
    BY <2>1, <2>4
<1> QED
  BY <1>6, <1>7, <1>8 DEF Orders

(* An answer or a deadline takes the callback of a request out of the manager. *)
LEMMA RequestOrders ==
    ASSUME Types, Orders, NEW p \in Requests, ServerResponse(p) \/ RequestExpires(p)
    PROVE  Orders'
<1>1. /\ UNCHANGED <<user, current, resources, handler, added>>
      /\ requests' = requests \ {p} /\ p \in Packets
      /\ \A q \in Queries : p # Query(q)
  BY PacketKinds DEF ServerResponse, RequestExpires, Aggregator!Answer, Aggregator!Expire,
                     Aggregator!GetAndRemove, clientVars
<1>2. \/ UNCHANGED packet
      \/ packet[p] = "there" /\ packet' = [packet EXCEPT ![p] = "answered"]
  BY DEF ServerResponse, RequestExpires
<1>3. \/ p \notin requests /\ UNCHANGED <<run, late>>
      \/ /\ p \in requests
         /\ late' \subseteq late \cup {p}
         /\ \E label \in Labels : Goto(p, "answer", label)
  BY DEF ServerResponse, RequestExpires, Labels
<1>4. \A x \in Packets : run'[<<x, "send">>] = run[<<x, "send">>]
  BY <1>3 DEF Goto, Types, Causes
<1>5. \A x \in Packets : x # p \/ p \notin requests =>
          /\ run'[<<x, "answer">>] = run[<<x, "answer">>]
          /\ x \in late' => x \in late
  BY <1>3 DEF Goto, Types, Causes
<1>6. \A x \in Packets : /\ x # p => packet'[x] = packet[x]
                         /\ packet[x] \in {"none", "failed"} => packet'[x] = packet[x]
  BY <1>2 DEF Types
<1>7. ClientOrder'
  <2> SUFFICES ASSUME NEW r \in Queries
               PROVE  /\ Ahead(r, {"add"})' => r \notin resources'
                      /\ Ahead(r, {"add"})' \/ r \in resources'
                          => run'[<<Query(r), "answer">>] = "off" /\ Query(r) \notin late'
                      /\ Ahead(r, {"add", "count", "send"})' => packet'[Query(r)] = "none"
                      /\ packet'[Query(r)] # "there" => handler'[r] = 0
    BY DEF ClientOrder, Query
  <2>1. Query(r) \in Packets /\ p # Query(r)
    BY <1>1, PacketKinds
  <2>2. \A steps : Ahead(r, steps)' = Ahead(r, steps)
    BY <1>1 DEF Ahead
  <2> QED
    BY <1>1, <1>5, <1>6, <2>1, <2>2 DEF Orders, ClientOrder
<1>8. ServiceOrder'
  <2> SUFFICES ASSUME NEW r \in Queries, NEW i \in Servers(r)
               PROVE  /\ AheadOf(r, i)' => <<r, i>> \notin requests'
                      /\ AheadOf(r, i)' \/ <<r, i>> \in requests'
                            => run'[<<<<r, i>>, "answer">>] = "off"
                      /\ i >= handler'[r] => packet'[<<r, i>>] = "none"
    BY DEF ServiceOrder, Servers
  <2>1. <<r, i>> \in Packets
    BY PacketKinds
  <2>2. AheadOf(r, i)' = AheadOf(r, i)
    BY <1>1 DEF AheadOf
  <2>3. CASE <<r, i>> = p
    <3>1. AheadOf(r, i) => p \notin requests
      BY <2>3 DEF Orders, ServiceOrder
    <3> QED
      BY <1>1, <1>5, <1>6, <2>1, <2>2, <2>3, <3>1 DEF Orders, ServiceOrder
  <2>4. CASE <<r, i>> # p
    BY <1>1, <1>5, <1>6, <2>1, <2>2, <2>4 DEF Orders, ServiceOrder
  <2> QED
    BY <2>3, <2>4
<1>9. SendOrder'
  BY <1>4, <1>6 DEF Orders, SendOrder
<1> QED
  BY <1>7, <1>8, <1>9 DEF Orders

(* All steps keep the types and the order. *)
LEMMA StepTypes ==
    ASSUME Types, [Next]_vars
    PROVE  Types'
<1>1. CASE Next
  BY <1>1, UserTypes, PacketTypes, QueryTypes, HandlerTypes, RequestTypes DEF Next
<1>2. CASE UNCHANGED vars
  BY <1>2, StutterTypes
<1> QED
  BY <1>1, <1>2

(* All steps keep the order. *)
LEMMA StepOrders ==
    ASSUME Types, Orders, [Next]_vars
    PROVE  Orders'
<1>1. CASE UserStep
  BY <1>1, UserOrders
<1>2. ASSUME NEW p \in Packets, SendFails(p) \/ Delivered(p)
      PROVE  Orders'
  BY <1>2, FailsOrders, DeliveredOrders
<1>3. ASSUME NEW q \in Queries, Response(q) \/ QueryExpires(q) \/ ClientCallback(q) \/ Handle(q)
      PROVE  Orders'
  BY <1>3, CallbackOrders, ClientMoves, MovesOrders, HandlerOrders, PacketKinds
<1>4. ASSUME NEW p \in Requests, ServerResponse(p) \/ RequestExpires(p) \/ RequestCallback(p)
      PROVE  Orders'
  BY <1>4, RequestOrders, RequestMoves, MovesOrders, PacketKinds
<1>5. CASE UNCHANGED vars
  BY <1>5 DEF vars, clientVars, serviceVars, Orders, ClientOrder, ServiceOrder, SendOrder,
              Ahead, AheadOf, Servers, Query
<1> QED
  BY <1>1, <1>2, <1>3, <1>4, <1>5 DEF Next

----------------------------------------------------------------------------
(* What the calls of the user's callbacks leave behind *)

(* A move of a query's callback leaves all others where they are. *)
LEMMA ClientGoto ==
    ASSUME Types, NEW q \in Queries, NEW cause \in Causes, NEW label,
           Goto(Query(q), cause, label)
    PROVE  /\ run'[<<Query(q), cause>>] = label
           /\ \A r \in Queries, c \in Causes :
                <<r, c>> # <<q, cause>> => run'[<<Query(r), c>>] = run[<<Query(r), c>>]
           /\ \A p \in Requests, c \in Causes : run'[<<p, c>>] = run[<<p, c>>]
<1>1. \A r \in Queries, c \in Causes : <<Query(r), c>> \in Packets \X Causes
  BY PacketKinds
<1>2. \A p \in Requests, c \in Causes :
          <<p, c>> \in Packets \X Causes /\ <<p, c>> # <<Query(q), cause>>
  BY PacketKinds
<1>3. \A r \in Queries, c \in Causes :
          <<r, c>> # <<q, cause>> => <<Query(r), c>> # <<Query(q), cause>>
  BY Distinct
<1>4. run \in [Packets \X Causes -> Labels]
  BY DEF Types
<1> HIDE DEF Packets, Requests, Query
<1> QED
  BY <1>1, <1>2, <1>3, <1>4 DEF Goto

(* A move of a request's callback leaves all others where they are. *)
LEMMA RequestGoto ==
    ASSUME Types, NEW p \in Requests, NEW cause \in Causes, NEW label,
           Goto(p, cause, label)
    PROVE  /\ run'[<<p, cause>>] = label
           /\ \A x \in Packets, c \in Causes :
                <<x, c>> # <<p, cause>> => run'[<<x, c>>] = run[<<x, c>>]
           /\ \A r \in Queries, c \in Causes : run'[<<Query(r), c>>] = run[<<Query(r), c>>]
<1>1. <<p, cause>> \in Packets \X Causes
  BY PacketKinds
<1>2. \A r \in Queries, c \in Causes :
          <<Query(r), c>> \in Packets \X Causes /\ <<p, cause>> # <<Query(r), c>>
  BY PacketKinds
<1>3. run \in [Packets \X Causes -> Labels]
  BY DEF Types
<1> HIDE DEF Packets, Requests, Query
<1> QED
  BY <1>1, <1>2, <1>3 DEF Goto

(* The marks of a call change with the call of the user's callback and     *)
(* with the decrement, and with nothing else.                              *)
MarksMove(q, cause) ==
    /\ HasCalled(q, cause)' <=> HasCalled(q, cause) \/ Call(q, cause)
    /\ HasDecreased(q, cause)' <=> HasDecreased(q, cause) \/ Decrease(q, cause)
    /\ Call(q, cause) => ~HasCalled(q, cause)
    /\ Decrease(q, cause) => ~HasDecreased(q, cause)

(* A call and a decrement leave marks that were not there. *)
LEMMA MarksBegin ==
    ASSUME NEW q \in Queries, NEW cause \in Causes
    PROVE  /\ Call(q, cause) => ~HasCalled(q, cause)
           /\ Decrease(q, cause) => ~HasDecreased(q, cause)
BY DEF Call, Decrease, HasCalled, HasDecreased

(* Nothing is marked while a callback stays where it is. *)
LEMMA MarksStay ==
    ASSUME Types, NEW q \in Queries, NEW cause \in Causes,
           run'[<<Query(q), cause>>] = run[<<Query(q), cause>>],
           Query(q) \in late' <=> Query(q) \in late
    PROVE  MarksMove(q, cause)
<1>1. Expired(q, cause)' <=> Expired(q, cause)
  BY DEF Expired, Query
<1>2. ~Call(q, cause)
  BY ClientGoto DEF Call
<1>3. ~Decrease(q, cause)
  BY ClientGoto DEF Decrease
<1>4. HasCalled(q, cause)' <=> HasCalled(q, cause)
  BY <1>1 DEF HasCalled, Query
<1>5. HasDecreased(q, cause)' <=> HasDecreased(q, cause)
  BY <1>1 DEF HasDecreased, Query
<1> QED
  BY <1>2, <1>3, <1>4, <1>5 DEF MarksMove

(* What the steps of a user's callback mark. *)
LEMMA ClientMarks ==
    ASSUME Types, NEW q \in Queries, NEW cause \in Causes,
           Call(q, cause) \/ Decrease(q, cause) \/ Test(q, cause) \/ Notify(q, cause)
    PROVE  MarksMove(q, cause)
<1>0. Expired(q, cause)' <=> Expired(q, cause)
  BY DEF Expired, Query, Call, Decrease, Test, Notify
<1>1. CASE Call(q, cause)
  <2>1. /\ run[<<Query(q), cause>>] = "call"
        /\ run'[<<Query(q), cause>>] = IF Expired(q, cause) THEN "end" ELSE "decrease"
    BY <1>1, ClientGoto DEF Call
  <2>2. ~Decrease(q, cause)
    BY <2>1 DEF Decrease
  <2>3. HasCalled(q, cause)'
    BY <1>0, <2>1 DEF HasCalled, Query
  <2>4. HasDecreased(q, cause)' <=> HasDecreased(q, cause)
    BY <1>0, <2>1 DEF HasDecreased, Query
  <2> QED
    BY <1>1, <2>2, <2>3, <2>4, MarksBegin DEF MarksMove
<1>2. CASE Decrease(q, cause)
  <2>1. run[<<Query(q), cause>>] = "decrease" /\ run'[<<Query(q), cause>>] = "test"
    BY <1>2, ClientGoto DEF Decrease
  <2>2. ~Call(q, cause)
    BY <2>1 DEF Call
  <2>3. HasCalled(q, cause)' <=> HasCalled(q, cause)
    BY <1>0, <2>1 DEF HasCalled, Query
  <2>4. HasDecreased(q, cause)'
    BY <2>1 DEF HasDecreased, Query
  <2> QED
    BY <1>2, <2>2, <2>3, <2>4, MarksBegin DEF MarksMove
<1>3. CASE Test(q, cause) \/ Notify(q, cause)
  <2>1. /\ run[<<Query(q), cause>>] \in {"test", "notify"}
        /\ run'[<<Query(q), cause>>] \in {"notify", Decreased(q, cause)}
    BY <1>3, ClientGoto DEF Test, Notify
  <2>2. ~Call(q, cause) /\ ~Decrease(q, cause)
    BY <2>1 DEF Call, Decrease
  <2>3. HasCalled(q, cause)' <=> HasCalled(q, cause)
    BY <1>0, <2>1 DEF HasCalled, Query, Decreased
  <2>4. HasDecreased(q, cause)' <=> HasDecreased(q, cause)
    BY <1>0, <2>1 DEF HasDecreased, Query, Decreased
  <2> QED
    BY <2>2, <2>3, <2>4, MarksBegin DEF MarksMove
<1> QED
  BY <1>1, <1>2, <1>3

(* A callback begins: nothing is behind it.                                *)
LEMMA MarksOff ==
    ASSUME Types, NEW q \in Queries, NEW cause \in Causes,
           run[<<Query(q), cause>>] = "off",
           \/ run'[<<Query(q), cause>>] = "call" /\ ~Expired(q, cause)'
           \/ run'[<<Query(q), cause>>] = "decrease" /\ Expired(q, cause)'
    PROVE  MarksMove(q, cause)
<1>1. ~Call(q, cause) /\ ~Decrease(q, cause)
  BY DEF Call, Decrease
<1>2. ~HasCalled(q, cause)' /\ ~HasDecreased(q, cause)'
  BY DEF HasCalled, HasDecreased, Query
<1>3. ~HasCalled(q, cause) /\ ~HasDecreased(q, cause)
  BY DEF HasCalled, HasDecreased
<1> QED
  BY <1>1, <1>2, <1>3 DEF MarksMove

(* What any step marks. *)
LEMMA StepMarks ==
    ASSUME Types, Orders, [Next]_vars, NEW q \in Queries, NEW cause \in Causes
    PROVE  MarksMove(q, cause)
<1>0. Query(q) \in Packets /\ \A p \in Requests : p # Query(q)
  BY PacketKinds
<1>1. CASE UserStep \/ UNCHANGED vars
  BY <1>1, MarksStay DEF UserStep, AddCallback, CountJob, SendQuery, WaitAllFinished,
                         NextQuery, vars
<1>2. ASSUME NEW p \in Packets, SendFails(p)
      PROVE  MarksMove(q, cause)
  <2>1. late' = late
    BY <1>2 DEF SendFails
  <2>2. CASE p = Query(q) /\ cause = "send"
    <3>1. run'[<<Query(q), cause>>] = "call"
      BY <1>2, <2>2, ClientGoto DEF SendFails, Query
    <3>2. run[<<Query(q), cause>>] = "off"
      BY <1>0, <1>2, <2>2 DEF SendFails, Orders, SendOrder
    <3>3. ~Expired(q, cause)'
      BY <2>2 DEF Expired
    <3> QED
      BY <3>1, <3>2, <3>3, MarksOff
  <2>3. CASE ~(p = Query(q) /\ cause = "send")
    <3>1. <<Query(q), cause>> # <<p, "send">> /\ <<Query(q), cause>> \in Packets \X Causes
      BY <1>0, <2>3
    <3>2. run'[<<Query(q), cause>>] = run[<<Query(q), cause>>]
      <4>1. run \in [Packets \X Causes -> Labels]
        BY DEF Types
      <4> HIDE DEF Packets
      <4> QED
        BY <1>2, <3>1, <4>1 DEF SendFails, Goto
    <3> QED
      BY <2>1, <3>2, MarksStay
  <2> QED
    BY <2>2, <2>3
<1>3. ASSUME NEW p \in Packets, Delivered(p)
      PROVE  MarksMove(q, cause)
  BY <1>3, MarksStay DEF Delivered
<1>4. ASSUME NEW r \in Queries, Response(r) \/ QueryExpires(r)
      PROVE  MarksMove(q, cause)
  <2>1. CASE r \notin resources
    BY <1>4, <2>1, MarksStay DEF Response, QueryExpires
  <2>2. CASE r \in resources /\ r = q /\ cause = "answer"
    <3>1. run[<<Query(q), cause>>] = "off" /\ Query(q) \notin late
      BY <2>2 DEF Orders, ClientOrder
    <3>2. CASE Response(r)
      <4>1. run'[<<Query(q), cause>>] = "call" /\ ~Expired(q, cause)'
        BY <2>2, <3>1, <3>2, ClientGoto DEF Response, Expired, Query
      <4> QED
        BY <3>1, <4>1, MarksOff
    <3>3. CASE QueryExpires(r)
      <4>1. run'[<<Query(q), cause>>] = "decrease" /\ Expired(q, cause)'
        BY <2>2, <3>1, <3>3, ClientGoto DEF QueryExpires, Expired, Query
      <4> QED
        BY <3>1, <4>1, MarksOff
    <3> QED
      BY <1>4, <3>2, <3>3
  <2>3. CASE r \in resources /\ r = q /\ cause # "answer"
    <3>1. run'[<<Query(q), cause>>] = run[<<Query(q), cause>>]
      BY <1>4, <2>3, ClientGoto DEF Response, QueryExpires, Causes
    <3>2. ~Expired(q, cause) /\ ~Expired(q, cause)'
      BY <2>3 DEF Expired
    <3>3. ~Call(q, cause) /\ ~Decrease(q, cause)
      BY <3>1, ClientGoto DEF Call, Decrease
    <3> QED
      BY <3>1, <3>2, <3>3 DEF MarksMove, HasCalled, HasDecreased, Query
  <2>4. CASE r \in resources /\ r # q
    <3>1. run'[<<Query(q), cause>>] = run[<<Query(q), cause>>]
      BY <1>4, <2>4, ClientGoto DEF Response, QueryExpires, Causes
    <3>2. Query(q) \in late' <=> Query(q) \in late
      BY <1>4, <2>4, Distinct DEF Response, QueryExpires
    <3> QED
      BY <3>1, <3>2, MarksStay
  <2> QED
    BY <2>1, <2>2, <2>3, <2>4
<1>5. ASSUME NEW r \in Queries, ClientCallback(r)
      PROVE  MarksMove(q, cause)
  <2> PICK c \in Causes : Call(r, c) \/ Decrease(r, c) \/ Test(r, c) \/ Notify(r, c)
    BY <1>5 DEF ClientCallback
  <2>1. CASE r = q /\ c = cause
    BY <2>1, ClientMarks
  <2>2. CASE <<q, cause>> # <<r, c>>
    <3>1. run'[<<Query(q), cause>>] = run[<<Query(q), cause>>]
      BY <2>2, ClientGoto DEF Call, Decrease, Test, Notify
    <3>2. late' = late
      BY DEF Call, Decrease, Test, Notify
    <3> QED
      BY <3>1, <3>2, MarksStay
  <2> QED
    BY <2>1, <2>2
<1>6. ASSUME NEW r \in Queries, Handle(r)
      PROVE  MarksMove(q, cause)
  BY <1>6, MarksStay DEF Handle, AddRequest, SendRequest
<1>7. ASSUME NEW p \in Requests, ServerResponse(p) \/ RequestExpires(p) \/ RequestCallback(p)
      PROVE  MarksMove(q, cause)
  <2>1. \/ run' = run
        \/ \E c \in Causes, label \in Labels : Goto(p, c, label)
    BY <1>7 DEF ServerResponse, RequestExpires, RequestCallback, StoreResult, CountResult,
                AggregateResults, Causes, Labels
  <2>2. run'[<<Query(q), cause>>] = run[<<Query(q), cause>>]
    BY <2>1, RequestGoto
  <2>3. Query(q) \in late' <=> Query(q) \in late
    BY <1>0, <1>7 DEF ServerResponse, RequestExpires, RequestCallback, StoreResult,
                      CountResult, AggregateResults
  <2> QED
    BY <2>2, <2>3, MarksStay
<1> QED
  BY <1>1, <1>2, <1>3, <1>4, <1>5, <1>6, <1>7 DEF Next

(* Two calls do not run in one step, and no call runs with a decrement. *)
LEMMA OneMoves ==
    ASSUME Types, NEW q \in Queries, NEW cause \in Causes, NEW r \in Queries, NEW c \in Causes,
           <<r, c>> # <<q, cause>>
    PROVE  /\ Call(q, cause) => ~Call(r, c)
           /\ Decrease(q, cause) => ~Decrease(r, c)
<1>1. ASSUME Call(q, cause), Call(r, c)
      PROVE  FALSE
  <2>1. run'[<<Query(r), c>>] = run[<<Query(r), c>>]
    BY <1>1, ClientGoto DEF Call
  <2>2. run'[<<Query(r), c>>] \in {"end", "decrease"} /\ run[<<Query(r), c>>] = "call"
    BY <1>1, ClientGoto DEF Call
  <2> QED
    BY <2>1, <2>2
<1>2. ASSUME Decrease(q, cause), Decrease(r, c)
      PROVE  FALSE
  <2>1. run'[<<Query(r), c>>] = run[<<Query(r), c>>]
    BY <1>2, ClientGoto DEF Decrease
  <2>2. run'[<<Query(r), c>>] = "test" /\ run[<<Query(r), c>>] = "decrease"
    BY <1>2, ClientGoto DEF Decrease
  <2> QED
    BY <2>1, <2>2
<1> QED
  BY <1>1, <1>2

(* Only a call changes the number of calls. *)
LEMMA CalledStep ==
    ASSUME [Next]_vars
    PROVE  called' = called \/ \E q \in Queries, c \in Causes : Call(q, c)
BY DEF Next, vars, clientVars, UserStep, AddCallback, CountJob, SendQuery, WaitAllFinished,
       NextQuery, SendFails, Delivered, Response, QueryExpires, ClientCallback, Decrease,
       Test, Notify, Handle, AddRequest, SendRequest, ServerResponse, RequestExpires,
       RequestCallback, StoreResult, CountResult, AggregateResults

(* All steps keep the number of calls. *)
LEMMA StepCalls ==
    ASSUME Types, Orders, CallsCounted, [Next]_vars
    PROVE  CallsCounted'
<1>0. "send" \in Causes /\ "answer" \in Causes /\ "send" # "answer"
  BY DEF Causes
<1> SUFFICES ASSUME NEW q \in Queries
             PROVE  called'[q] = Calls(q, "send")' + Calls(q, "answer")'
  BY DEF CallsCounted
<1>1. called[q] = Calls(q, "send") + Calls(q, "answer")
  BY DEF CallsCounted
<1>2. \A c \in Causes : ~Call(q, c) => Calls(q, c)' = Calls(q, c)
  BY StepMarks DEF MarksMove, Calls
<1>3. CASE \E c \in Causes : Call(q, c)
  <2> PICK c \in Causes : Call(q, c)
    BY <1>3
  <2>1. Calls(q, c) = 0 /\ Calls(q, c)' = 1
    BY StepMarks DEF MarksMove, Calls
  <2>2. \A d \in Causes : d # c => Calls(q, d)' = Calls(q, d)
    BY <1>2, OneMoves
  <2>3. called'[q] = called[q] + 1
    BY DEF Call, Types
  <2>4. \A d \in Causes : Calls(q, d) \in {0, 1} /\ Calls(q, d)' \in {0, 1}
    BY DEF Calls
  <2>5. CASE c = "send"
    BY <1>0, <1>1, <2>1, <2>2, <2>3, <2>4, <2>5
  <2>6. CASE c = "answer"
    BY <1>0, <1>1, <2>1, <2>2, <2>3, <2>4, <2>6
  <2> QED
    BY <2>5, <2>6 DEF Causes
<1>4. CASE \A c \in Causes : ~Call(q, c)
  <2>1. called'[q] = called[q]
    <3>1. CASE called' = called
      BY <3>1
    <3>2. CASE \E r \in Queries, c \in Causes : Call(r, c)
      <4> PICK r \in Queries, c \in Causes : Call(r, c)
        BY <3>2
      <4>1. r # q
        BY <1>4
      <4> QED
        BY <4>1 DEF Call, Types
    <3> QED
      BY <3>1, <3>2, CalledStep
  <2> QED
    BY <1>0, <1>1, <1>2, <1>4, <2>1
<1> QED
  BY <1>3, <1>4

----------------------------------------------------------------------------
(* The count of the jobs *)

(* Sets of queries are finite. *)
LEMMA QuerySets ==
    \A S \in SUBSET Queries : /\ IsFiniteSet(S) /\ Cardinality(S) \in Nat
                              /\ Cardinality(S) <= QueryCount
<1>1. QueryCount \in Nat
  BY Constants
<1>2. IsFiniteSet(Queries) /\ Cardinality(Queries) = QueryCount
  BY <1>1, FS_Interval DEF Queries
<1> QED
  BY <1>2, FS_Subset, FS_CardinalityType

(* The decrements of a cause are at most one for each query. *)
LEMMA DecreasesType ==
    \A c \in Causes : /\ Decreases(c) \subseteq Queries
                      /\ IsFiniteSet(Decreases(c)) /\ Cardinality(Decreases(c)) \in Nat
                      /\ Cardinality(Decreases(c)) <= QueryCount
BY QuerySets DEF Decreases

(* What changes the count of the jobs. *)
LEMMA UnfinishedStep ==
    ASSUME [Next]_vars
    PROVE  unfinished' = unfinished \/ CountJob \/ \E q \in Queries, c \in Causes : Decrease(q, c)
BY DEF Next, vars, clientVars, UserStep, AddCallback, SendQuery, WaitAllFinished,
       NextQuery, SendFails, Delivered, Response, QueryExpires, ClientCallback, Call,
       Test, Notify, Handle, AddRequest, SendRequest, ServerResponse, RequestExpires,
       RequestCallback, StoreResult, CountResult, AggregateResults

(* What changes the number of queries begun. *)
LEMMA BegunStep ==
    ASSUME Types, [Next]_vars
    PROVE  IF CountJob THEN Begun' = Begun + 1 ELSE Begun' = Begun
<1>0. current \in Nat
  BY Constants DEF Types
<1>1. CASE CountJob
  BY <1>0, <1>1 DEF CountJob, Begun
<1>2. CASE UserStep /\ ~CountJob
  <2>1. \/ /\ user = "add" /\ user' = "count" /\ current' = current
        \/ /\ user = "send" /\ \/ user' = "add" /\ current' = current + 1
                               \/ user' = "wait" /\ current' = current
        \/ /\ user = "wait" /\ user' \in {"waiting", "returned"} /\ current' = current
        \/ /\ user = "returned" /\ user' = "add" /\ current' = current + 1
    BY <1>2 DEF UserStep, AddCallback, SendQuery, WaitAllFinished, NextQuery
  <2>2. current + 1 - 1 = current
    BY <1>0
  <2>3. Begun' = Begun
    BY <1>0, <2>1, <2>2 DEF Begun
  <2> QED
    BY <1>2, <2>3
<1>3. CASE ~UserStep
  <2>1. current' = current /\ (user' = user \/ (user = "waiting" /\ user' = "returned"))
    BY <1>3 DEF Next, vars, clientVars, SendFails, Delivered, Response, QueryExpires,
                ClientCallback, Call, Decrease, Test, Notify, Handle, AddRequest, SendRequest,
                ServerResponse, RequestExpires, RequestCallback, StoreResult, CountResult,
                AggregateResults
  <2>2. Begun' = Begun
    BY <2>1 DEF Begun
  <2> QED
    BY <1>3, <2>2 DEF UserStep
<1> QED
  BY <1>1, <1>2, <1>3

(* All steps keep the count of the jobs. *)
LEMMA StepJobs ==
    ASSUME Types, Orders, JobsCounted, [Next]_vars
    PROVE  JobsCounted'
<1> DEFINE Open == Begun - Cardinality(Decreases("send")) - Cardinality(Decreases("answer"))
<1>0. /\ "send" \in Causes /\ "answer" \in Causes
      /\ \A c \in Causes : c = "send" \/ c = "answer"
  BY DEF Causes
<1>1. Begun \in Nat /\ Begun <= QueryCount /\ (CountJob => Begun <= QueryCount - 1)
  <2>1. current \in 1 .. QueryCount /\ QueryCount \in Nat
    BY Constants DEF Types, Queries
  <2>2. CountJob => user = "count"
    BY DEF CountJob
  <2> QED
    BY <2>1, <2>2 DEF Begun
<1>2. /\ Cardinality(Decreases("send")) \in 0 .. QueryCount
      /\ Cardinality(Decreases("answer")) \in 0 .. QueryCount
      /\ QueryCount \in Nat /\ Width \in Nat /\ Width > 2 * QueryCount
  BY <1>0, DecreasesType, Constants
<1>3. Open \in Int /\ Open < Width /\ Open > 0 - Width /\ (CountJob => Open < Width - 1)
  BY <1>1, <1>2
<1>4. unfinished = Wrapped(Open)
  BY DEF JobsCounted
<1>5. ASSUME NEW q \in Queries, NEW c \in Causes, Decrease(q, c)
      PROVE  JobsCounted'
  <2>1. ~CountJob
    BY <1>5, ClientGoto DEF Decrease, CountJob
  <2>2. Begun' = Begun
    BY <2>1, BegunStep
  <2>3. \A d \in Causes : d # c => Decreases(d)' = Decreases(d)
    BY <1>5, StepMarks, OneMoves DEF Decreases, MarksMove
  <2>4. Decreases(c)' = Decreases(c) \cup {q} /\ q \notin Decreases(c)
    BY <1>5, StepMarks, OneMoves DEF Decreases, MarksMove
  <2>5. Cardinality(Decreases(c)') = Cardinality(Decreases(c)) + 1
    BY <2>4, DecreasesType, FS_AddElement
  <2>6. Open' = Open - 1
    <3>1. CASE c = "send"
      BY <1>0, <1>1, <1>2, <2>2, <2>3, <2>5, <3>1
    <3>2. CASE c = "answer"
      BY <1>0, <1>1, <1>2, <2>2, <2>3, <2>5, <3>2
    <3> QED
      BY <1>0, <3>1, <3>2
  <2>7. unfinished' = (unfinished - 1) % Width
    BY <1>5 DEF Decrease
  <2>8. unfinished' = Wrapped(Open')
    <3> HIDE DEF Open
    <3> QED
      BY <1>3, <1>4, <2>6, <2>7, CountDown
  <2> QED
    BY <2>8 DEF JobsCounted, Wrapped
<1>6. ASSUME \A q \in Queries, c \in Causes : ~Decrease(q, c)
      PROVE  JobsCounted'
  <2>1. \A c \in Causes : Decreases(c)' = Decreases(c)
    BY <1>6, StepMarks DEF Decreases, MarksMove
  <2>2. CASE CountJob
    <3>1. Open' = Open + 1
      BY <1>0, <1>1, <1>2, <2>1, <2>2, BegunStep
    <3>2. unfinished' = (unfinished + 1) % Width
      BY <2>2 DEF CountJob
    <3>3. unfinished' = Wrapped(Open')
      <4> HIDE DEF Open
      <4>1. Open >= 0 - Width
        BY <1>2, <1>3
      <4> QED
        BY <1>3, <1>4, <2>2, <3>1, <3>2, <4>1, CountUp
    <3> QED
      BY <3>3 DEF JobsCounted, Wrapped
  <2>3. CASE ~CountJob
    <3>1. unfinished' = unfinished
      BY <1>6, <2>3, UnfinishedStep
    <3>2. Open' = Open
      BY <1>0, <2>1, <2>3, BegunStep
    <3> QED
      BY <1>4, <3>1, <3>2 DEF JobsCounted, Wrapped
  <2> QED
    BY <2>2, <2>3
<1> QED
  BY <1>5, <1>6

----------------------------------------------------------------------------
(* The count of the results *)

(* A move of a request's callback, by query, server and cause. *)
LEMMA AtFrame ==
    ASSUME Types, NEW q \in Queries, NEW i \in Servers(q), NEW cause \in Causes, NEW label,
           Goto(<<q, i>>, cause, label)
    PROVE  /\ At(q, i, cause)' = label
           /\ \A r \in Queries : \A j \in Servers(r), d \in Causes :
                <<r, j, d>> # <<q, i, cause>> => At(r, j, d)' = At(r, j, d)
<1>1. <<q, i>> \in Requests
  BY PacketKinds
<1>2. \A r \in Queries : \A j \in Servers(r), d \in Causes :
          <<r, j, d>> # <<q, i, cause>> => <<r, j>> \in Packets /\ <<<<r, j>>, d>> # <<<<q, i>>, cause>>
  BY PacketKinds
<1>3. /\ run'[<<<<q, i>>, cause>>] = label
      /\ \A x \in Packets, c \in Causes :
            <<x, c>> # <<<<q, i>>, cause>> => run'[<<x, c>>] = run[<<x, c>>]
  BY <1>1, RequestGoto
<1> HIDE DEF Packets, Requests, Servers
<1> QED
  BY <1>2, <1>3 DEF At

(* Where the call of a request's callback may go. *)
LEMMA AtStep ==
    ASSUME Types, Orders, [Next]_vars,
           NEW q \in Queries, NEW i \in Servers(q), NEW cause \in Causes
    PROVE  \/ At(q, i, cause)' = At(q, i, cause)
           \/ At(q, i, cause) = "off" /\ At(q, i, cause)' = "store"
           \/ StoreResult(<<q, i>>, cause)
           \/ CountResult(<<q, i>>, cause)
           \/ AggregateResults(<<q, i>>, cause)
<1>0. <<q, i>> \in Requests /\ <<q, i>> \in Packets /\ \A r \in Queries : Query(r) # <<q, i>>
  BY PacketKinds
<1>1. CASE UserStep \/ UNCHANGED vars
  BY <1>1 DEF At, UserStep, AddCallback, CountJob, SendQuery, WaitAllFinished,
              NextQuery, vars
<1>2. ASSUME NEW p \in Packets, SendFails(p), At(q, i, cause)' # At(q, i, cause)
      PROVE  At(q, i, cause) = "off" /\ At(q, i, cause)' = "store"
  <2>1. p = <<q, i>> /\ cause = "send"
    <3>1. <<<<q, i>>, cause>> \in Packets \X Causes
      BY <1>0
    <3>2. run \in [Packets \X Causes -> Labels]
      BY DEF Types
    <3> HIDE DEF Packets
    <3> QED
      BY <1>2, <3>1, <3>2 DEF SendFails, Goto, At
  <2>2. i # 0
    BY <1>0, PacketKinds
  <2>3. At(q, i, cause)' = "store"
    BY <1>2, <2>1, <2>2, AtFrame DEF SendFails
  <2>4. packet[p] # "failed"
    BY <1>2 DEF SendFails
  <2>5. At(q, i, cause) = "off"
    BY <2>1, <2>4 DEF Orders, SendOrder, At
  <2> QED
    BY <2>3, <2>5
<1>3. ASSUME NEW p \in Packets, Delivered(p)
      PROVE  At(q, i, cause)' = At(q, i, cause)
  BY <1>3 DEF Delivered, At
<1>4. ASSUME NEW r \in Queries, Response(r) \/ QueryExpires(r) \/ ClientCallback(r) \/ Handle(r)
      PROVE  At(q, i, cause)' = At(q, i, cause)
  <2>1. run' = run \/ \E c \in Causes : \E label : Goto(Query(r), c, label)
    BY <1>4 DEF Response, QueryExpires, ClientCallback, Call, Decrease, Test, Notify, Handle,
                AddRequest, SendRequest, Causes
  <2> QED
    BY <1>0, <2>1, ClientGoto DEF At
<1>5. ASSUME NEW p \in Requests, ServerResponse(p) \/ RequestExpires(p),
             At(q, i, cause)' # At(q, i, cause)
      PROVE  At(q, i, cause) = "off" /\ At(q, i, cause)' = "store"
  <2>1. p \in requests /\ Goto(p, "answer", "store")
    BY <1>5 DEF ServerResponse, RequestExpires, At
  <2>2. p = <<q, i>> /\ cause = "answer"
    BY <1>0, <1>5, <2>1, RequestGoto DEF At, Causes
  <2>3. At(q, i, cause)' = "store"
    BY <2>1, <2>2, AtFrame
  <2>4. At(q, i, cause) = "off"
    BY <2>1, <2>2 DEF Orders, ServiceOrder, At
  <2> QED
    BY <2>3, <2>4
<1>6. ASSUME NEW p \in Requests, RequestCallback(p), At(q, i, cause)' # At(q, i, cause)
      PROVE  \/ StoreResult(<<q, i>>, cause)
             \/ CountResult(<<q, i>>, cause)
             \/ AggregateResults(<<q, i>>, cause)
  <2> PICK c \in Causes : StoreResult(p, c) \/ CountResult(p, c) \/ AggregateResults(p, c)
    BY <1>6 DEF RequestCallback
  <2>1. \E label : Goto(p, c, label)
    BY DEF StoreResult, CountResult, AggregateResults
  <2>2. p = <<q, i>> /\ c = cause
    BY <1>0, <1>6, <2>1, RequestGoto DEF At
  <2> QED
    BY <2>2
<1> QED
  BY <1>1, <1>2, <1>3, <1>4, <1>5, <1>6 DEF Next

(* The sets of servers in the counts are finite. *)
LEMMA ResultSets ==
    ASSUME NEW q \in Queries, NEW cause \in Causes
    PROVE  /\ Fanout[q] \in Nat
           /\ IsFiniteSet(Servers(q)) /\ Cardinality(Servers(q)) = Fanout[q]
           /\ IsFiniteSet(Counted(q, cause)) /\ Cardinality(Counted(q, cause)) \in 0 .. Fanout[q]
           /\ IsFiniteSet(Aggregating(q, cause)) /\ Cardinality(Aggregating(q, cause)) \in Nat
<1>1. Fanout[q] \in Nat
  BY Constants
<1>2. IsFiniteSet(Servers(q)) /\ Cardinality(Servers(q)) = Fanout[q]
  BY <1>1, FS_Interval DEF Servers
<1>3. Counted(q, cause) \subseteq Servers(q) /\ Aggregating(q, cause) \subseteq Servers(q)
  BY DEF Counted, Aggregating
<1>4. /\ IsFiniteSet(Counted(q, cause)) /\ Cardinality(Counted(q, cause)) \in Nat
      /\ Cardinality(Counted(q, cause)) <= Fanout[q]
      /\ IsFiniteSet(Aggregating(q, cause)) /\ Cardinality(Aggregating(q, cause)) \in Nat
  BY <1>2, <1>3, FS_Subset, FS_CardinalityType
<1> QED
  BY <1>1, <1>2, <1>4

(* Only the callback of a request changes counts, answers and results. *)
LEMMA ResultVars ==
    ASSUME [Next]_vars
    PROVE  /\ count' = count \/ \E p \in Requests, c \in Causes : CountResult(p, c)
           /\ answers' = answers \/ \E p \in Requests, c \in Causes : AggregateResults(p, c)
           /\ stored \subseteq stored'
<1>1. ASSUME NEW p \in Requests, RequestCallback(p)
      PROVE  \E c \in Causes : StoreResult(p, c) \/ CountResult(p, c) \/ AggregateResults(p, c)
  BY <1>1 DEF RequestCallback
<1>2. ASSUME NEW p, NEW c, StoreResult(p, c)
      PROVE  count' = count /\ answers' = answers /\ stored \subseteq stored'
  BY <1>2 DEF StoreResult
<1>3. ASSUME NEW p, NEW c, CountResult(p, c)
      PROVE  answers' = answers /\ stored \subseteq stored'
  BY <1>3 DEF CountResult
<1>4. ASSUME NEW p, NEW c, AggregateResults(p, c)
      PROVE  count' = count /\ stored \subseteq stored'
  BY <1>4 DEF AggregateResults
<1>5. CASE \E p \in Requests : RequestCallback(p)
  BY <1>1, <1>2, <1>3, <1>4, <1>5
<1>6. CASE ~\E p \in Requests : RequestCallback(p)
  <2>1. count' = count /\ answers' = answers /\ stored' = stored
    BY <1>6 DEF Next, vars, serviceVars, UserStep, AddCallback, CountJob, SendQuery,
       WaitAllFinished, NextQuery, SendFails, Delivered, Response, QueryExpires,
       ClientCallback, Call, Decrease, Test, Notify, Handle, AddRequest, SendRequest,
       ServerResponse, RequestExpires
  <2> QED
    BY <2>1
<1> QED
  BY <1>5, <1>6

(* The test of IsCompletedAfterFinsh is true of the count that completes. *)
LEMMA CompletionsNext ==
    ASSUME NEW q \in Queries, NEW n \in 0 .. 2 * Fanout[q], Fanout[q] \in Nat \ {0}
    PROVE  /\ Wrapped(Fanout[q] - n) <= 1 => Completions(q, n + 1) = Completions(q, n) + 1
           /\ ~(Wrapped(Fanout[q] - n) <= 1) => Completions(q, n + 1) = Completions(q, n)
<1>1. Width \in Nat /\ Width > 2 * Fanout[q] + 2
  BY Constants
<1>2. CASE n <= Fanout[q]
  BY <1>1, <1>2 DEF Wrapped, Completions
<1>3. CASE n > Fanout[q]
  <2>1. ~(Wrapped(Fanout[q] - n) <= 1)
    BY <1>1, <1>3 DEF Wrapped
  <2>2. Completions(q, n + 1) = 2 /\ Completions(q, n) = 2
    BY <1>3 DEF Completions
  <2> QED
    BY <2>1, <2>2
<1> QED
  BY <1>2, <1>3

(* A callback that counts has stored its result. *)
LEMMA StepStored ==
    ASSUME Types, Orders, ResultsCounted, [Next]_vars,
           NEW q \in Queries, NEW i \in Servers(q), NEW cause \in Causes,
           At(q, i, cause)' \in {"count", "aggregate", "end"}
    PROVE  <<q, i>> \in stored'
<1>1. At(q, i, cause) \in {"count", "aggregate", "end"} => <<q, i>> \in stored
  BY DEF ResultsCounted
<1>2. CASE At(q, i, cause)' = At(q, i, cause)
  BY <1>1, <1>2, ResultVars
<1>3. CASE StoreResult(<<q, i>>, cause)
  BY <1>3 DEF StoreResult
<1>4. CASE CountResult(<<q, i>>, cause) \/ AggregateResults(<<q, i>>, cause)
  <2>1. At(q, i, cause) \in {"count", "aggregate"}
    BY <1>4 DEF CountResult, AggregateResults, At
  <2> QED
    BY <1>1, <2>1, ResultVars
<1> QED
  BY <1>2, <1>3, <1>4, AtStep

(* All steps keep the count of the results. *)
LEMMA StepResults ==
    ASSUME Types, Orders, ResultsCounted, [Next]_vars
    PROVE  ResultsCounted'
<1>0. /\ "send" \in Causes /\ "answer" \in Causes
      /\ \A c \in Causes : c = "send" \/ c = "answer"
  BY DEF Causes
<1> SUFFICES ASSUME NEW q \in Queries
             PROVE  /\ count'[q] = Wrapped(Fanout[q] - Number(q)')
                    /\ answers'[q] + Cardinality(Aggregating(q, "send")')
                          + Cardinality(Aggregating(q, "answer")') = Completions(q, Number(q)')
  BY StepStored DEF ResultsCounted, Wrapped, At, Servers
<1> DEFINE A(c) == Cardinality(Aggregating(q, c))
           N(c) == Cardinality(Counted(q, c))
<1>1. /\ count[q] = Wrapped(Fanout[q] - Number(q))
      /\ answers[q] + A("send") + A("answer") = Completions(q, Number(q))
      /\ Number(q) = N("send") + N("answer") /\ Number(q)' = N("send")' + N("answer")'
  BY DEF ResultsCounted, Number
<1>2. /\ Fanout[q] \in Nat /\ answers[q] \in Nat
      /\ \A c \in Causes : A(c) \in Nat /\ N(c) \in 0 .. Fanout[q]
  <2>1. answers[q] \in Nat
    BY DEF Types
  <2>2. Fanout[q] \in Nat
    BY Constants
  <2>3. \A c \in Causes : A(c) \in Nat /\ N(c) \in 0 .. Fanout[q]
    BY ResultSets
  <2> QED
    BY <2>1, <2>2, <2>3
<1>3. /\ Width \in Nat /\ Width > 2 * Fanout[q] + 2
      /\ Number(q) \in 0 .. 2 * Fanout[q]
  BY <1>0, <1>1, <1>2, Constants
<1>4. ASSUME NEW i \in Servers(q), NEW c \in Causes, CountResult(<<q, i>>, c)
      PROVE  /\ count'[q] = Wrapped(Fanout[q] - Number(q)')
             /\ answers'[q] + A("send")' + A("answer")' = Completions(q, Number(q)')
  <2>1. /\ count' = [count EXCEPT ![q] = (@ - 1) % Width]
        /\ answers' = answers
        /\ At(q, i, c) = "count"
        /\ Goto(<<q, i>>, c, IF count[q] <= 1 THEN "aggregate" ELSE "end")
    BY <1>4 DEF CountResult, At, Completed
  <2>2. /\ At(q, i, c)' = IF count[q] <= 1 THEN "aggregate" ELSE "end"
        /\ \A j \in Servers(q), d \in Causes :
              <<j, d>> # <<i, c>> => At(q, j, d)' = At(q, j, d)
    BY <2>1, AtFrame
  <2>3. \A d \in Causes : d # c =>
            Counted(q, d)' = Counted(q, d) /\ Aggregating(q, d)' = Aggregating(q, d)
    BY <2>2 DEF Counted, Aggregating, At, Servers
  <2>4. i \notin Counted(q, c) /\ Counted(q, c)' = Counted(q, c) \cup {i}
    BY <2>1, <2>2 DEF Counted, At, Servers
  <2>5. /\ i \notin Aggregating(q, c)
        /\ Aggregating(q, c)' = IF count[q] <= 1 THEN Aggregating(q, c) \cup {i}
                                                 ELSE Aggregating(q, c)
    BY <2>1, <2>2 DEF Aggregating, At, Servers
  <2>6. N(c)' = N(c) + 1 /\ \A d \in Causes : d # c => N(d)' = N(d)
    BY <2>3, <2>4, ResultSets, FS_AddElement
  <2>7. Number(q)' = Number(q) + 1
    BY <1>0, <1>1, <1>2, <2>6
  <2>8. count'[q] = Wrapped(Fanout[q] - Number(q)')
    <3>1. count'[q] = (count[q] - 1) % Width
      BY <2>1 DEF Types
    <3>2. (Wrapped(Fanout[q] - Number(q)) - 1) % Width = Wrapped(Fanout[q] - Number(q) - 1)
      BY <1>2, <1>3, CountDown
    <3>3. Fanout[q] - Number(q) - 1 = Fanout[q] - (Number(q) + 1)
      BY <1>2, <1>3
    <3> QED
      BY <1>1, <2>7, <3>1, <3>2, <3>3
  <2>9. A(c)' = (IF count[q] <= 1 THEN A(c) + 1 ELSE A(c))
            /\ \A d \in Causes : d # c => A(d)' = A(d)
    BY <2>3, <2>5, ResultSets, FS_AddElement
  <2>10. Completions(q, Number(q)') = IF count[q] <= 1 THEN Completions(q, Number(q)) + 1
                                                   ELSE Completions(q, Number(q))
    <3>1. Fanout[q] # 0
      BY <1>2 DEF Servers
    <3> QED
      BY <1>1, <1>2, <1>3, <2>7, <3>1, CompletionsNext
  <2>11. answers'[q] = answers[q]
    BY <2>1
  <2> QED
    <3> HIDE DEF A
    <3>1. CASE c = "send"
      BY <1>0, <1>1, <1>2, <2>8, <2>9, <2>10, <2>11, <3>1
    <3>2. CASE c = "answer"
      BY <1>0, <1>1, <1>2, <2>8, <2>9, <2>10, <2>11, <3>2
    <3> QED
      BY <1>0, <3>1, <3>2
<1>5. ASSUME NEW i \in Servers(q), NEW c \in Causes, AggregateResults(<<q, i>>, c)
      PROVE  /\ count'[q] = Wrapped(Fanout[q] - Number(q)')
             /\ answers'[q] + A("send")' + A("answer")' = Completions(q, Number(q)')
  <2>1. /\ answers' = [answers EXCEPT ![q] = @ + 1]
        /\ count' = count
        /\ At(q, i, c) = "aggregate"
        /\ Goto(<<q, i>>, c, "end")
    BY <1>5 DEF AggregateResults, At
  <2>2. /\ At(q, i, c)' = "end"
        /\ \A j \in Servers(q), d \in Causes :
              <<j, d>> # <<i, c>> => At(q, j, d)' = At(q, j, d)
    BY <2>1, AtFrame
  <2>3. \A d \in Causes : Counted(q, d)' = Counted(q, d)
    BY <2>1, <2>2 DEF Counted, At, Servers
  <2>4. \A d \in Causes : d # c => Aggregating(q, d)' = Aggregating(q, d)
    BY <2>2 DEF Aggregating, At, Servers
  <2>5. i \in Aggregating(q, c) /\ Aggregating(q, c)' = Aggregating(q, c) \ {i}
    BY <2>1, <2>2 DEF Aggregating, At, Servers
  <2>6. Number(q)' = Number(q)
    BY <1>0, <1>1, <2>3
  <2>7. A(c)' = A(c) - 1 /\ \A d \in Causes : d # c => A(d)' = A(d)
    BY <2>4, <2>5, ResultSets, FS_RemoveElement
  <2>8. answers'[q] = answers[q] + 1
    BY <2>1 DEF Types
  <2>9. count'[q] = Wrapped(Fanout[q] - Number(q)')
    BY <1>1, <2>1, <2>6
  <2> QED
    <3> HIDE DEF A
    <3>1. CASE c = "send"
      BY <1>0, <1>1, <1>2, <2>6, <2>7, <2>8, <2>9, <3>1
    <3>2. CASE c = "answer"
      BY <1>0, <1>1, <1>2, <2>6, <2>7, <2>8, <2>9, <3>2
    <3> QED
      BY <1>0, <3>1, <3>2
<1>6. ASSUME \A i \in Servers(q), c \in Causes :
                ~CountResult(<<q, i>>, c) /\ ~AggregateResults(<<q, i>>, c)
      PROVE  /\ count'[q] = Wrapped(Fanout[q] - Number(q)')
             /\ answers'[q] + A("send")' + A("answer")' = Completions(q, Number(q)')
  <2>1. \A i \in Servers(q), c \in Causes :
            \/ At(q, i, c)' = At(q, i, c)
            \/ At(q, i, c) = "off" /\ At(q, i, c)' = "store"
            \/ At(q, i, c) = "store" /\ At(q, i, c)' = "count"
    <3> SUFFICES ASSUME NEW i \in Servers(q), NEW c \in Causes, StoreResult(<<q, i>>, c)
                 PROVE  At(q, i, c) = "store" /\ At(q, i, c)' = "count"
      BY <1>6, AtStep
    <3> QED
      BY AtFrame DEF StoreResult, At
  <2>2. \A c \in Causes : Counted(q, c)' = Counted(q, c) /\ Aggregating(q, c)' = Aggregating(q, c)
    BY <2>1 DEF Counted, Aggregating, At, Servers
  <2>3. Number(q)' = Number(q) /\ \A c \in Causes : A(c)' = A(c)
    BY <1>0, <1>1, <2>2
  <2>4. count'[q] = count[q]
    <3>1. CASE count' = count
      BY <3>1
    <3>2. CASE \E p \in Requests, c \in Causes : CountResult(p, c)
      <4> PICK p \in Requests, c \in Causes : CountResult(p, c)
        BY <3>2
      <4>1. p[1] # q
        BY <1>6, PacketKinds
      <4> QED
        BY <4>1 DEF CountResult, Types
    <3> QED
      BY <3>1, <3>2, ResultVars
  <2>5. answers'[q] = answers[q]
    <3>1. CASE answers' = answers
      BY <3>1
    <3>2. CASE \E p \in Requests, c \in Causes : AggregateResults(p, c)
      <4> PICK p \in Requests, c \in Causes : AggregateResults(p, c)
        BY <3>2
      <4>1. p[1] # q
        BY <1>6, PacketKinds
      <4> QED
        BY <4>1 DEF AggregateResults, Types
    <3> QED
      BY <3>1, <3>2, ResultVars
  <2> QED
    BY <1>0, <1>1, <2>3, <2>4, <2>5
<1> QED
  BY <1>4, <1>5, <1>6

----------------------------------------------------------------------------
(* The return of WaitAllFinished *)

(* A callback that was called stays called, a late one late. *)
LEMMA StepStarted ==
    ASSUME Types, [Next]_vars
    PROVE  /\ \A x \in Packets \X Causes : run[x] # "off" => run'[x] # "off"
           /\ late \subseteq late'
<1>1. \/ run' = run
      \/ \E p, c, label : label # "off" /\ Goto(p, c, label)
  BY DEF Next, vars, UserStep, AddCallback, CountJob, SendQuery, WaitAllFinished,
       NextQuery, SendFails, Delivered, Response, QueryExpires, ClientCallback, Call,
       Decrease, Test, Notify, Decreased, Handle, AddRequest, SendRequest, ServerResponse,
       RequestExpires, RequestCallback, StoreResult, CountResult, AggregateResults
<1>2. \A x \in Packets \X Causes : run[x] # "off" => run'[x] # "off"
  BY <1>1 DEF Types, Goto
<1>3. late \subseteq late'
  BY DEF Next, vars, UserStep, AddCallback, CountJob, SendQuery, WaitAllFinished,
       NextQuery, SendFails, Delivered, Response, QueryExpires, ClientCallback, Call,
       Decrease, Test, Notify, Handle, AddRequest, SendRequest, ServerResponse,
       RequestExpires, RequestCallback, StoreResult, CountResult, AggregateResults
<1> QED
  BY <1>2, <1>3

(* A packet that could not be sent stays failed. *)
LEMMA StepFailed ==
    ASSUME Types, Orders, [Next]_vars
    PROVE  Failed \subseteq Failed'
<1>1. \/ packet' = packet
      \/ \E p, what : packet[p] # "failed" /\ packet' = [packet EXCEPT ![p] = what]
  <2>1. ASSUME SendQuery
        PROVE  packet[Query(current)] # "failed"
    BY <2>1 DEF SendQuery, Orders, ClientOrder, Ahead, Types
  <2>2. ASSUME NEW q \in Queries, SendRequest(q)
        PROVE  packet[<<q, handler[q]>>] # "failed"
    <3>1. handler[q] \in Servers(q) /\ handler[q] >= handler[q]
      BY <2>2, HandlerBounds DEF SendRequest, Servers
    <3>2. \A i \in Servers(q) : i >= handler[q] => packet[<<q, i>>] = "none"
      BY DEF Orders, ServiceOrder
    <3> QED
      BY <3>1, <3>2
  <2>3. CASE SendQuery
    BY <2>1, <2>3 DEF SendQuery
  <2>4. CASE \E q \in Queries : SendRequest(q)
    BY <2>2, <2>4 DEF SendRequest
  <2>5. CASE ~SendQuery /\ ~\E q \in Queries : SendRequest(q)
    <3>1. \/ packet' = packet
          \/ \E p \in Packets : SendFails(p) \/ Delivered(p)
          \/ \E p \in Requests : ServerResponse(p)
      BY <2>5 DEF Next, vars, UserStep, AddCallback, CountJob, WaitAllFinished,
         NextQuery, Response, QueryExpires, ClientCallback, Call, Decrease, Test, Notify,
         Handle, AddRequest, RequestExpires, RequestCallback, StoreResult, CountResult,
         AggregateResults
    <3> QED
      BY <3>1 DEF SendFails, Delivered, ServerResponse
  <2> QED
    BY <2>3, <2>4, <2>5
<1> QED
  BY <1>1 DEF Types, Failed

(* The sets that are compared when the wait returns hold queries. *)
LEMMA UncalledType ==
    ASSUME Types
    PROVE  /\ current \in Nat /\ current <= QueryCount /\ 1 .. current \subseteq Queries
           /\ Uncalled \subseteq Queries /\ FailedQueries \subseteq Queries
<1>1. current \in 1 .. QueryCount /\ QueryCount \in Nat
  BY Constants DEF Types, Queries
<1> QED
  BY <1>1 DEF Queries, Uncalled, FailedQueries

(* What a count of zero says to the thread that waits. *)
LEMMA ZeroUnfinished ==
    ASSUME Types, Orders, CallsCounted, JobsCounted, unfinished = 0,
           user \in {"wait", "waiting"}
    PROVE  Cardinality(Uncalled) <= Cardinality(FailedQueries)
<1>0. /\ "send" \in Causes /\ "answer" \in Causes
      /\ current \in Nat /\ current <= QueryCount /\ 1 .. current \subseteq Queries
      /\ \A q \in Queries : Query(q) \in Packets /\ q \in Nat /\ q >= 1
  BY UncalledType, PacketKinds, Constants DEF Causes, Queries
<1>1. Cardinality(Decreases("send")) + Cardinality(Decreases("answer")) = current
  <2>1. /\ Cardinality(Decreases("send")) \in 0 .. QueryCount
        /\ Cardinality(Decreases("answer")) \in 0 .. QueryCount
        /\ QueryCount \in Nat /\ Width \in Nat /\ Width > 2 * QueryCount
    BY <1>0, DecreasesType, Constants
  <2>2. 0 = Wrapped(current - Cardinality(Decreases("send")) - Cardinality(Decreases("answer")))
    BY DEF JobsCounted, Begun
  <2> QED
    BY <1>0, <2>1, <2>2 DEF Wrapped
<1>2. Decreases("send") \subseteq FailedQueries
  BY <1>0 DEF Decreases, HasDecreased, FailedQueries, Failed, Orders, SendOrder
<1>3. Decreases("answer") \subseteq 1 .. current
  <2> SUFFICES ASSUME NEW q \in Queries, HasDecreased(q, "answer"), q > current
               PROVE  FALSE
    BY <1>0 DEF Decreases
  <2>1. run[<<Query(q), "answer">>] = "off"
    BY DEF Orders, ClientOrder, Ahead
  <2> QED
    BY <2>1 DEF HasDecreased
<1>4. Uncalled \cap Decreases("answer") = {}
  <2> SUFFICES ASSUME NEW q \in Queries, called[q] = 0, HasDecreased(q, "answer"), ~Overdue(q)
               PROVE  FALSE
    BY DEF Uncalled, Decreases
  <2>1. ~HasCalled(q, "answer")
    BY DEF CallsCounted, Calls
  <2>2. run[<<Query(q), "answer">>] \in {"test", "notify", "call"} /\ Expired(q, "answer")
    BY <2>1 DEF HasDecreased, HasCalled
  <2> QED
    BY <2>2 DEF Overdue, Expired, Running
<1>5. /\ IsFiniteSet(Uncalled) /\ Cardinality(Uncalled) \in Nat
      /\ IsFiniteSet(FailedQueries) /\ Cardinality(FailedQueries) \in Nat
  BY UncalledType, QuerySets
<1>6. Cardinality(Uncalled) + Cardinality(Decreases("answer")) <= current
  <2>1. /\ Cardinality(Uncalled \cup Decreases("answer")) =
              Cardinality(Uncalled) + Cardinality(Decreases("answer"))
                  - Cardinality(Uncalled \cap Decreases("answer"))
        /\ Cardinality(Uncalled \cap Decreases("answer")) = 0
    BY <1>0, <1>4, <1>5, DecreasesType, FS_Union, FS_EmptySet
  <2>2. IsFiniteSet(1 .. current) /\ Cardinality(1 .. current) = current
    BY <1>0, FS_Interval
  <2>3. Uncalled \cup Decreases("answer") \subseteq 1 .. current
    BY <1>3 DEF Uncalled
  <2>4. Cardinality(Uncalled \cup Decreases("answer")) <= current
    BY <2>2, <2>3, FS_Subset
  <2> QED
    BY <1>0, <1>5, <2>1, <2>4, DecreasesType
<1>7. Cardinality(Decreases("send")) <= Cardinality(FailedQueries)
  BY <1>2, <1>5, FS_Subset
<1> QED
  BY <1>0, <1>1, <1>5, <1>6, <1>7, DecreasesType

(* How the user gets behind the wait. *)
LEMMA ReturnStep ==
    ASSUME [Next]_vars, user' = "returned"
    PROVE  /\ current' = current
           /\ \/ user = "returned"
              \/ user \in {"wait", "waiting"} /\ ~(unfinished > 0)
<1>1. CASE UserStep
  BY <1>1 DEF UserStep, AddCallback, CountJob, SendQuery, WaitAllFinished, NextQuery
<1>2. CASE \E q \in Queries : ClientCallback(q)
  BY <1>2 DEF ClientCallback, Call, Decrease, Test, Notify, clientVars
<1>3. CASE ~UserStep /\ ~\E q \in Queries : ClientCallback(q)
  BY <1>3 DEF Next, vars, clientVars, SendFails, Delivered, Response, QueryExpires,
       Handle, AddRequest, SendRequest, ServerResponse, RequestExpires, RequestCallback,
       StoreResult, CountResult, AggregateResults
<1> QED
  BY <1>1, <1>2, <1>3

(* All steps keep what holds after the wait. *)
LEMMA StepReturned ==
    ASSUME Types, Orders, CallsCounted, CallsCounted', JobsCounted, Returned, [Next]_vars
    PROVE  Returned'
<1> SUFFICES ASSUME user' = "returned"
             PROVE  Cardinality(Uncalled') <= Cardinality(FailedQueries')
  BY DEF Returned
<1>0. current' = current
  BY ReturnStep
<1>1. Cardinality(Uncalled) <= Cardinality(FailedQueries)
  <2>1. CASE user = "returned"
    BY <2>1 DEF Returned
  <2>2. CASE user # "returned"
    <3>1. unfinished = 0
      BY <2>2, ReturnStep, Constants DEF Types
    <3> QED
      BY <2>2, <3>1, ReturnStep, ZeroUnfinished
  <2> QED
    BY <2>1, <2>2
<1>2. Uncalled' \subseteq Uncalled
  <2> SUFFICES ASSUME NEW q \in 1 .. current, called'[q] = 0, ~Overdue(q)'
               PROVE  called[q] = 0 /\ ~Overdue(q)
    BY <1>0 DEF Uncalled, Overdue, Running, Query
  <2>0. q \in Queries /\ "answer" \in Causes /\ "send" \in Causes /\ Query(q) \in Packets
    BY UncalledType, PacketKinds DEF Causes
  <2>1. \A c \in Causes : ~HasCalled(q, c)'
    BY <2>0 DEF CallsCounted, Calls, Causes
  <2>2. \A c \in Causes : ~HasCalled(q, c)
    BY <2>0, <2>1, StepMarks DEF MarksMove
  <2>3. called[q] = 0
    BY <2>0, <2>2 DEF CallsCounted, Calls
  <2>4. run'[<<Query(q), "answer">>] # "end"
    BY <2>0, <2>1 DEF HasCalled, Query
  <2>5. /\ run[<<Query(q), "answer">>] # "off" => run'[<<Query(q), "answer">>] # "off"
        /\ Query(q) \in late => Query(q) \in late'
    BY <2>0, StepStarted
  <2>6. ~Overdue(q)
    BY <2>4, <2>5 DEF Overdue, Running, Query
  <2> QED
    BY <2>3, <2>6
<1>3. FailedQueries \subseteq FailedQueries'
  BY StepFailed DEF FailedQueries, Query
<1>4. /\ IsFiniteSet(Uncalled) /\ Cardinality(Uncalled) \in Nat
      /\ IsFiniteSet(FailedQueries') /\ Cardinality(FailedQueries) \in Nat
      /\ Cardinality(FailedQueries') \in Nat
  <2>1. FailedQueries' \subseteq Queries
    BY DEF FailedQueries
  <2> QED
    BY <2>1, UncalledType, QuerySets
<1>5. Cardinality(Uncalled') <= Cardinality(Uncalled) /\ Cardinality(Uncalled') \in Nat
  BY <1>2, <1>4, FS_Subset, FS_CardinalityType
<1>6. Cardinality(FailedQueries) <= Cardinality(FailedQueries')
  BY <1>3, <1>4, FS_Subset
<1> QED
  BY <1>1, <1>4, <1>5, <1>6

----------------------------------------------------------------------------
(* The invariant, and the properties it implies *)

(* The invariant holds at first. *)
LEMMA InitInvariant ==
    ASSUME Init
    PROVE  IInv
<1>0. /\ "send" \in Causes /\ "answer" \in Causes
      /\ \A p \in Packets, c \in Causes : run[<<p, c>>] = "off"
      /\ \A q \in Queries : Query(q) \in Packets
      /\ \A q \in Queries : \A i \in Servers(q) : <<q, i>> \in Packets
  BY PacketKinds DEF Init, Causes
<1>1. Types
  <2>1. count \in [Queries -> 0 .. Width - 1]
    <3>1. count = [q \in Queries |-> Fanout[q]]
      BY DEF Init
    <3>2. \A q \in Queries : Fanout[q] \in 0 .. Width - 1
      BY Constants
    <3> QED
      BY <3>1, <3>2
  <2>2. unfinished \in 0 .. Width - 1 /\ current \in Queries
    BY Constants DEF Init
  <2>3. /\ resources \subseteq Queries /\ timeoutList \in Seq(Queries)
        /\ requests \subseteq Requests /\ requestDeadlines \in Seq(Requests)
    BY DEF Init, Callbacks!ResourceInit, Aggregator!ResourceInit
  <2>4. /\ handler \in [Queries -> Nat] /\ added \in [Queries -> BOOLEAN]
        /\ \A q \in Queries : /\ handler[q] <= Fanout[q] + 1
                              /\ added[q] => handler[q] \in Servers(q)
    BY Constants DEF Init
  <2>5. run \in [Packets \X Causes -> Labels]
    BY DEF Init, Labels
  <2> QED
    BY <2>1, <2>2, <2>3, <2>4, <2>5 DEF Init, Types
<1>2. Orders
  <2>1. ClientOrder
    BY <1>0 DEF Init, ClientOrder, Callbacks!ResourceInit
  <2>2. ServiceOrder
    BY <1>0 DEF Init, ServiceOrder, Aggregator!ResourceInit
  <2>3. SendOrder
    BY <1>0 DEF SendOrder
  <2> QED
    BY <2>1, <2>2, <2>3 DEF Orders
<1>3. CallsCounted
  BY <1>0 DEF Init, CallsCounted, Calls, HasCalled
<1>4. JobsCounted
  <2>1. \A c \in Causes : Decreases(c) = {}
    BY <1>0 DEF Decreases, HasDecreased
  <2>2. Begun = 0
    BY DEF Init, Begun
  <2>3. unfinished = 0
    BY DEF Init
  <2> QED
    BY <1>0, <2>1, <2>2, <2>3, FS_EmptySet DEF JobsCounted, Wrapped
<1>5. ResultsCounted
  <2> SUFFICES ASSUME NEW q \in Queries
               PROVE  /\ count[q] = Wrapped(Fanout[q] - Number(q))
                      /\ answers[q] + Cardinality(Aggregating(q, "send"))
                            + Cardinality(Aggregating(q, "answer")) = Completions(q, Number(q))
                      /\ \A i \in Servers(q), cause \in Causes :
                            At(q, i, cause) \notin {"count", "aggregate", "end"}
    BY DEF ResultsCounted
  <2>1. \A i \in Servers(q), c \in Causes : At(q, i, c) = "off"
    BY <1>0 DEF At
  <2>2. \A c \in Causes : Counted(q, c) = {} /\ Aggregating(q, c) = {}
    BY <2>1 DEF Counted, Aggregating
  <2>3. Number(q) = 0
    BY <1>0, <2>2, FS_EmptySet DEF Number
  <2>4. count[q] = Wrapped(Fanout[q] - Number(q))
    BY <2>3, Constants DEF Init, Wrapped
  <2>5. Cardinality(Aggregating(q, "send")) = 0 /\ Cardinality(Aggregating(q, "answer")) = 0
    BY <1>0, <2>2, FS_EmptySet
  <2>6. answers[q] = 0
    BY DEF Init
  <2> QED
    BY <2>1, <2>3, <2>4, <2>5, <2>6 DEF Completions
<1>6. Returned
  BY DEF Init, Returned
<1> QED
  BY <1>1, <1>2, <1>3, <1>4, <1>5, <1>6 DEF IInv

(* All steps keep the invariant. *)
LEMMA StepInvariant ==
    ASSUME IInv, [Next]_vars
    PROVE  IInv'
<1>1. Types' /\ Orders' /\ CallsCounted' /\ JobsCounted' /\ ResultsCounted'
  BY StepTypes, StepOrders, StepCalls, StepJobs, StepResults DEF IInv
<1>2. Returned'
  BY <1>1, StepReturned DEF IInv
<1> QED
  BY <1>1, <1>2 DEF IInv

(* The counts of all calls are right in every state. *)
THEOREM Invariant == Spec => []IInv
<1>1. Init => IInv
  BY InitInvariant
<1>2. IInv /\ [Next]_vars => IInv'
  BY StepInvariant
<1> QED
  BY <1>1, <1>2, PTL DEF Spec

(* The two calls of a user's callback are that of an answer or a deadline, *)
(* of which the manager lets only one have it, and that of a failed send.  *)
THEOREM CalledTwice == Spec => []CalledTwiceOnlyAfterFailure
<1>1. IInv => CalledTwiceOnlyAfterFailure
  <2> SUFFICES ASSUME IInv, NEW q \in Queries, called[q] > 1
               PROVE  Query(q) \in Failed
    BY DEF CalledTwiceOnlyAfterFailure
  <2>1. called[q] = Calls(q, "send") + Calls(q, "answer")
    BY DEF IInv, CallsCounted
  <2>2. HasCalled(q, "send")
    BY <2>1 DEF Calls
  <2>3. run[<<Query(q), "send">>] # "off" /\ Query(q) \in Packets
    BY <2>2, PacketKinds DEF HasCalled
  <2> QED
    BY <2>3 DEF IInv, Orders, SendOrder, Failed
<1> QED
  BY <1>1, Invariant, PTL

(* What a request's callback has counted after a failed send. *)
LEMMA CountedFailed ==
    ASSUME Types, Orders, NEW q \in Queries
    PROVE  /\ Counted(q, "send") \subseteq FailedRequests(q)
           /\ IsFiniteSet(FailedRequests(q)) /\ Cardinality(FailedRequests(q)) \in Nat
           /\ Cardinality(Counted(q, "send")) <= Cardinality(FailedRequests(q))
<1>1. \A i \in Servers(q) : <<q, i>> \in Packets
  BY PacketKinds
<1>2. Counted(q, "send") \subseteq FailedRequests(q)
  BY <1>1 DEF Counted, At, FailedRequests, Failed, Orders, SendOrder
<1>3. FailedRequests(q) \subseteq Servers(q)
  BY DEF FailedRequests
<1>4. IsFiniteSet(Servers(q))
  BY ResultSets DEF Causes
<1>5. IsFiniteSet(FailedRequests(q)) /\ Cardinality(FailedRequests(q)) \in Nat
  BY <1>3, <1>4, FS_Subset, FS_CardinalityType
<1> QED
  BY <1>2, <1>5, FS_Subset

(* The parts of the counts that the next theorems need. *)
LEMMA ResultParts ==
    ASSUME Types, ResultsCounted, NEW q \in Queries
    PROVE  /\ Fanout[q] \in Nat /\ answers[q] \in Nat
           /\ Cardinality(Counted(q, "send")) \in 0 .. Fanout[q]
           /\ Cardinality(Counted(q, "answer")) \in 0 .. Fanout[q]
           /\ Cardinality(Aggregating(q, "send")) \in Nat
           /\ Cardinality(Aggregating(q, "answer")) \in Nat
           /\ answers[q] + Cardinality(Aggregating(q, "send"))
                + Cardinality(Aggregating(q, "answer")) = Completions(q, Number(q))
<1>1. "send" \in Causes /\ "answer" \in Causes
  BY DEF Causes
<1>2. answers[q] \in Nat
  BY DEF Types
<1> QED
  BY <1>1, <1>2, ResultSets DEF ResultsCounted

(* A second answer takes more counts than there are servers, and a failed  *)
(* send for each count that is too many.                                   *)
THEOREM AnsweredTwice == Spec => []AnsweredTwiceOnlyAfterFailure
<1>1. IInv => AnsweredTwiceOnlyAfterFailure
  <2> SUFFICES ASSUME IInv, NEW q \in Queries, answers[q] > 1
               PROVE  FailedRequests(q) # {}
    BY DEF AnsweredTwiceOnlyAfterFailure
  <2>0. Types /\ Orders /\ ResultsCounted
    BY DEF IInv
  <2>1. Completions(q, Number(q)) > 1
    BY <2>0, ResultParts
  <2>2. Number(q) > Fanout[q]
    <3>1. Number(q) \in Nat /\ Fanout[q] \in Nat
      BY <2>0, ResultParts DEF Number
    <3> QED
      BY <2>1, <3>1 DEF Completions
  <2>3. Cardinality(Counted(q, "send")) > 0
    BY <2>0, <2>2, ResultParts DEF Number
  <2>4. Cardinality(FailedRequests(q)) > 0
    BY <2>0, <2>3, CountedFailed, ResultParts
  <2> QED
    BY <2>4, FS_EmptySet
<1> QED
  BY <1>1, Invariant, PTL

(* Whoever aggregates the results finds those of all servers, except for   *)
(* one for each failed send: the responses and deadlines that have counted *)
(* are of different servers, and each has stored its result before.        *)
THEOREM AnswersComplete == Spec => []AnswerIsComplete
<1>1. IInv => AnswerIsComplete
  <2> SUFFICES ASSUME IInv, NEW q \in Queries, NEW i \in Servers(q), NEW c \in Causes,
                      run[<<<<q, i>>, c>>] = "aggregate"
               PROVE  Cardinality({j \in Servers(q) : <<q, j>> \notin stored})
                          <= Cardinality(FailedRequests(q))
    BY DEF AnswerIsComplete
  <2> DEFINE Missing == {j \in Servers(q) : <<q, j>> \notin stored}
  <2>0. Types /\ Orders /\ ResultsCounted /\ "answer" \in Causes
    BY DEF IInv, Causes
  <2>1. Cardinality(Aggregating(q, c)) > 0
    <3>1. i \in Aggregating(q, c)
      BY DEF Aggregating, At
    <3> QED
      BY <3>1, ResultSets, FS_EmptySet
  <2>2. Completions(q, Number(q)) > 0
    <3>1. c = "send" \/ c = "answer"
      BY DEF Causes
    <3> QED
      BY <2>0, <2>1, <3>1, ResultParts
  <2>3. Number(q) >= Fanout[q]
    <3>1. Number(q) \in Nat /\ Fanout[q] \in Nat
      BY <2>0, ResultParts DEF Number
    <3> QED
      BY <2>2, <3>1 DEF Completions
  <2>4. IsFiniteSet(Missing) /\ Cardinality(Missing) \in Nat
    BY ResultSets, FS_Subset, FS_CardinalityType
  <2>5. Missing \cap Counted(q, "answer") = {}
    <3>1. \A j \in Servers(q) : At(q, j, "answer") \in {"aggregate", "end"} => <<q, j>> \in stored
      BY <2>0 DEF ResultsCounted
    <3> QED
      BY <3>1 DEF Counted
  <2>6. Cardinality(Missing) + Cardinality(Counted(q, "answer")) <= Fanout[q]
    <3>1. IsFiniteSet(Counted(q, "answer")) /\ IsFiniteSet(Servers(q))
          /\ Cardinality(Servers(q)) = Fanout[q] /\ Cardinality(Counted(q, "answer")) \in Nat
      BY <2>0, ResultSets, ResultParts
    <3>2. Cardinality(Missing \cup Counted(q, "answer"))
              = Cardinality(Missing) + Cardinality(Counted(q, "answer"))
      <4>1. Cardinality(Missing \cap Counted(q, "answer")) = 0
        BY <2>5, FS_EmptySet
      <4> HIDE DEF Missing
      <4>2. Cardinality(Missing \cup Counted(q, "answer"))
                = Cardinality(Missing) + Cardinality(Counted(q, "answer"))
                    - Cardinality(Missing \cap Counted(q, "answer"))
        BY <2>4, <3>1, FS_Union
      <4> QED
        BY <2>4, <3>1, <4>1, <4>2
    <3>3. Missing \cup Counted(q, "answer") \subseteq Servers(q)
      BY DEF Counted
    <3>4. Cardinality(Missing \cup Counted(q, "answer")) <= Cardinality(Servers(q))
      BY <3>1, <3>3, FS_Subset
    <3> QED
      BY <3>1, <3>2, <3>4
  <2>7. Cardinality(Counted(q, "send")) <= Cardinality(FailedRequests(q))
        /\ Cardinality(FailedRequests(q)) \in Nat
    BY <2>0, CountedFailed
  <2> HIDE DEF Missing
  <2>8. Cardinality(Missing) <= Cardinality(FailedRequests(q))
    BY <2>0, <2>3, <2>4, <2>6, <2>7, ResultParts DEF Number
  <2> QED
    BY <2>8 DEF Missing
<1> QED
  BY <1>1, Invariant, PTL

(* The wait returns when the decrements are as many as the queries, and    *)
(* only a failed send makes one that is not a query's own.                 *)
THEOREM ReturnsAfter == Spec => []ReturnsAfterCallbacks
<1>1. IInv => ReturnsAfterCallbacks
  <2> SUFFICES ASSUME IInv, user = "returned"
               PROVE  Cardinality({q \in 1 .. current : called[q] = 0})
                        <= Cardinality({q \in Queries : Query(q) \in Failed})
                            + Cardinality({q \in Queries : Query(q) \in late
                                              /\ Running(Query(q), "answer")})
    BY DEF ReturnsAfterCallbacks
  <2> DEFINE Silent == {q \in 1 .. current : called[q] = 0}
             Late == {q \in Queries : Overdue(q)}
  <2>1. Types /\ Cardinality(Uncalled) <= Cardinality(FailedQueries)
    BY DEF IInv, Returned
  <2>2. Silent \subseteq Uncalled \cup Late /\ Late \subseteq Queries
    BY <2>1, UncalledType DEF Uncalled
  <2>3. /\ IsFiniteSet(Uncalled) /\ Cardinality(Uncalled) \in Nat
        /\ IsFiniteSet(Late) /\ Cardinality(Late) \in Nat
        /\ Cardinality(FailedQueries) \in Nat
    BY <2>1, <2>2, UncalledType, QuerySets
  <2>4. /\ IsFiniteSet(Uncalled \cup Late)
        /\ Cardinality(Uncalled \cup Late) <= Cardinality(Uncalled) + Cardinality(Late)
    <3> HIDE DEF Late
    <3>1. IsFiniteSet(Uncalled \cap Late) /\ Cardinality(Uncalled \cap Late) \in Nat
      BY <2>3, FS_Subset, FS_CardinalityType
    <3>2. /\ IsFiniteSet(Uncalled \cup Late)
          /\ Cardinality(Uncalled \cup Late) = Cardinality(Uncalled) + Cardinality(Late)
                                                - Cardinality(Uncalled \cap Late)
      BY <2>3, FS_Union
    <3> QED
      BY <2>3, <3>1, <3>2
  <2>5. Cardinality(Silent) <= Cardinality(Uncalled \cup Late) /\ Cardinality(Silent) \in Nat
    BY <2>2, <2>4, FS_Subset, FS_CardinalityType
  <2>6. Cardinality(Uncalled \cup Late) \in Nat
    BY <2>4, FS_CardinalityType
  <2>7. Cardinality(Silent) <= Cardinality(FailedQueries) + Cardinality(Late)
    <3> HIDE DEF Silent, Late
    <3> QED
      BY <2>1, <2>3, <2>4, <2>5, <2>6
  <2> QED
    BY <2>7 DEF FailedQueries, Overdue
<1> QED
  BY <1>1, Invariant, PTL

(* All variables stay in their types; a callback runs and a query is       *)
(* answered at most twice.                                                 *)
THEOREM TypeCorrect == Spec => []TypeOK
<1>1. IInv => TypeOK
  <2> SUFFICES ASSUME IInv
               PROVE  TypeOK
    OBVIOUS
  <2>0. Types /\ CallsCounted /\ ResultsCounted
    BY DEF IInv
  <2>1. called \in [Queries -> 0..2]
    <3>1. \A q \in Queries : called[q] \in 0..2
      BY <2>0 DEF CallsCounted, Calls
    <3> QED
      BY <2>0, <3>1 DEF Types
  <2>2. answers \in [Queries -> 0..2]
    <3>1. \A q \in Queries : answers[q] \in 0..2
      <4> SUFFICES ASSUME NEW q \in Queries
                   PROVE  answers[q] \in 0..2
        OBVIOUS
      <4>1. Completions(q, Number(q)) \in 0..2
        BY DEF Completions
      <4> QED
        BY <2>0, <4>1, ResultParts
    <3> QED
      BY <2>0, <3>1 DEF Types
  <2>3. \A q \in Queries : handler[q] \in 0 .. Fanout[q] + 1
    <3> SUFFICES ASSUME NEW q \in Queries
                 PROVE  handler[q] \in 0 .. Fanout[q] + 1
      OBVIOUS
    <3>1. handler[q] \in Nat /\ handler[q] <= Fanout[q] + 1 /\ Fanout[q] \in Nat
      BY <2>0, HandlerBounds DEF Types
    <3> QED
      BY <3>1
  <2> QED
    BY <2>0, <2>1, <2>2, <2>3 DEF Types, TypeOK
<1> QED
  BY <1>1, Invariant, PTL
=============================================================================
