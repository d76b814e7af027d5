----------------------------- MODULE QueryPath -----------------------------
(***************************************************************************)
(* The path of a query: a client (ClientWrapper) sends it to the           *)
(* aggregator, the aggregator (AggregatorService) sends a request to every *)
(* server it is connected to, collects the answers in an execution context *)
(* and answers the client.  Both ends keep their callbacks in a            *)
(* ResourceManager, which calls them when a deadline passes, and both give *)
(* Client::SendPacket a callback for a packet that could not be sent.      *)
(***************************************************************************)
EXTENDS Integers, FiniteSets, Sequences

CONSTANTS
    QueryCount,  \* the user sends the queries 1, 2, ... in this order
    Fanout,      \* the servers the aggregator is connected to, for each query
    Width        \* m_unfinishedJobCount and m_unfinishedCount wrap around here

Queries  == 1 .. QueryCount
Servers(q) == 1 .. Fanout[q]
Requests == UNION {{q} \X Servers(q) : q \in Queries}

(* The packet of query q is <<q, 0>>, the one for its i-th server <<q, i>>. *)
Query(q) == <<q, 0>>
Packets  == {Query(q) : q \in Queries} \cup Requests

ASSUME QueryPathAssumption ==
    /\ QueryCount \in Nat \ {0}
    /\ Fanout \in [Queries -> Nat]
    /\ Width \in Nat /\ \A q \in Queries : Width > 2 * (QueryCount + Fanout[q])

VARIABLES
    user,        \* where the thread of the user is
    current,     \* the query it sends or has sent last
    unfinished,  \* m_unfinishedJobCount
    waiting,     \* m_isWaitingFinish
    called,      \* how often the user's callback of each query has run
    resources, timeoutList,      \* the manager of the client
    requests, requestDeadlines,  \* the manager of the aggregator
    packet,      \* what became of each query and request packet
    handler,     \* the server each SearchRequestHanlder is at, 0 before it runs
    added,       \* whether the callback for that server is in the manager
    count,       \* m_unfinishedCount of each execution context
    stored,      \* m_results: the requests that have one
    answers,     \* how many answers the aggregator has sent for each query
    run,         \* where the calls of the callbacks are
    late         \* the callbacks that were called by a deadline

clientVars == <<user, current, unfinished, waiting, called, resources, timeoutList>>
serviceVars == <<requests, requestDeadlines, handler, added, count, stored, answers>>
vars == <<clientVars, serviceVars, packet, run, late>>

Callbacks  == INSTANCE ResourceManager WITH Resources <- Queries
Aggregator == INSTANCE ResourceManager WITH Resources <- Requests,
                resources <- requests, timeoutList <- requestDeadlines

(* A callback is called by a packet that could not be sent, and by an      *)
(* answer or a deadline.                                                   *)
Causes == {"send", "answer"}

Goto(p, cause, label) == run' = [run EXCEPT ![<<p, cause>>] = label]
Running(p, cause) == run[<<p, cause>>] \notin {"off", "end"}
Failed == {p \in Packets : packet[p] = "failed"}

Init ==
    /\ user = "add" /\ current = 1
    /\ unfinished = 0 /\ waiting = FALSE
    /\ called = [q \in Queries |-> 0]
    /\ Callbacks!ResourceInit /\ Aggregator!ResourceInit
    /\ packet = [p \in Packets |-> "none"]
    /\ handler = [q \in Queries |-> 0]
    /\ added = [q \in Queries |-> FALSE]
    /\ count = [q \in Queries |-> Fanout[q]]
    /\ stored = {}
    /\ answers = [q \in Queries |-> 0]
    /\ run = [x \in Packets \X Causes |-> "off"]
    /\ late = {}

----------------------------------------------------------------------------
(* SendPacket, the same for queries and requests: the connection is gone,  *)
(* or the write fails; or the packet gets there.  A packet that is written *)
(* and then lost with its connection stays "posted".                       *)

SendFails(p) ==
    /\ packet[p] = "posted"
    /\ packet' = [packet EXCEPT ![p] = "failed"]
    /\ Goto(p, "send", IF p[2] = 0 THEN "call" ELSE "store")
    /\ UNCHANGED <<clientVars, serviceVars, late>>

(* The aggregator starts SearchRequestHanlder, the server its search. *)
Delivered(p) ==
    /\ packet[p] = "posted"
    /\ packet' = [packet EXCEPT ![p] = "there"]
    /\ handler' = IF p[2] = 0 THEN [handler EXCEPT ![p[1]] = 1] ELSE handler
    /\ UNCHANGED <<clientVars, requests, requestDeadlines, added, count, stored,
                   answers, run, late>>

----------------------------------------------------------------------------
(* The user: SendQueryAsync and WaitAllFinished *)

AddCallback ==
    /\ user = "add" /\ current \in Queries
    /\ Callbacks!Add(current)
    /\ user' = "count"
    /\ UNCHANGED <<current, unfinished, waiting, called, serviceVars, packet, run, late>>

(* A mutant: the count is set and not increased. *)
Mutant_CountJob ==
    /\ user = "count"
    /\ unfinished' = 1
    /\ user' = "send"
    /\ UNCHANGED <<current, waiting, called, resources, timeoutList, serviceVars,
                   packet, run, late>>

CountJob ==
    /\ user = "count"
    /\ unfinished' = (unfinished + 1) % Width
    /\ user' = "send"
    /\ UNCHANGED <<current, waiting, called, resources, timeoutList, serviceVars,
                   packet, run, late>>

(* Then the user sends another query or waits for those it has sent. *)
SendQuery ==
    /\ user = "send"
    /\ packet' = [packet EXCEPT ![Query(current)] = "posted"]
    /\ \/ user' = "add" /\ current < QueryCount /\ current' = current + 1
       \/ user' = "wait" /\ UNCHANGED current
    /\ UNCHANGED <<unfinished, waiting, called, resources, timeoutList, serviceVars,
                   run, late>>

(* The mutex is held from the test to the wait.  The wait is not in a loop *)
(* in the code; that it may end by itself is left out.                     *)
WaitAllFinished ==
    /\ user = "wait"
    /\ IF unfinished > 0 THEN waiting' = TRUE /\ user' = "waiting"
                         ELSE UNCHANGED waiting /\ user' = "returned"
    /\ UNCHANGED <<current, unfinished, called, resources, timeoutList, serviceVars,
                   packet, run, late>>

NextQuery ==
    /\ user = "returned" /\ current < QueryCount
    /\ user' = "add" /\ current' = current + 1
    /\ UNCHANGED <<unfinished, waiting, called, resources, timeoutList, serviceVars,
                   packet, run, late>>

----------------------------------------------------------------------------
(* The callbacks of the client *)

(* SearchResponseHanlder; an answer that finds no callback changes nothing. *)
Response(q) ==
    /\ answers[q] > 0 /\ q \in resources
    /\ Callbacks!Answer(q)
    /\ Goto(Query(q), "answer", "call")
    /\ UNCHANGED <<user, current, unfinished, waiting, called, serviceVars, packet, late>>

(* A mutant: the count stays as it is when a deadline passes. *)
Mutant_QueryExpires(q) ==
    /\ \A r \in Queries : Query(r) \in late => ~Running(Query(r), "answer")
    /\ Callbacks!Expire(q)
    /\ IF q \in resources
       THEN Goto(Query(q), "answer", "call") /\ late' = late \cup {Query(q)}
       ELSE UNCHANGED <<run, late>>
    /\ UNCHANGED <<user, current, unfinished, waiting, called, serviceVars, packet>>

(* The deadline of a query: here the count goes down first. *)
QueryExpires(q) ==
    /\ \A r \in Queries : Query(r) \in late => ~Running(Query(r), "answer")
    /\ Callbacks!Expire(q)
    /\ IF q \in resources
       THEN Goto(Query(q), "answer", "decrease") /\ late' = late \cup {Query(q)}
       ELSE UNCHANGED <<run, late>>
    /\ UNCHANGED <<user, current, unfinished, waiting, called, serviceVars, packet>>

Expired(q, cause) == cause = "answer" /\ Query(q) \in late

Call(q, cause) ==
    /\ run[<<Query(q), cause>>] = "call"
    /\ called' = [called EXCEPT ![q] = @ + 1]
    /\ Goto(Query(q), cause, IF Expired(q, cause) THEN "end" ELSE "decrease")
    /\ UNCHANGED <<user, current, unfinished, waiting, resources, timeoutList,
                   serviceVars, packet, late>>

(* DecreaseUnfnishedJobCount: the decrement, the test without the mutex,   *)
(* and with it the test again and the notification.                        *)
Decrease(q, cause) ==
    /\ run[<<Query(q), cause>>] = "decrease"
    /\ unfinished' = (unfinished - 1) % Width
    /\ Goto(Query(q), cause, "test")
    /\ UNCHANGED <<user, current, waiting, called, resources, timeoutList,
                   serviceVars, packet, late>>

Decreased(q, cause) == IF Expired(q, cause) THEN "call" ELSE "end"

Test(q, cause) ==
    /\ run[<<Query(q), cause>>] = "test"
    /\ Goto(Query(q), cause, IF unfinished = 0 THEN "notify" ELSE Decreased(q, cause))
    /\ UNCHANGED <<clientVars, serviceVars, packet, late>>

Notify(q, cause) ==
    /\ run[<<Query(q), cause>>] = "notify"
    /\ IF unfinished = 0 /\ waiting
       THEN /\ waiting' = FALSE
            /\ user' = IF user = "waiting" THEN "returned" ELSE user
       ELSE UNCHANGED <<waiting, user>>
    /\ Goto(Query(q), cause, Decreased(q, cause))
    /\ UNCHANGED <<current, unfinished, called, resources, timeoutList, serviceVars,
                   packet, late>>

----------------------------------------------------------------------------
(* The aggregator: SearchRequestHanlder *)

(* A mutant: the loop goes on for one server too many. *)
Mutant_AddRequest(q) ==
    /\ handler[q] \in 1 .. Fanout[q] + 1 /\ ~added[q]
    /\ Aggregator!Add(<<q, handler[q]>>)
    /\ added' = [added EXCEPT ![q] = TRUE]
    /\ UNCHANGED <<clientVars, handler, count, stored, answers, packet, run, late>>

(* The callback for the next server, and its deadline. *)
AddRequest(q) ==
    /\ handler[q] \in Servers(q) /\ ~added[q]
    /\ Aggregator!Add(<<q, handler[q]>>)
    /\ added' = [added EXCEPT ![q] = TRUE]
    /\ UNCHANGED <<clientVars, handler, count, stored, answers, packet, run, late>>

SendRequest(q) ==
    /\ added[q]
    /\ packet' = [packet EXCEPT ![<<q, handler[q]>>] = "posted"]
    /\ handler' = [handler EXCEPT ![q] = @ + 1]
    /\ added' = [added EXCEPT ![q] = FALSE]
    /\ UNCHANGED <<clientVars, requests, requestDeadlines, count, stored, answers,
                   run, late>>

(* SearchResponseHanlder; a server answers what was delivered to it once. *)
ServerResponse(p) ==
    /\ packet[p] = "there"
    /\ packet' = [packet EXCEPT ![p] = "answered"]
    /\ Aggregator!Answer(p)
    /\ IF p \in requests THEN Goto(p, "answer", "store") ELSE UNCHANGED run
    /\ UNCHANGED <<clientVars, handler, added, count, stored, answers, late>>

(* A mutant: the deadline of a request goes by without its callback. *)
Mutant_RequestExpires(p) ==
    /\ Aggregator!Expire(p)
    /\ UNCHANGED <<clientVars, handler, added, count, stored, answers, packet, run, late>>

RequestExpires(p) ==
    /\ \A r \in Requests \cap late : ~Running(r, "answer")
    /\ Aggregator!Expire(p)
    /\ IF p \in requests
       THEN Goto(p, "answer", "store") /\ late' = late \cup {p}
       ELSE UNCHANGED <<run, late>>
    /\ UNCHANGED <<clientVars, handler, added, count, stored, answers, packet>>

----------------------------------------------------------------------------
(* The callback of a request *)

StoreResult(p, cause) ==
    /\ run[<<p, cause>>] = "store"
    /\ stored' = stored \cup {p}
    /\ Goto(p, cause, "count")
    /\ UNCHANGED <<clientVars, requests, requestDeadlines, handler, added, count,
                   answers, packet, late>>

(* A mutant: completed when one is still missing. *)
Mutant_Completed(q) == count[q] <= 2

(* IsCompletedAfterFinsh: the count is what it was before the decrement. *)
Completed(q) == count[q] <= 1

CountResult(p, cause) ==
    LET q == p[1] IN
    /\ run[<<p, cause>>] = "count"
    /\ count' = [count EXCEPT ![q] = (@ - 1) % Width]
    /\ Goto(p, cause, IF Completed(q) THEN "aggregate" ELSE "end")
    /\ UNCHANGED <<clientVars, requests, requestDeadlines, handler, added, stored,
                   answers, packet, late>>

AggregateResults(p, cause) ==
    /\ run[<<p, cause>>] = "aggregate"
    /\ answers' = [answers EXCEPT ![p[1]] = @ + 1]
    /\ Goto(p, cause, "end")
    /\ UNCHANGED <<clientVars, requests, requestDeadlines, handler, added, count,
                   stored, packet, late>>

ClientCallback(q) ==
    \E cause \in Causes :
        Call(q, cause) \/ Decrease(q, cause) \/ Test(q, cause) \/ Notify(q, cause)

RequestCallback(p) ==
    \E cause \in Causes :
        StoreResult(p, cause) \/ CountResult(p, cause) \/ AggregateResults(p, cause)

UserStep == AddCallback \/ CountJob \/ SendQuery \/ WaitAllFinished \/ NextQuery
Handle(q) == AddRequest(q) \/ SendRequest(q)

Next ==
    \/ UserStep
    \/ \E p \in Packets : SendFails(p) \/ Delivered(p)
    \/ \E q \in Queries :
        Response(q) \/ QueryExpires(q) \/ ClientCallback(q) \/ Handle(q)
    \/ \E p \in Requests : ServerResponse(p) \/ RequestExpires(p) \/ RequestCallback(p)

(* What the threads of the two processes do by themselves, the deadlines   *)
(* included.                                                               *)
Progress ==
    \/ UserStep
    \/ \E q \in Queries : QueryExpires(q) \/ ClientCallback(q) \/ Handle(q)
    \/ \E p \in Requests : RequestExpires(p) \/ RequestCallback(p)

(* The threads are scheduled and time passes.  Packets may be lost, so     *)
(* their delivery is not fair, nor is the report of a failed send.  One    *)
(* condition for all threads is enough, and weaker than one for each: no   *)
(* thread can go on for ever.                                              *)
Fairness == WF_vars(Progress)

Spec == Init /\ [][Next]_vars /\ Fairness

----------------------------------------------------------------------------
(* Properties *)

Labels == {"off", "end", "call", "decrease", "test", "notify", "store", "count",
           "aggregate"}

TypeOK ==
    /\ user \in {"add", "count", "send", "wait", "waiting", "returned"}
    /\ current \in Queries /\ unfinished \in 0 .. Width - 1 /\ waiting \in BOOLEAN
    /\ called \in [Queries -> 0..2]
    /\ resources \subseteq Queries /\ timeoutList \in Seq(Queries)
    /\ requests \subseteq Requests /\ requestDeadlines \in Seq(Requests)
    /\ packet \in [Packets -> {"none", "posted", "failed", "there", "answered"}]
    /\ \A q \in Queries : handler[q] \in 0 .. Fanout[q] + 1
    /\ added \in [Queries -> BOOLEAN]
    /\ count \in [Queries -> 0 .. Width - 1]
    /\ stored \subseteq Requests
    /\ answers \in [Queries -> 0..2]
    /\ run \in [Packets \X Causes -> Labels] /\ late \subseteq Packets

FailedRequests(q) == {i \in Servers(q) : <<q, i>> \in Failed}

(* The aggregator answers a query when all servers have answered, or their *)
(* deadline has passed.  A request that could not be sent is counted when  *)
(* that is found out and again at its deadline, so an answer may lack the  *)
(* result of one server for each such request, but of no others: a         *)
(* response and the deadline never both count.                             *)
AnswerIsComplete ==
    \A q \in Queries :
        (\E i \in Servers(q), c \in Causes : run[<<<<q, i>>, c>>] = "aggregate")
        => Cardinality({i \in Servers(q) : <<q, i>> \notin stored})
                <= Cardinality(FailedRequests(q))

(* A query is answered once, and a second time only when a request for it  *)
(* could not be sent.                                                      *)
AnsweredTwiceOnlyAfterFailure ==
    \A q \in Queries : answers[q] > 1 => FailedRequests(q) # {}

(* The user's callback runs once for each query, whatever answers and the  *)
(* deadline do at the same time, and a second time only when the query     *)
(* could not be sent.                                                      *)
CalledTwiceOnlyAfterFailure ==
    \A q \in Queries : called[q] > 1 => Query(q) \in Failed

(* When WaitAllFinished returns, by a notification or by its test, the     *)
(* callbacks of all queries have run, except for one query for each    *)
(* that could not be sent (it is counted twice), and for one whose         *)
(* deadline has passed: there the count goes down before the call.         *)
ReturnsAfterCallbacks ==
    user = "returned" =>
        Cardinality({q \in 1 .. current : called[q] = 0})
            <= Cardinality({q \in Queries : Query(q) \in Failed})
                + Cardinality({q \in Queries : Query(q) \in late /\ Running(Query(q), "answer")})

(* A query that reaches an aggregator which is connected to a server is    *)
(* answered, whatever is lost on the way to the servers and back.          *)
RequestAnswered ==
    \A q \in Queries : (handler[q] > 0 /\ Fanout[q] > 0) ~> answers[q] > 0

(* The user's callback of every query runs in the end. *)
QueryCalledBack ==
    \A q \in Queries : q \in resources ~> called[q] > 0

(* WaitAllFinished returns, unless a query could not be sent: the count    *)
(* then goes below zero, and the wait may never end.                       *)
WaitEnds == user = "waiting" ~> (user # "waiting" \/ \E q \in Queries : Query(q) \in Failed)
=============================================================================
