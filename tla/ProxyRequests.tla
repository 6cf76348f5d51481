--------------------------- MODULE ProxyRequests ---------------------------
(***************************************************************************)
(* What proxy discovery promises the package manager, without threads,     *)
(* mutexes or an engine: one callback waits at a time, the one that was    *)
(* stored last; a result goes to it, once, and then nobody waits; who asks *)
(* synchronously gets what was found for his own URLs or nothing; after    *)
(* the end there are no answers.                                           *)
(***************************************************************************)
EXTENDS Sequences

CONSTANTS Request, NoRequest, NoProxies

VARIABLES
  open,     (* FALSE after the end                                           *)
  made,     (* the requests that were ever made                              *)
  calls,    (* those whose call has neither stored a callback nor an answer  *)
  waiting,  (* the request whose callback gets the next result, or NoRequest *)
  answers   (* what each request was answered with                           *)

requests == <<open, made, calls, waiting, answers>>

RequestsInit ==
  /\ open = TRUE
  /\ made = {}
  /\ calls = {}
  /\ waiting = NoRequest
  /\ answers = [r \in Request |-> <<>>]

AnswerWith(r, proxies) == answers' = [answers EXCEPT ![r] = Append(@, proxies)]

Make(r) ==
  /\ open
  /\ r \notin made
  /\ made' = made \cup {r}
  /\ calls' = calls \cup {r}
  /\ UNCHANGED <<open, waiting, answers>>

Wait(r) ==
  /\ r \in calls
  /\ calls' = calls \ {r}
  /\ waiting' = r
  /\ UNCHANGED <<open, made, answers>>

(* The result may be that of an earlier request: the callbacks are told of    *)
(* every discovery.                                                          *)
Report(proxies) ==
  /\ open
  /\ waiting # NoRequest
  /\ AnswerWith(waiting, proxies)
  /\ waiting' = NoRequest
  /\ UNCHANGED <<open, made, calls>>

Reply(r) ==
  /\ r \in calls
  /\ calls' = calls \ {r}
  /\ \E proxies \in {r, NoProxies} : AnswerWith(r, proxies)
  /\ UNCHANGED <<open, made, waiting>>

Close ==
  /\ open
  /\ calls = {}
  /\ open' = FALSE
  /\ UNCHANGED <<made, calls, waiting, answers>>

RequestsNext ==
  \/ \E r \in Request : Make(r) \/ Wait(r) \/ Reply(r)
  \/ \E proxies \in Request \cup {NoProxies} : Report(proxies)
  \/ Close

Requests == RequestsInit /\ [][RequestsNext]_requests
=============================================================================
