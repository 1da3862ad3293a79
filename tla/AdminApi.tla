------------------------------ MODULE AdminApi ------------------------------
(***************************************************************************)
(* The admin API of the server (libcloak-server/src/adminapi.c): each      *)
(* stream of an admin session carries one HTTP request and its answer.     *)
(*                                                                         *)
(*   api      contexts by session, and what the API keeps by stream        *)
(*   ledger   the deadlines of those streams (Ledger)                      *)
(*   sesh     the sessions: the streams handed out and not given back      *)
(*   peer     by stream, the client's side: its request, the items of it   *)
(*            that are still on their way, and the frames of the answer    *)
(*   users    the users stored in the database                             *)
(*   free     frames the fullest connection of the pool can still take     *)
(*   stack    handlers in progress: a write, or the closing frame of a     *)
(*            stream given back, may report room before it returns         *)
(***************************************************************************)
EXTENDS Ledger, Http

CONSTANTS Keys,               \* the admin sessions
          StreamIds,          \* addresses for streams, used again once free
          Uids,               \* well-formed user ids
          Requests,           \* the requests clients send
          MAX_PER_SESSION,    \* cfg.max_streams_per_session
          MAX_LIST,           \* cfg.max_list_users
          PoolFrames          \* frames an empty connection takes

VARIABLES api, ledger, sesh, peer, users, free, stack
vars == <<api, ledger, sesh, peer, users, free, stack>>

State == [api |-> api, ledger |-> ledger, sesh |-> sesh, peer |-> peer,
          users |-> users, free |-> free, stack |-> stack]
Becomes(x) == \E y \in {x} :
    /\ api' = y.api /\ ledger' = y.ledger /\ sesh' = y.sesh /\ peer' = y.peer
    /\ users' = y.users /\ free' = y.free /\ stack' = y.stack

(* A handler in progress: told says that it cannot report room any more,   *)
(* n are the frames that it has handed to the stream and not counted yet.  *)
Frame(op, id, told) == [op |-> op, id |-> id, told |-> told, n |-> 0]

(* A stream without an answer yet. *)
NoResp == [status |-> 0, len |-> 0]
NewStream(k) == [as |-> k, parser |-> NewParser, resp |-> NoResp, sent |-> 0,
                 pumping |-> FALSE]

-----------------------------------------------------------------------------
(* Contexts, streams and teardown. *)

SessionLink(a, k, as) == [a EXCEPT !.sess = WithEntry(@, k, as)]
SessionUnlink(a, k) == [a EXCEPT !.sess = Without(@, k)]
StreamLink(a, id, ast) ==
    [a EXCEPT !.stream = WithEntry(@, id, ast),
              !.sess[ast.as].streams = <<id>> \o @]
StreamUnlink(a, id) ==
    [a EXCEPT !.sess[a.stream[id].as].streams = Remove(@, id),
              !.stream = Without(@, id)]

(* The first half of adminapi_stream_teardown: timer, parser and answer go. *)
Quiet(x, id) == [x EXCEPT !.ledger = Cancel(@, {"deadline"}, id),
                          !.api.stream[id].resp = NoResp]

(* The stream is given back, unlinked and freed. *)
Freed(x, id) == [x EXCEPT !.sesh[x.api.stream[id].as] = @ \ {id},
                          !.peer = Without(@, id),
                          !.api = StreamUnlink(@, id)]

(* adminapi_stream_teardown; the closing frame the release sends is a      *)
(* point where room may be reported.                                       *)
StreamTeardown(x, id) ==
    [Quiet(x, id) EXCEPT
        !.stack = <<Frame("free", id, FALSE)>> \o @]

TeardownNow(x, id) == Freed(Quiet(x, id), id)

(* adminapi_session_teardown. *)
SessionTeardown(x, k) ==
    LET quiet == FoldLeft(TeardownNow, x, x.api.sess[k].streams)
    IN [quiet EXCEPT !.api = SessionUnlink(@, k)]

-----------------------------------------------------------------------------
(* The answer to a request.  Each handler returns the users afterwards and *)
(* a status; fault says which call fails: the database, or the memory for  *)
(* what it needs.                                                          *)

Answer(us, status) == [users |-> us, status |-> status]

HandleList(us, fault) ==
    IF fault = "db" \/ Cardinality(us) > MAX_LIST \/ (us # {} /\ fault = "memory")
    THEN Answer(us, 500) ELSE Answer(us, 200)

HandleGetOne(us, uid, fault) ==
    CASE fault \in {"db", "memory"} -> Answer(us, 500)
      [] uid \notin us -> Answer(us, 404)
      [] OTHER -> Answer(us, 200)

(* The document's own user id, if it has one, must be the path's. *)
HandlePost(us, uid, body, fault) ==
    CASE fault = "memory" -> Answer(us, 500)
      [] body = << >> \/ "doc" \notin DOMAIN body[1].as -> Answer(us, 400)
      [] body[1].as.doc \notin {uid, "none"} -> Answer(us, 400)
      [] fault = "db" -> Answer(us, 500)
      [] OTHER -> Answer(us \cup {uid}, 201)

HandleDelete(us, uid, fault) ==
    CASE fault = "db" -> Answer(us, 500)
      [] uid \notin us -> Answer(us, 404)
      [] OTHER -> Answer(us \ {uid}, 200)

(* Mutant: the collection takes every method. *)
RouteCollection(us, method, fault) == HandleList(us, fault)
RouteUsers(us, method, fault) ==
    IF method = "GET" THEN HandleList(us, fault) ELSE Answer(us, 405)

RouteUser(us, p, uid, fault) ==
    IF uid \notin Uids THEN Answer(us, 400)
    ELSE CASE p.method = "GET" -> HandleGetOne(us, uid, fault)
           [] p.method = "POST" -> HandlePost(us, uid, p.body, fault)
           [] p.method = "DELETE" -> HandleDelete(us, uid, fault)
           [] OTHER -> Answer(us, 405)

(* adminapi_route. *)
Route(us, p, fault) ==
    CASE p.state = "error" -> Answer(us, p.status)
      [] p.method = "OPTIONS" -> Answer(us, 200)
      [] First(p.path) # "users" -> Answer(us, 404)
      [] Len(p.path) = 1 -> RouteUsers(us, p.method, fault)
      [] OTHER -> RouteUser(us, p, p.path[2], fault)

(* adminapi_respond: a listing may take more than a frame. *)
Respond(x, id, status) ==
    [x EXCEPT !.api.stream[id].sent = 0,
              !.api.stream[id].resp =
                 [status |-> status, len |-> IF status = 200 THEN 2 ELSE 1]]

-----------------------------------------------------------------------------
(* Reading and writing. *)

(* Mutant: a pump in progress is entered again. *)
PumpAnyway(x, id) ==
    IF x.api.stream[id].resp = NoResp THEN x
    ELSE [x EXCEPT !.api.stream[id].pumping = TRUE,
                   !.stack = <<Frame("pump", id, TRUE)>> \o @]
(* adminapi_pump_write, up to its loop. *)
PumpWrite(x, id) ==
    IF x.api.stream[id].resp = NoResp \/ x.api.stream[id].pumping THEN x
    ELSE [x EXCEPT !.api.stream[id].pumping = TRUE,
                   !.stack = <<Frame("pump", id, TRUE)>> \o @]

(* adminapi_drain, with the items that have arrived: nothing more is read  *)
(* once there is an answer.  fault "body" leaves no memory for the body;   *)
(* without answers there is none for the answer.                           *)
Drain(x, id, items, fault, answers) ==
    LET p == Feed(x.api.stream[id].parser, items, fault # "body")
        fed == [x EXCEPT !.api.stream[id].parser = p]
        a == Route(x.users, p, fault)
        routed == [fed EXCEPT !.users = a.users]
    IN IF x.api.stream[id].resp # NoResp THEN x
       ELSE IF p.state = "incomplete" THEN fed
       ELSE IF ~answers THEN StreamTeardown(routed, id)
       ELSE PumpWrite(Respond(routed, id, a.status), id)

Faults == {"none", "db", "memory", "body"}
(* At most one thing fails: a call, or the memory for the answer. *)
Chances == (Faults \X {TRUE}) \cup {<<"none", FALSE>>}

(* The next n items of the request arrive and are read. *)
Arrive(x, id, n, c) ==
    LET rest == x.peer[id].rest
        came == [x EXCEPT !.peer[id].rest = SubSeq(rest, n + 1, Len(rest))]
    IN Drain(came, id, SubSeq(rest, 1, n), c[1], c[2])
Sizes(rest) == {1, Len(rest)}

-----------------------------------------------------------------------------
(* Handlers. *)

Idle == stack = << >>

(* cloak_adminapi_prepare_session; then the registry makes the session. *)
Prepare(k) ==
    /\ Idle /\ k \notin DOMAIN api.sess
    /\ \E made \in BOOLEAN, unordered \in BOOLEAN :
          /\ sesh' = IF made THEN WithEntry(sesh, k, {}) ELSE sesh
          /\ api' = SessionLink(api, k, [streams |-> << >>, bound |-> FALSE,
                                         in_writable |-> FALSE,
                                         unordered |-> unordered])
    /\ UNCHANGED <<ledger, peer, users, free, stack>>

(* cloak_adminapi_session_aborted, cloak_adminapi_registry_broken. *)
Aborted(k) ==
    /\ Idle /\ k \in DOMAIN api.sess /\ ~api.sess[k].bound
    /\ Becomes([SessionTeardown(State, k) EXCEPT !.sesh = Without(@, k)])
RegistryBroken(k) ==
    /\ Idle /\ k \in DOMAIN api.sess /\ k \in DOMAIN sesh
    /\ Becomes([SessionTeardown(State, k) EXCEPT !.sesh = Without(@, k)])

(* adminapi_on_new_stream: armed says whether there is memory and a timer. *)
(* What came in the first frame is read at once: nothing else announces it.*)
OnNewStream(x, k, id, r, armed, n, c) ==
    LET b == [x EXCEPT !.api.sess[k].bound = TRUE]
        linked == [b EXCEPT !.api = StreamLink(@, id, NewStream(k)),
                            !.ledger = Register(@, "deadline", id),
                            !.sesh[k] = @ \cup {id},
                            !.peer = WithEntry(@, id, [req |-> r, got |-> 0,
                                                       rest |-> Written(r)])]
    IN IF Len(x.api.sess[k].streams) >= MAX_PER_SESSION \/ ~armed THEN b
       ELSE Arrive(linked, id, n, c)
PeerOpens(k) ==
    /\ Idle /\ k \in DOMAIN api.sess /\ k \in DOMAIN sesh
    /\ \E id \in {CHOOSE i \in StreamIds : i \notin DOMAIN api.stream},
          r \in Requests, armed \in BOOLEAN, c \in Chances :
             \E n \in Sizes(Written(r)) :
                Becomes(OnNewStream(State, k, id, r, armed, n, c))

(* adminapi_on_stream_data: one or more items arrive. *)
OnStreamData(id) ==
    /\ Idle /\ id \in DOMAIN peer /\ peer[id].rest # << >>
    /\ \E n \in Sizes(peer[id].rest), c \in Chances :
          Becomes(Arrive(State, id, n, c))

(* The client closes the stream: a read fails, unless there is an answer. *)
PeerCloses(id) ==
    /\ Idle /\ id \in DOMAIN peer /\ api.stream[id].resp = NoResp
    /\ Becomes(StreamTeardown(State, id))

(* adminapi_on_deadline. *)
OnDeadline(id) ==
    /\ Idle /\ <<"deadline", id>> \in ledger.regs
    /\ Becomes(StreamTeardown(State, id))

(* adminapi_on_writable, called by the event loop when the pool has        *)
(* drained, or by a write or a closing frame that empties a queue.         *)
Loop(k) == Frame("loop", First(api.sess[k].streams), TRUE)
EnterLoop(k, below) ==
    /\ stack' = IF api.sess[k].in_writable THEN below ELSE <<Loop(k)>> \o below
    /\ api' = [api EXCEPT !.sess[k].in_writable = TRUE]
    /\ UNCHANGED <<ledger, sesh, peer, users>>

OnWritable(k) ==
    /\ Idle /\ k \in DOMAIN sesh /\ k \in DOMAIN api.sess
    /\ EnterLoop(k, << >>) /\ free' = PoolFrames
NestedWritable ==
    /\ ~Idle /\ Head(stack).op # "loop" /\ ~Head(stack).told
    /\ EnterLoop(api.stream[Head(stack).id].as,
                 <<[Head(stack) EXCEPT !.told = TRUE]>> \o Tail(stack))
    /\ UNCHANGED free

LoopTurn ==
    /\ ~Idle /\ Head(stack).op = "loop" /\ Head(stack).id # Nil
    /\ LET id == Head(stack).id
           k == api.stream[id].as
       IN Becomes(PumpWrite([State EXCEPT
             !.stack[1].id = NextOf(api.sess[k].streams, id)], id))
LoopEnd(k) ==
    /\ ~Idle /\ Head(stack).op = "loop" /\ Head(stack).id = Nil
    /\ api' = [api EXCEPT !.sess[k].in_writable = FALSE]
    /\ stack' = Tail(stack)
    /\ UNCHANGED <<ledger, sesh, peer, users, free>>

-----------------------------------------------------------------------------
(* The loop of adminapi_pump_write, on the stream at the top. *)

Pumping == ~Idle /\ Head(stack).op = "pump"
Top == Head(stack).id
Left == api.stream[Top].resp.len - api.stream[Top].sent

(* adminapi_write_budget: one frame at a time on an unordered stream. *)
WriteBudget ==
    IF api.sess[api.stream[Top].as].unordered /\ free > 1 THEN 1 ELSE free

(* cloak_stream_write of a chunk: the pool may pass it on to the kernel at *)
(* once, and report room before it returns.                                *)
PumpChunk ==
    /\ Pumping /\ Head(stack).n = 0 /\ Left > 0 /\ WriteBudget > 0
    /\ LET n == IF WriteBudget < Left THEN WriteBudget ELSE Left
       IN /\ peer' = [peer EXCEPT ![Top].got = @ + n]
          /\ free' \in {free, free - n}
          /\ stack' = <<[Head(stack) EXCEPT !.told = FALSE, !.n = n]>>
                          \o Tail(stack)
    /\ UNCHANGED <<api, ledger, sesh, users>>

(* The write returns and the chunk is counted. *)
PumpCounts ==
    /\ Pumping /\ Head(stack).n > 0
    /\ api' = [api EXCEPT !.stream[Top].sent = @ + Head(stack).n]
    /\ stack' = <<Frame("pump", Top, TRUE)>> \o Tail(stack)
    /\ UNCHANGED <<ledger, sesh, peer, users, free>>

(* The pool is full: on_writable will come back. *)
PumpPauses ==
    /\ Pumping /\ Head(stack).n = 0 /\ Left > 0 /\ WriteBudget = 0
    /\ Becomes([State EXCEPT !.api.stream[Top].pumping = FALSE,
                             !.stack = Tail(@)])

(* All is written, or a write fails. *)
PumpEnds ==
    /\ Pumping /\ Head(stack).n = 0
    /\ Left = 0 \/ WriteBudget > 0
    /\ Becomes(StreamTeardown([State EXCEPT !.api.stream[Top].pumping = FALSE,
                                            !.stack = Tail(@)], Top))

(* The second half of adminapi_stream_teardown. *)
Release ==
    /\ ~Idle /\ Head(stack).op = "free"
    /\ Becomes(Freed([State EXCEPT !.stack = Tail(@)], Top))

(* cloak_adminapi_destroy, then the registry destroys the sessions. *)
Destroy ==
    /\ Idle
    /\ LET gone == FoldSet(LAMBDA k, x : SessionTeardown(x, k), State,
                           DOMAIN api.sess)
       IN Becomes([gone EXCEPT !.sesh = << >>])

-----------------------------------------------------------------------------
Init == /\ api = [sess |-> << >>, stream |-> << >>] /\ ledger = NewLedger
        /\ sesh = << >> /\ peer = << >> /\ users = {} /\ free = PoolFrames
        /\ stack = << >>

Returns == LoopTurn \/ PumpChunk \/ PumpCounts \/ PumpPauses \/ PumpEnds \/ Release
              \/ \E k \in DOMAIN api.sess : LoopEnd(k)

Next ==
    \/ \E k \in Keys : \/ Prepare(k) \/ Aborted(k) \/ RegistryBroken(k)
                       \/ PeerOpens(k) \/ OnWritable(k)
    \/ \E id \in StreamIds : OnStreamData(id) \/ PeerCloses(id) \/ OnDeadline(id)
    \/ NestedWritable \/ Returns \/ Destroy

Spec == Init /\ [][Next]_vars

(* Calls return; a timer that stays armed fires. *)
FairSpec == /\ Spec /\ WF_vars(Returns)
            /\ \A id \in StreamIds : SF_vars(OnDeadline(id))

-----------------------------------------------------------------------------
(* Properties. *)

Ending(id) == \E i \in DOMAIN stack : stack[i].op = "free" /\ stack[i].id = id

(* Nothing outlives what it belongs to, and none is forgotten: a stream    *)
(* has its deadline until its teardown begins, the sessions' streams are   *)
(* the ones the API has, and every handler in progress goes on with a      *)
(* stream that is alive, whatever the calls inside it tore down.           *)
NothingStrays ==
    /\ ledger.regs = {"deadline"} \X {id \in DOMAIN api.stream : ~Ending(id)}
    /\ \A k \in DOMAIN sesh :
          k \in DOMAIN api.sess /\ sesh[k] = Range(api.sess[k].streams)
    /\ \A i \in DOMAIN stack :
          stack[i].id # Nil => stack[i].id \in DOMAIN api.stream
    /\ \A i, j \in DOMAIN stack : i # j /\ stack[i].id = stack[j].id
          => "loop" \in {stack[i].op, stack[j].op}

HasBody(r) == UNION Range(Lengths(r)) \ {0} # {}

(* The statuses a request may be answered with when all of it was read. *)
Right(r) ==
    LET m == r.line.as.method
        path == r.line.as.path
    IN IF Verdict(r) # 0 THEN {Verdict(r)}
       ELSE IF m = "OPTIONS" THEN {200}
       ELSE IF First(path) # "users" THEN {404}
       ELSE IF Len(path) = 1 THEN IF m = "GET" THEN {200, 500} ELSE {405}
       ELSE IF path[2] \notin Uids THEN {400}
       ELSE CASE m = "GET" -> {200, 404, 500} [] m = "DELETE" -> {200, 404, 500}
              [] m = "POST" -> {201, 400, 500} [] OTHER -> {405}

(* A valid request without memory for its body is answered once its        *)
(* headers are read, and changes nothing.                                  *)
Unreadable(r, status, rest) ==
    /\ Verdict(r) = 0 /\ HasBody(r) /\ status = 500
    /\ rest \in {r.body, << >>} /\ users' = users

(* An answer is the one its request deserves, however it was cut into      *)
(* pieces, comes only once a valid request is complete unless there was no *)
(* memory for its body, and 201 says that the user is stored.  The         *)
(* database changes only for a request to change that user.                *)
RightStep ==
    /\ \A id \in DOMAIN api'.stream :
          LET resp == api'.stream[id].resp
              r == peer'[id].req
              rest == peer'[id].rest
              answered == id \in DOMAIN api.stream /\ api.stream[id].resp # NoResp
          IN resp # NoResp /\ ~answered =>
               \/ Unreadable(r, resp.status, rest)
               \/ /\ resp.status \in Right(r)
                  /\ Verdict(r) = 0 => rest = << >>
                  /\ resp.status = 201 => r.line.as.path[2] \in users'
    /\ \A u \in (users \cup users') \ (users \cap users') :
          \E id \in DOMAIN peer' :
             /\ peer'[id].req.line.as.method
                   = IF u \in users' THEN "POST" ELSE "DELETE"
             /\ peer'[id].req.line.as.path = <<"users", u>>
AnswersAreRight == [][RightStep]_vars

(* The client gets the frames of its answer once each: what was written to *)
(* the stream is what the pump in progress, or to come, counts as sent.    *)
AnswerIsWhole ==
    \A id \in DOMAIN api.stream : api.stream[id].resp # NoResp =>
        LET uncounted == {i \in DOMAIN stack : stack[i].id = id /\ stack[i].n > 0}
        IN /\ peer[id].got = api.stream[id].sent
                 + MapThenSumSet(LAMBDA i : stack[i].n, uncounted)
           /\ peer[id].got <= api.stream[id].resp.len

(* Every stream is given back: the answer is written or the deadline ends  *)
(* it.                                                                     *)
Unsettled(id) == id \in DOMAIN api.stream
StreamsSettle == \A id \in StreamIds : Unsettled(id) ~> ~Unsettled(id)
=============================================================================
