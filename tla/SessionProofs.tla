--------------------------- MODULE SessionProofs ----------------------------
(***************************************************************************)
(* For every set of stream ids, every number of stream entries and every   *)
(* depth of nesting, releases from inside callbacks included: a stream is  *)
(* freed once and not before its last use, the count of active streams is  *)
(* exact, and the session reports its end once.                            *)
(*                                                                         *)
(* The properties speak of memory; the inductive invariant says why it is  *)
(* right.  The table and the entries agree on which streams are active, a  *)
(* stream under release is in no other call, what is pending in the        *)
(* reactor tells how far the end of the session has come, and once the     *)
(* sweep is all that is left the owner holds retired streams only.         *)
(***************************************************************************)
EXTENDS Session, TLAPS

(* Two sequences, one after the other. *)
LEMMA SeqConcat ==
    ASSUME NEW S, NEW a \in Seq(S), NEW b \in Seq(S)
    PROVE  /\ a \o b \in Seq(S) /\ Len(a \o b) = Len(a) + Len(b)
           /\ \A i \in 1..Len(a) + Len(b) :
                (a \o b)[i] = IF i <= Len(a) THEN a[i] ELSE b[i - Len(a)]
  OBVIOUS

(* The empty sequence, and one that is not. *)
LEMMA SeqEmpty ==
    ASSUME NEW S
    PROVE  /\ << >> \in Seq(S) /\ Len(<< >>) = 0
           /\ \A a \in Seq(S) : a # << >> => Len(a) \in Nat \ {0}
  OBVIOUS

(* A sequence with one element replaced. *)
LEMMA SeqExcept ==
    ASSUME NEW S, NEW a \in Seq(S), NEW i \in 1..Len(a), NEW e \in S
    PROVE  /\ [a EXCEPT ![i] = e] \in Seq(S) /\ Len([a EXCEPT ![i] = e]) = Len(a)
           /\ \A j \in 1..Len(a) : [a EXCEPT ![i] = e][j] = IF j = i THEN e ELSE a[j]
  OBVIOUS

(* The first element, and the others. *)
LEMMA SeqTail ==
    ASSUME NEW S, NEW a \in Seq(S), a # << >>
    PROVE  /\ Head(a) \in S /\ Tail(a) \in Seq(S) /\ Len(Tail(a)) = Len(a) - 1
           /\ \A i \in 1..Len(Tail(a)) : Tail(a)[i] = a[i + 1]
  OBVIOUS

InCall(op) == \E n \in 1..Len(stack) : stack[n].op = op
Releasing(o) == \E n \in 1..Len(stack) : stack[n].op = "release" /\ stack[n].o = o

(* An id is in the table exactly with its own live entry, not retired. *)
TableAgrees ==
    /\ \A i \in Ids : streams[i] \in Objs =>
         Active(streams[i]) /\ obj[streams[i]].id = i
    /\ \A o \in Objs : Active(o) => obj[o].id \in Ids /\ streams[obj[o].id] = o

(* A stream that is being released is in no other call, nor in the owner's *)
(* hands; cloak_session_close runs once, and on_broken from the loop.      *)
CallsAgree ==
    /\ CallsAreLive
    /\ \A n \in 1..Len(stack) :
         stack[n].op \in {"write", "close", "release"} => stack[n].o # 0
    /\ \A n \in 1..Len(stack) : stack[n].op = "release" =>
         /\ ~obj[stack[n].o].held
         /\ \A m \in 1..Len(stack) : stack[m].o = stack[n].o => m = n
    /\ \A m, n \in 1..Len(stack) :
         stack[m].op = "sclose" /\ stack[n].op = "sclose" => m = n
    /\ \A n \in 1..Len(stack) : stack[n].op = "on_broken" => n = Len(stack)

(* How far the end of the session has come. *)
LifeAgrees ==
    /\ on_broken \in {0, 1}
    /\ "deferred" \in timers =>
         closed /\ on_broken = 0 /\ teardown_timer_id = "deferred"
    /\ "sweep" \in timers =>
         closed /\ on_broken = 1 /\ teardown_timer_id = "sweep"
    /\ InCall("sclose") =>
         /\ session = "up" /\ closed /\ on_broken = 0
         /\ "deferred" \notin timers /\ "sweep" \notin timers
    /\ InCall("on_broken") => "sweep" \in timers
    /\ ~closed => on_broken = 0
    /\ session = "destroyed" => closed /\ timers = {} /\ stack = <<>>
    /\ session = "up" /\ closed /\ on_broken = 0 =>
         "deferred" \in timers \/ InCall("sclose")

(* What the owner holds is live, and nothing that teardown will free; it   *)
(* keeps hold of a stream while it is in a call, unless that releases it.  *)
OwnerAgrees ==
    /\ \A o \in Objs : obj[o].held => obj[o].mem = "live"
    /\ session = "destroyed" \/ ("sweep" \in timers /\ ~InCall("on_broken")) =>
         \A o \in Objs : obj[o].held => obj[o].retired
    /\ \A o \in Objs : OnStack(o) => obj[o].held \/ Releasing(o)

(* NoLeak, with its calls told by their op and stream. *)
Owned ==
    \A o \in Objs : obj[o].mem = "live" =>
        \/ obj[o].held
        \/ Releasing(o)
        \/ (\E i \in Ids : streams[i] = o) /\ "sweep" \in timers

IInv == /\ SessionAssumption /\ TypeOK
        /\ TableAgrees /\ CallsAgree /\ LifeAgrees /\ OwnerAgrees /\ Owned
        /\ CountIsExact /\ IdleIsTimed

-----------------------------------------------------------------------------
(* How a step changes the calls in progress. *)

SameCalls(s, t) ==
    /\ t \in Seq(Calls) /\ Len(t) = Len(s)
    /\ \A n \in 1..Len(s) : t[n].op = s[n].op /\ t[n].o = s[n].o
Pushed(s, t, op, o) ==
    /\ t \in Seq(Calls) /\ Len(t) = Len(s) + 1
    /\ t[1].op = op /\ t[1].o = o
    /\ \A n \in 1..Len(s) : t[n + 1].op = s[n].op /\ t[n + 1].o = s[n].o
Popped(s, t) ==
    /\ t \in Seq(Calls) /\ Len(t) = Len(s) - 1 /\ Len(s) >= 1
    /\ \A n \in 1..Len(s) - 1 : t[n].op = s[n + 1].op /\ t[n].o = s[n + 1].o

(* Marking the innermost call as sent changes no call's op or stream. *)
LEMMA SentIsSame ==
    ASSUME NEW s \in Seq(Calls), s # <<>>
    PROVE  /\ SameCalls(s, [s EXCEPT ![1].sent = TRUE])
           /\ [s EXCEPT ![1].sent = TRUE] # <<>>
<1> DEFINE e == [s[1] EXCEPT !.sent = TRUE]
           t == [s EXCEPT ![1] = e]
<1>1. Len(s) \in Nat /\ Len(s) >= 1 /\ s[1] \in Calls
  BY SeqEmpty
<1>2. e \in Calls /\ e.op = s[1].op /\ e.o = s[1].o
  BY Zenon, <1>1 DEF Calls
<1>3. t = [s EXCEPT ![1].sent = TRUE]
  OBVIOUS
<1> HIDE DEF e
<1>4. /\ t \in Seq(Calls) /\ Len(t) = Len(s)
      /\ \A j \in 1..Len(s) : t[j] = IF j = 1 THEN e ELSE s[j]
  BY <1>1, <1>2, SeqExcept
<1> HIDE DEF t
<1>5. SameCalls(s, t)
  BY <1>1, <1>2, <1>4 DEF SameCalls
<1>6. t # <<>>
  BY <1>1, <1>4
<1> QED
  BY <1>3, <1>5, <1>6

(* A call put in front of the others. *)
LEMMA PushIsPushed ==
    ASSUME NEW s \in Seq(Calls), NEW r, SameCalls(s, r), NEW c \in Calls
    PROVE  Pushed(s, <<c>> \o r, c.op, c.o)
<1> DEFINE a == <<c>>
           t == a \o r
<1>1. a \in Seq(Calls) /\ Len(a) = 1 /\ a[1] = c
  OBVIOUS
<1>2. r \in Seq(Calls) /\ Len(r) = Len(s) /\ Len(s) \in Nat
      /\ \A n \in 1..Len(s) : r[n].op = s[n].op /\ r[n].o = s[n].o
  BY DEF SameCalls
<1>6. a \in Seq(Calls) /\ r \in Seq(Calls)
  BY <1>1, <1>2
<1> HIDE DEF a
<1>3. /\ t \in Seq(Calls) /\ Len(t) = Len(a) + Len(r)
      /\ \A i \in 1..Len(a) + Len(r) :
           t[i] = IF i <= Len(a) THEN a[i] ELSE r[i - Len(a)]
  BY <1>6, SeqConcat, Zenon
<1> HIDE DEF t
<1>4. t[1] = c /\ Len(t) = Len(s) + 1 /\ \A n \in 1..Len(s) : t[n + 1] = r[n]
  BY <1>1, <1>2, <1>3
<1>7. \A n \in 1..Len(s) : t[n + 1].op = s[n].op /\ t[n + 1].o = s[n].o
  BY <1>2, <1>4
<1>5. Pushed(s, t, c.op, c.o)
  BY <1>3, <1>4, <1>7 DEF Pushed
<1> QED
  BY <1>5 DEF t, a

(* The innermost call returns. *)
LEMMA TailIsPopped ==
    ASSUME NEW s \in Seq(Calls), s # <<>>
    PROVE  Popped(s, Tail(s))
<1>1. Len(s) \in Nat /\ Len(s) >= 1
  BY SeqEmpty
<1>2. /\ Tail(s) \in Seq(Calls) /\ Len(Tail(s)) = Len(s) - 1
      /\ \A i \in 1..Len(Tail(s)) : Tail(s)[i] = s[i + 1]
  BY SeqTail
<1> QED
  BY <1>1, <1>2 DEF Popped

(* The empty stack, and a stack that stays. *)
LEMMA SameIsSame ==
    ASSUME NEW s \in Seq(Calls)
    PROVE  SameCalls(s, s)
  BY DEF SameCalls

-----------------------------------------------------------------------------
(* Counting the table. *)

ActiveOf(t) == {i \in Ids : t[i] \in Objs}
Tables == [Ids -> Objs \cup {Absent, Tombstone}]

(* How many members a set has. *)
Size(S) == Cardinality(S)

(* What counting the table comes to: it names each entry at most once, so  *)
(* it has no more of them than memory; one more entry; one fewer.  Proved  *)
(* as CountFactsHold at the end, with the theorems on finite sets.         *)
CountFacts ==
    /\ \A t \in Tables : (\A i, j \in ActiveOf(t) : t[i] = t[j] => i = j)
           => Size(ActiveOf(t)) \in 0..MaxObjs
    /\ \A t \in Tables, i \in Ids, o \in Objs : t[i] \notin Objs =>
           Size(ActiveOf([t EXCEPT ![i] = o])) = Size(ActiveOf(t)) + 1
    /\ \A t \in Tables, i \in Ids : t[i] \in Objs =>
           /\ Size(ActiveOf([t EXCEPT ![i] = Tombstone]))
                = Size(ActiveOf(t)) - 1
           /\ Size(ActiveOf(t)) \in Nat \ {0}
    /\ Size({}) = 0

(* A table whose active ids do not change keeps its count. *)
LEMMA CountSame ==
    ASSUME NEW t \in Tables, NEW i \in Ids, t[i] \notin Objs, SessionAssumption
    PROVE  ActiveOf([t EXCEPT ![i] = Tombstone]) = ActiveOf(t)
<1>0. Tombstone \notin Objs
  BY DEF Tombstone, Objs, SessionAssumption
<1> QED
  BY <1>0 DEF ActiveOf, Tables

-----------------------------------------------------------------------------
(* What the calls in progress say after a step. *)

(* What the calls in progress are made of. *)
LEMMA CallType ==
    ASSUME NEW s \in Seq(Calls), NEW n \in 1..Len(s)
    PROVE  s[n].o \in Objs \cup {0}
<1>1. s[n] \in Calls
  OBVIOUS
<1> QED
  BY <1>1 DEF Calls

(* Without a call or a return the calls in progress stay as they are. *)
LEMMA SameFacts ==
    ASSUME stack \in Seq(Calls), SameCalls(stack, stack')
    PROVE  /\ \A op : InCall(op)' <=> InCall(op)
           /\ \A o : Releasing(o)' <=> Releasing(o)
           /\ \A o : OnStack(o)' <=> OnStack(o)
  BY DEF SameCalls, InCall, Releasing, OnStack

(* A call adds itself on top of those in progress. *)
LEMMA PushedFacts ==
    ASSUME stack \in Seq(Calls), NEW op, NEW o, Pushed(stack, stack', op, o)
    PROVE  /\ \A q : InCall(q)' <=> q = op \/ InCall(q)
           /\ \A p : Releasing(p)' <=> (op = "release" /\ p = o) \/ Releasing(p)
           /\ \A p : OnStack(p)' <=> p = o \/ OnStack(p)
<1>1. Len(stack) \in Nat /\ Len(stack') = Len(stack) + 1
      /\ 1 \in 1..Len(stack') /\ stack'[1].op = op /\ stack'[1].o = o
  BY DEF Pushed
<1>2. \A n \in 1..Len(stack) : n + 1 \in 1..Len(stack')
      /\ stack'[n + 1].op = stack[n].op /\ stack'[n + 1].o = stack[n].o
  BY <1>1 DEF Pushed
<1>3. \A n \in 1..Len(stack') :
        \/ stack'[n].op = op /\ stack'[n].o = o
        \/ \E m \in 1..Len(stack) : stack'[n].op = stack[m].op /\ stack'[n].o = stack[m].o
  <2> SUFFICES ASSUME NEW n \in 1..Len(stack'), n # 1
               PROVE  \E m \in 1..Len(stack) :
                        stack'[n].op = stack[m].op /\ stack'[n].o = stack[m].o
    BY Zenon, <1>1
  <2>1. n - 1 \in 1..Len(stack) /\ n = (n - 1) + 1
    BY <1>1
  <2> QED BY Zenon, <1>2, <2>1
<1>7. \A m \in 1..Len(stack) : \E n \in 1..Len(stack') :
        stack'[n].op = stack[m].op /\ stack'[n].o = stack[m].o
  BY <1>2
<1>4. \A q : InCall(q)' <=> q = op \/ InCall(q)
  <2> SUFFICES ASSUME NEW c PROVE InCall(c)' <=> c = op \/ InCall(c)
    BY Zenon
  <2>1. ASSUME InCall(c)' PROVE c = op \/ InCall(c)
    BY Zenon, <1>3, <2>1 DEF InCall
  <2>2. ASSUME c = op PROVE InCall(c)'
    BY Zenon, <1>1, <2>2 DEF InCall
  <2>3. ASSUME InCall(c) PROVE InCall(c)'
    BY Zenon, <1>7, <2>3 DEF InCall
  <2> QED BY Zenon, <2>1, <2>2, <2>3
<1>5. \A p : Releasing(p)' <=> (op = "release" /\ p = o) \/ Releasing(p)
  <2> SUFFICES ASSUME NEW p
               PROVE  Releasing(p)' <=> (op = "release" /\ p = o) \/ Releasing(p)
    OBVIOUS
  <2>1. ASSUME Releasing(p)' PROVE (op = "release" /\ p = o) \/ Releasing(p)
    BY <1>3, <2>1 DEF Releasing
  <2>2. ASSUME op = "release" /\ p = o PROVE Releasing(p)'
    BY <1>1, <2>2 DEF Releasing
  <2>3. ASSUME Releasing(p) PROVE Releasing(p)'
    BY Zenon, <1>7, <2>3 DEF Releasing
  <2> QED BY <2>1, <2>2, <2>3
<1>6. \A p : OnStack(p)' <=> p = o \/ OnStack(p)
  <2> SUFFICES ASSUME NEW p PROVE OnStack(p)' <=> p = o \/ OnStack(p)
    BY Zenon
  <2>1. ASSUME OnStack(p)' PROVE p = o \/ OnStack(p)
    BY Zenon, <1>3, <2>1 DEF OnStack
  <2>2. ASSUME p = o PROVE OnStack(p)'
    BY Zenon, <1>1, <2>2 DEF OnStack
  <2>3. ASSUME OnStack(p) PROVE OnStack(p)'
    BY Zenon, <1>7, <2>3 DEF OnStack
  <2> QED BY Zenon, <2>1, <2>2, <2>3
<1> QED
  BY Zenon, <1>4, <1>5, <1>6

(* A return leaves those below it. *)
LEMMA PoppedFacts ==
    ASSUME stack \in Seq(Calls), Popped(stack, stack')
    PROVE  /\ \A q : InCall(q) <=> q = stack[1].op \/ InCall(q)'
           /\ \A p : Releasing(p) <=> (stack[1].op = "release" /\ p = stack[1].o)
                                    \/ Releasing(p)'
           /\ \A p : OnStack(p) <=> p = stack[1].o \/ OnStack(p)'
<1>1. Len(stack) \in Nat /\ Len(stack) >= 1 /\ Len(stack') = Len(stack) - 1
      /\ 1 \in 1..Len(stack)
  BY DEF Popped
<1>2. \A n \in 1..Len(stack') : n + 1 \in 1..Len(stack)
      /\ stack'[n].op = stack[n + 1].op /\ stack'[n].o = stack[n + 1].o
  BY <1>1 DEF Popped
<1>3. \A n \in 1..Len(stack) :
        \/ stack[n].op = stack[1].op /\ stack[n].o = stack[1].o
        \/ \E m \in 1..Len(stack') : stack[n].op = stack'[m].op /\ stack[n].o = stack'[m].o
  <2> SUFFICES ASSUME NEW n \in 1..Len(stack), n # 1
               PROVE  \E m \in 1..Len(stack') :
                        stack[n].op = stack'[m].op /\ stack[n].o = stack'[m].o
    BY <1>1
  <2>1. n - 1 \in 1..Len(stack') /\ n = (n - 1) + 1
    BY <1>1
  <2> QED BY <1>2, <2>1
<1>7. \A m \in 1..Len(stack') : \E n \in 1..Len(stack) :
        stack[n].op = stack'[m].op /\ stack[n].o = stack'[m].o
  BY <1>2
<1>4. \A q : InCall(q) <=> q = stack[1].op \/ InCall(q)'
  <2> SUFFICES ASSUME NEW q
               PROVE  InCall(q) <=> (q = stack[1].op) \/ InCall(q)'
    OBVIOUS
  <2>1. ASSUME InCall(q) PROVE (q = stack[1].op) \/ InCall(q)'
    BY <1>3, <2>1 DEF InCall
  <2>2. ASSUME q = stack[1].op PROVE InCall(q)
    BY <1>1, <2>2 DEF InCall
  <2>3. ASSUME InCall(q)' PROVE InCall(q)
    BY Zenon, <1>7, <2>3 DEF InCall
  <2> QED BY <2>1, <2>2, <2>3
<1>5. \A p : Releasing(p) <=> (stack[1].op = "release" /\ p = stack[1].o)
                              \/ Releasing(p)'
  <2> SUFFICES ASSUME NEW p
               PROVE  Releasing(p) <=> (stack[1].op = "release" /\ p = stack[1].o) \/ Releasing(p)'
    OBVIOUS
  <2>1. ASSUME Releasing(p) PROVE (stack[1].op = "release" /\ p = stack[1].o) \/ Releasing(p)'
    BY <1>3, <2>1 DEF Releasing
  <2>2. ASSUME stack[1].op = "release" /\ p = stack[1].o PROVE Releasing(p)
    BY <1>1, <2>2 DEF Releasing
  <2>3. ASSUME Releasing(p)' PROVE Releasing(p)
    BY Zenon, <1>7, <2>3 DEF Releasing
  <2> QED BY <2>1, <2>2, <2>3
<1>6. \A p : OnStack(p) <=> p = stack[1].o \/ OnStack(p)'
  <2> SUFFICES ASSUME NEW p
               PROVE  OnStack(p) <=> (p = stack[1].o) \/ OnStack(p)'
    OBVIOUS
  <2>1. ASSUME OnStack(p) PROVE (p = stack[1].o) \/ OnStack(p)'
    BY <1>3, <2>1 DEF OnStack
  <2>2. ASSUME p = stack[1].o PROVE OnStack(p)
    BY <1>1, <2>2 DEF OnStack
  <2>3. ASSUME OnStack(p)' PROVE OnStack(p)
    BY <1>7, <2>3 DEF OnStack
  <2> QED BY <2>1, <2>2, <2>3
<1> QED
  BY <1>4, <1>5, <1>6

(* The calls of a step that puts none in front stay in agreement with the  *)
(* streams, if the streams in them stay alive and those under release in   *)
(* nobody's hands.                                                         *)
LEMMA SameKeepsCalls ==
    ASSUME TypeOK, CallsAgree, SameCalls(stack, stack'),
           \A o \in Objs : OnStack(o) => obj'[o].mem = "live",
           \A o \in Objs : Releasing(o) => ~obj'[o].held
    PROVE  CallsAgree'
<1>1. \A n \in 1..Len(stack') : n \in 1..Len(stack) /\ stack'[n].op = stack[n].op
      /\ stack'[n].o = stack[n].o /\ stack[n] \in Calls
  BY DEF SameCalls, TypeOK
<1>2. \A n \in 1..Len(stack) : stack[n].o # 0 => stack[n].o \in Objs /\ OnStack(stack[n].o)
  BY CallType DEF OnStack, TypeOK
<1>3. CallsAreLive'
  BY <1>1, <1>2 DEF CallsAreLive
<1>4. \A n \in 1..Len(stack) : stack[n].op = "release" => Releasing(stack[n].o)
  BY DEF Releasing
<1> QED
  BY <1>1, <1>2, <1>3, <1>4, Len(stack') = Len(stack) DEF CallsAgree, SameCalls

(* A return keeps the agreement of calls and streams. *)
LEMMA PoppedKeepsCalls ==
    ASSUME TypeOK, CallsAgree, Popped(stack, stack'),
           \A o \in Objs : OnStack(o)' => obj'[o].mem = "live",
           \A o \in Objs : Releasing(o)' => ~obj'[o].held
    PROVE  CallsAgree'
<1>0. Len(stack) \in Nat /\ Len(stack') \in Nat /\ Len(stack') = Len(stack) - 1
  BY DEF Popped, TypeOK
<1>1. \A n \in 1..Len(stack') : n + 1 \in 1..Len(stack)
      /\ stack'[n].op = stack[n + 1].op /\ stack'[n].o = stack[n + 1].o
  BY <1>0 DEF Popped
<1>2. \A n \in 1..Len(stack') : stack'[n].o # 0 => obj'[stack'[n].o].mem = "live"
  <2> SUFFICES ASSUME NEW n \in 1..Len(stack'), stack'[n].o # 0
               PROVE  obj'[stack'[n].o].mem = "live"
    OBVIOUS
  <2>1. PICK p \in Objs : p = stack'[n].o
    BY CallType DEF Popped
  <2>2. OnStack(p)'
    BY <2>1 DEF OnStack
  <2> QED BY <2>1, <2>2
<1>3. CallsAreLive'
  BY <1>2 DEF CallsAreLive
<1>8. \A n \in 1..Len(stack') :
         stack'[n].op \in {"write", "close", "release"} => stack'[n].o # 0
  BY SMTT(20), Z3T(20), <1>1 DEF CallsAgree
<1>4. \A n \in 1..Len(stack') : stack'[n].op = "release" => ~obj'[stack'[n].o].held
  <2> SUFFICES ASSUME NEW n \in 1..Len(stack'), stack'[n].op = "release"
               PROVE  ~obj'[stack'[n].o].held
    OBVIOUS
  <2>1. PICK p \in Objs : p = stack'[n].o
    BY CallType, <1>8 DEF Popped
  <2>2. Releasing(p)'
    BY <2>1 DEF Releasing
  <2> QED BY <2>1, <2>2
<1>5. \A m, n \in 1..Len(stack') : m + 1 = n + 1 => m = n
  BY <1>0
<1>6. \A n \in 1..Len(stack') : stack'[n].op = "release" =>
         \A m \in 1..Len(stack') : stack'[m].o = stack'[n].o => m = n
  BY <1>1, <1>5 DEF CallsAgree
<1>7. \A m, n \in 1..Len(stack') :
         stack'[m].op = "sclose" /\ stack'[n].op = "sclose" => m = n
  BY ZenonT(30), <1>1, <1>5 DEF CallsAgree
<1>9. \A n \in 1..Len(stack') : stack'[n].op = "on_broken" => n = Len(stack')
  <2> SUFFICES ASSUME NEW n \in 1..Len(stack'), stack'[n].op = "on_broken"
               PROVE  n = Len(stack')
    OBVIOUS
  <2>1. n + 1 = Len(stack)
    BY <1>1 DEF CallsAgree
  <2> QED BY <2>1, <1>0
<1> QED
  BY <1>3, <1>4, <1>6, <1>7, <1>8, <1>9 DEF CallsAgree

(* A call on a live stream keeps the agreement of calls and streams. *)
LEMMA PushedKeepsCalls ==
    ASSUME TypeOK, CallsAgree, NEW op, NEW o, Pushed(stack, stack', op, o),
           \A p \in Objs : OnStack(p)' => obj'[p].mem = "live",
           \A p \in Objs : Releasing(p)' => ~obj'[p].held,
           op \in {"write", "close", "release"} => o # 0,
           o # 0 => ~Releasing(o),
           op = "release" => ~OnStack(o),
           op = "sclose" => ~InCall("sclose"),
           op = "on_broken" => stack = <<>>
    PROVE  CallsAgree'
<1>0. Len(stack) \in Nat /\ Len(stack') \in Nat /\ Len(stack') = Len(stack) + 1
  BY DEF Pushed, TypeOK
<1>1. \A n \in 1..Len(stack) :
      stack'[n + 1].op = stack[n].op /\ stack'[n + 1].o = stack[n].o
  BY <1>0 DEF Pushed
<1>2. \A n \in 1..Len(stack') : n # 1 => n - 1 \in 1..Len(stack)
      /\ stack'[n].op = stack[n - 1].op /\ stack'[n].o = stack[n - 1].o
  <2> SUFFICES ASSUME NEW n \in 1..Len(stack'), n # 1
               PROVE  n - 1 \in 1..Len(stack)
                 /\ stack'[n].op = stack[n - 1].op /\ stack'[n].o = stack[n - 1].o
    OBVIOUS
  <2>1. n - 1 \in 1..Len(stack) /\ n = (n - 1) + 1
    BY <1>0
  <2> QED BY <1>1, <2>1
<1>3. stack'[1].op = op /\ stack'[1].o = o
  BY DEF Pushed
<1>9. \A n \in 1..Len(stack') : stack'[n].o # 0 => obj'[stack'[n].o].mem = "live"
  <2> SUFFICES ASSUME NEW n \in 1..Len(stack'), stack'[n].o # 0
               PROVE  obj'[stack'[n].o].mem = "live"
    OBVIOUS
  <2>1. PICK p \in Objs : p = stack'[n].o
    BY CallType DEF Pushed
  <2>2. OnStack(p)'
    BY <2>1 DEF OnStack
  <2> QED BY <2>1, <2>2
<1>4. CallsAreLive'
  BY <1>9 DEF CallsAreLive
<1>5. \A n \in 1..Len(stack') :
         stack'[n].op \in {"write", "close", "release"} => stack'[n].o # 0
  BY <1>2, <1>3 DEF CallsAgree
<1>6. \A n \in 1..Len(stack') : stack'[n].op = "release" => ~obj'[stack'[n].o].held
  <2> SUFFICES ASSUME NEW n \in 1..Len(stack'), stack'[n].op = "release"
               PROVE  ~obj'[stack'[n].o].held
    OBVIOUS
  <2>1. PICK p \in Objs : p = stack'[n].o
    BY CallType, <1>5 DEF Pushed
  <2>2. Releasing(p)'
    BY <2>1 DEF Releasing
  <2> QED BY <2>1, <2>2
<1>7. \A n \in 1..Len(stack') : stack'[n].op = "release" =>
         \A m \in 1..Len(stack') : stack'[m].o = stack'[n].o => m = n
  <2> SUFFICES ASSUME NEW n \in 1..Len(stack'), stack'[n].op = "release",
                      NEW m \in 1..Len(stack'), stack'[m].o = stack'[n].o
               PROVE  m = n
    OBVIOUS
  <2>1. CASE n = 1 /\ m = 1
    BY <2>1
  <2>2. CASE n = 1 /\ m # 1
    <3>1. o = stack[m - 1].o /\ m - 1 \in 1..Len(stack) /\ op = "release"
      BY <2>2, <1>2, <1>3
    <3> QED BY <3>1 DEF OnStack
  <2>3. CASE n # 1 /\ m = 1
    <3>1. stack'[n].o # 0
      BY <1>5
    <3>2. o # 0 /\ Releasing(o)
      BY <2>3, <3>1, <1>2, <1>3 DEF Releasing
    <3> QED BY <3>2
  <2>4. CASE n # 1 /\ m # 1
    <3>1. m - 1 \in 1..Len(stack) /\ n - 1 \in 1..Len(stack)
          /\ stack[n - 1].op = "release" /\ stack[m - 1].o = stack[n - 1].o
      BY <2>4, <1>2
    <3>2. m - 1 = n - 1
      BY <3>1 DEF CallsAgree
    <3> QED BY <3>2, <1>0
  <2> QED BY <2>1, <2>2, <2>3, <2>4
<1>8. \A m, n \in 1..Len(stack') :
         stack'[m].op = "sclose" /\ stack'[n].op = "sclose" => m = n
  <2> SUFFICES ASSUME NEW m \in 1..Len(stack'), NEW n \in 1..Len(stack'),
                      stack'[m].op = "sclose", stack'[n].op = "sclose", m # n
               PROVE  FALSE
    OBVIOUS
  <2>1. CASE m = 1 \/ n = 1
    BY <2>1, <1>2, <1>3 DEF InCall
  <2>2. CASE m # 1 /\ n # 1
    <3>1. m - 1 = n - 1
      BY ZenonT(30), <2>2, <1>2 DEF CallsAgree
    <3> QED BY <3>1, <1>0
  <2> QED BY <2>1, <2>2
<1>10. \A n \in 1..Len(stack') : stack'[n].op = "on_broken" => n = Len(stack')
  <2> SUFFICES ASSUME NEW n \in 1..Len(stack'), stack'[n].op = "on_broken"
               PROVE  n = Len(stack')
    OBVIOUS
  <2>1. CASE n = 1
    BY <2>1, <1>0, <1>3
  <2>2. CASE n # 1
    <3>1. n - 1 = Len(stack)
      BY <2>2, <1>2 DEF CallsAgree
    <3> QED BY <3>1, <1>0
  <2> QED BY <2>1, <2>2
<1> QED
  BY <1>4, <1>5, <1>6, <1>7, <1>8, <1>10 DEF CallsAgree
-----------------------------------------------------------------------------
(* Each step keeps the invariant.  First the steps that only call, send    *)
(* and return: the table, the entries and the timers stay as they are.     *)

(* A step that changes the calls in progress alone. *)
LEMMA CallsOnly ==
    ASSUME IInv, UNCHANGED <<life, table>>, CallsAgree', stack' \in Seq(Calls),
           sb' \in [broken : BOOLEAN, conns : BOOLEAN],
           InCall("sclose")' <=> InCall("sclose"),
           InCall("on_broken")' <=> InCall("on_broken"),
           \A o \in Objs : Releasing(o)' <=> Releasing(o),
           \A o \in Objs : OnStack(o)' => OnStack(o) \/ obj[o].held,
           session = "up" \/ stack' = stack
    PROVE  IInv'
<1> USE DEF life, table
<1>1. TypeOK'
  BY DEF IInv, TypeOK
<1>2. TableAgrees'
  BY DEF IInv, TableAgrees, Active
<1>3. LifeAgrees'
  BY DEF IInv, LifeAgrees
<1>4. OwnerAgrees'
  BY DEF IInv, OwnerAgrees
<1>5. Owned'
  BY DEF IInv, Owned
<1>6. CountIsExact' /\ IdleIsTimed'
  BY DEF IInv, CountIsExact, IdleIsTimed, ActiveIds
<1> QED
  BY <1>1, <1>2, <1>3, <1>4, <1>5, <1>6 DEF IInv, SessionAssumption

(* What a stream in a call, or in the owner's hands, can rely on. *)
LEMMA LiveFacts ==
    ASSUME IInv
    PROVE  /\ \A o \in Objs : OnStack(o) => obj[o].mem = "live"
           /\ \A o \in Objs : Releasing(o) => ~obj[o].held
           /\ \A o \in Objs : Releasing(o) => OnStack(o)
           /\ \A o \in Objs : obj[o].held => obj[o].mem = "live"
           /\ 0 \notin Objs /\ stack \in Seq(Calls)
<1>1. 0 \notin Objs /\ stack \in Seq(Calls)
  BY DEF Objs, IInv, TypeOK, SessionAssumption
<1> QED
  BY <1>1 DEF IInv, CallsAgree, CallsAreLive, OwnerAgrees, OnStack, Releasing

(* A call is put in front of the calls in progress, which may be marked. *)
LEMMA PushOnly ==
    ASSUME IInv, UNCHANGED <<life, table, sb>>, session = "up",
           NEW op, NEW o, Pushed(stack, stack', op, o),
           \/ op \in {"write", "close"} /\ o \in Objs /\ obj[o].held
           \/ op = "on_writable" /\ o = 0
    PROVE  IInv'
<1>1. UNCHANGED <<life, table>> /\ obj' = obj /\ sb' = sb
  BY DEF table
<1>2. /\ \A q : InCall(q)' <=> q = op \/ InCall(q)
      /\ \A p : Releasing(p)' <=> (op = "release" /\ p = o) \/ Releasing(p)
      /\ \A p : OnStack(p)' <=> p = o \/ OnStack(p)
  BY LiveFacts, PushedFacts
<1>3. /\ InCall("sclose")' <=> InCall("sclose")
      /\ InCall("on_broken")' <=> InCall("on_broken")
      /\ \A p \in Objs : Releasing(p)' <=> Releasing(p)
      /\ \A p \in Objs : OnStack(p)' => OnStack(p) \/ obj[p].held
  BY <1>2, LiveFacts
<1>4. CallsAgree'
  <2>1. \A p \in Objs : OnStack(p)' => obj'[p].mem = "live"
    BY <1>1, <1>2, LiveFacts
  <2>2. \A p \in Objs : Releasing(p)' => ~obj'[p].held
    BY <1>1, <1>3, LiveFacts
  <2>3. /\ op \in {"write", "close", "release"} => o # 0
        /\ o # 0 => ~Releasing(o)
        /\ op # "release" /\ op # "sclose" /\ op # "on_broken"
    BY LiveFacts
  <2> QED BY SMTT(20), Z3T(20), <2>1, <2>2, <2>3, PushedKeepsCalls DEF IInv
<1>5. stack' \in Seq(Calls) /\ sb' \in [broken : BOOLEAN, conns : BOOLEAN]
  BY <1>1 DEF Pushed, IInv, TypeOK
<1> QED
  BY <1>1, <1>3, <1>4, <1>5, CallsOnly

(* The innermost call returns, and has nothing left to do. *)
LEMMA PopOnly ==
    ASSUME IInv, UNCHANGED <<life, table, sb>>, stack # <<>>,
           stack' = Tail(stack), stack[1].op \in {"write", "on_writable"}
    PROVE  IInv'
<1>1. UNCHANGED <<life, table>> /\ obj' = obj /\ sb' = sb
  BY DEF table
<1>2. Popped(stack, stack')
  BY LiveFacts, TailIsPopped
<1>3. /\ \A q : InCall(q) <=> q = stack[1].op \/ InCall(q)'
      /\ \A p : Releasing(p) <=> (stack[1].op = "release" /\ p = stack[1].o)
                                 \/ Releasing(p)'
      /\ \A p : OnStack(p) <=> p = stack[1].o \/ OnStack(p)'
  BY <1>2, LiveFacts, PoppedFacts
<1>4. /\ InCall("sclose")' <=> InCall("sclose")
      /\ InCall("on_broken")' <=> InCall("on_broken")
      /\ \A p \in Objs : Releasing(p)' <=> Releasing(p)
      /\ \A p \in Objs : OnStack(p)' => OnStack(p) \/ obj[p].held
  BY <1>3
<1>5. CallsAgree'
  <2>1. \A p \in Objs : OnStack(p)' => obj'[p].mem = "live"
    BY <1>1, <1>3, LiveFacts
  <2>2. \A p \in Objs : Releasing(p)' => ~obj'[p].held
    BY <1>1, <1>4, LiveFacts
  <2> QED BY <1>2, <2>1, <2>2, PoppedKeepsCalls DEF IInv
<1>6. stack' \in Seq(Calls) /\ sb' \in [broken : BOOLEAN, conns : BOOLEAN]
  BY <1>1, <1>2 DEF Popped, IInv, TypeOK
<1>7. session = "up"
  BY DEF IInv, LifeAgrees, TypeOK
<1> QED
  BY <1>1, <1>4, <1>5, <1>6, <1>7, CallsOnly

(* A send to a connection returns. *)
LEMMA SinkReturnsKeepsIInv ==
    ASSUME IInv, SinkReturns
    PROVE  IInv'
<1>1. UNCHANGED <<life, table>> /\ obj' = obj /\ sb' = sb /\ stack # <<>>
  BY DEF SinkReturns, Sending, Idle, table
<1>2. SameCalls(stack, stack')
  BY Zenon, <1>1, LiveFacts, SentIsSame DEF SinkReturns, SentTop
<1>3. /\ \A op : InCall(op)' <=> InCall(op)
      /\ \A o : Releasing(o)' <=> Releasing(o)
      /\ \A o : OnStack(o)' <=> OnStack(o)
  BY <1>2, LiveFacts, SameFacts
<1>4. CallsAgree'
  BY <1>1, <1>2, LiveFacts, SameKeepsCalls DEF IInv
<1>5. stack' \in Seq(Calls) /\ sb' \in [broken : BOOLEAN, conns : BOOLEAN]
  BY <1>1, <1>2 DEF SameCalls, IInv, TypeOK
<1>6. session = "up"
  BY <1>1 DEF IInv, LifeAgrees, TypeOK
<1> QED
  BY <1>1, <1>3, <1>4, <1>5, <1>6, CallsOnly

(* cloak_session_add_conn. *)
LEMMA AddConnKeepsIInv ==
    ASSUME IInv, AddConn
    PROVE  IInv'
<1>1. UNCHANGED <<life, table>> /\ obj' = obj /\ stack' = stack
      /\ sb' = [sb EXCEPT !.conns = TRUE]
  BY DEF AddConn, table
<1>2. SameCalls(stack, stack')
  BY <1>1, LiveFacts, SameIsSame
<1>3. /\ \A op : InCall(op)' <=> InCall(op)
      /\ \A o : Releasing(o)' <=> Releasing(o)
      /\ \A o : OnStack(o)' <=> OnStack(o)
  BY <1>2, LiveFacts, SameFacts
<1>4. CallsAgree'
  BY <1>1, <1>2, LiveFacts, SameKeepsCalls DEF IInv
<1>5. stack' \in Seq(Calls) /\ sb' \in [broken : BOOLEAN, conns : BOOLEAN]
  BY Zenon, <1>1 DEF IInv, TypeOK
<1> QED
  BY <1>1, <1>3, <1>4, <1>5, CallsOnly
(* A call in front of an unmarked stack. *)
LEMMA PushFacts ==
    ASSUME IInv, NEW op, NEW o \in Objs \cup {0}, Push(op, o),
           op \in {"write", "close", "release", "sclose", "on_writable", "on_broken"}
    PROVE  Pushed(stack, stack', op, o)
<1> DEFINE c == [op |-> op, o |-> o, sent |-> FALSE]
<1>1. c \in Calls /\ c.op = op /\ c.o = o
  BY DEF Calls
<1>2. stack' = <<c>> \o stack
  BY DEF Push
<1> HIDE DEF c
<1>3. SameCalls(stack, stack) /\ stack \in Seq(Calls)
  BY LiveFacts, SameIsSame
<1>4. Pushed(stack, <<c>> \o stack, c.op, c.o)
  BY <1>1, <1>3, PushIsPushed
<1> QED
  BY <1>1, <1>2, <1>4

(* cloak_stream_write starts. *)
LEMMA WriteStreamKeepsIInv ==
    ASSUME IInv, NEW o \in Objs, WriteStream(o)
    PROVE  IInv'
<1> DEFINE c == [op |-> "write", o |-> o, sent |-> FALSE]
           r == IF Idle THEN <<>> ELSE SentTop
<1>1. c \in Calls /\ c.op = "write" /\ c.o = o
  BY DEF Calls
<1>2. stack' = <<c>> \o r /\ UNCHANGED <<life, table, sb>> /\ session = "up"
      /\ obj[o].held
  BY DEF WriteStream, MayUse
<1>3. stack \in Seq(Calls)
  BY LiveFacts
<1>4. SameCalls(stack, r)
  <2>1. CASE Idle
    BY Zenon, <2>1, <1>3, SameIsSame DEF Idle
  <2>2. CASE ~Idle
    BY <2>2, <1>3, SentIsSame DEF Idle, SentTop
  <2> QED BY <2>1, <2>2
<1> HIDE DEF c, r
<1>5. Pushed(stack, <<c>> \o r, c.op, c.o)
  BY <1>1, <1>3, <1>4, PushIsPushed
<1>6. Pushed(stack, stack', "write", o)
  BY <1>1, <1>2, <1>5
<1> QED
  BY <1>2, <1>6, PushOnly

(* cloak_session_close_stream starts. *)
LEMMA CloseStreamKeepsIInv ==
    ASSUME IInv, NEW o \in Objs, CloseStream(o)
    PROVE  IInv'
<1>1. UNCHANGED <<life, table, sb>> /\ session = "up" /\ obj[o].held
  BY DEF CloseStream, MayUse
<1>2. Pushed(stack, stack', "close", o)
  BY PushFacts DEF CloseStream
<1> QED
  BY <1>1, <1>2, PushOnly

(* A connection drains while a write is in progress. *)
LEMMA SinkDrainsKeepsIInv ==
    ASSUME IInv, SinkDrains
    PROVE  IInv'
<1> DEFINE c == [op |-> "on_writable", o |-> 0, sent |-> FALSE]
<1>1. c \in Calls /\ c.op = "on_writable" /\ c.o = 0
  BY DEF Calls
<1>2. stack' = <<c>> \o SentTop /\ UNCHANGED <<life, table, sb>>
      /\ session = "up" /\ stack # <<>>
  BY DEF SinkDrains, Sending, Idle
<1> HIDE DEF c
<1>3. stack \in Seq(Calls)
  BY LiveFacts
<1>4. SameCalls(stack, SentTop)
  BY <1>2, <1>3, SentIsSame DEF SentTop
<1>5. Pushed(stack, <<c>> \o SentTop, c.op, c.o)
  BY <1>1, <1>3, <1>4, PushIsPushed
<1>6. Pushed(stack, stack', "on_writable", 0)
  BY <1>1, <1>2, <1>5
<1> QED
  BY <1>2, <1>6, PushOnly

(* A connection drains between two calls. *)
LEMMA ConnDrainsKeepsIInv ==
    ASSUME IInv, ConnDrains
    PROVE  IInv'
<1>1. UNCHANGED <<life, table, sb>> /\ session = "up"
  BY DEF ConnDrains
<1>2. Pushed(stack, stack', "on_writable", 0)
  BY PushFacts DEF ConnDrains
<1> QED
  BY <1>1, <1>2, PushOnly

(* cloak_stream_write returns. *)
LEMMA WriteReturnsKeepsIInv ==
    ASSUME IInv, WriteReturns
    PROVE  IInv'
  BY PopOnly DEF WriteReturns, Return, Running, Idle, Top

(* on_writable returns. *)
LEMMA OnWritableReturnsKeepsIInv ==
    ASSUME IInv, OnWritableReturns
    PROVE  IInv'
  BY PopOnly DEF OnWritableReturns, Running, Idle, Top

-----------------------------------------------------------------------------
(* The steps towards the end of the session that leave the table alone. *)

(* A step that changes the session's life and leaves its streams alone. *)
LEMMA LifeOnly ==
    ASSUME IInv, UNCHANGED table, session' = session, TypeOK', CallsAgree',
           LifeAgrees', IdleIsTimed',
           "sweep" \in timers' /\ ~InCall("on_broken")' =>
               "sweep" \in timers /\ ~InCall("on_broken"),
           "sweep" \in timers => "sweep" \in timers',
           \A o \in Objs : OnStack(o)' => OnStack(o) \/ obj[o].held,
           \A o \in Objs : Releasing(o)' <=> Releasing(o)
    PROVE  IInv'
<1> USE DEF table
<1>1. TableAgrees'
  BY SMTT(20), Z3T(20) DEF IInv, TableAgrees, Active
<1>2. OwnerAgrees'
  BY DEF IInv, OwnerAgrees
<1>3. Owned'
  BY DEF IInv, Owned
<1>4. CountIsExact'
  BY DEF IInv, CountIsExact, ActiveIds
<1> QED
  BY Zenon, <1>1, <1>2, <1>3, <1>4 DEF IInv, SessionAssumption

(* session_passive_close, in whatever call the pool broke. *)
LEMMA PassiveCloseKeepsIInv ==
    ASSUME IInv, session = "up", PassiveClose, SameCalls(stack, stack'),
           UNCHANGED <<session, on_broken, table>>,
           sb' \in [broken : BOOLEAN, conns : BOOLEAN]
    PROVE  IInv'
<1>1. /\ \A op : InCall(op)' <=> InCall(op)
      /\ \A o : Releasing(o)' <=> Releasing(o)
      /\ \A o : OnStack(o)' <=> OnStack(o)
  BY LiveFacts, SameFacts
<1>2. stack' \in Seq(Calls) /\ UNCHANGED table /\ obj' = obj
      /\ active_stream_count' = active_stream_count
  BY SMTT(20), Z3T(20) DEF SameCalls, table
<1>3. CallsAgree'
  BY <1>2, LiveFacts, SameKeepsCalls DEF IInv
<1>4. TypeOK'
  BY Zenon, <1>2 DEF IInv, TypeOK, PassiveClose, table
<1>5. LifeAgrees' /\ IdleIsTimed' /\ ("sweep" \in timers' <=> "sweep" \in timers)
  <2>1. CASE closed
    BY <2>1, <1>1, <1>2 DEF IInv, LifeAgrees, IdleIsTimed, PassiveClose, TypeOK
  <2>2. CASE ~closed
    BY <2>2, <1>1, <1>2 DEF IInv, LifeAgrees, IdleIsTimed, PassiveClose, TypeOK
  <2> QED BY <2>1, <2>2
<1> QED
  BY ZenonT(30), <1>1, <1>2, <1>3, <1>4, <1>5, LifeOnly

(* A send breaks the session. *)
LEMMA SinkBreaksKeepsIInv ==
    ASSUME IInv, SinkBreaks
    PROVE  IInv'
<1>1. SameCalls(stack, stack')
  BY Zenon, LiveFacts, SentIsSame DEF SinkBreaks, Sending, Idle, SentTop
<1>2. sb' \in [broken : BOOLEAN, conns : BOOLEAN]
  BY Zenon DEF SinkBreaks, IInv, TypeOK
<1> QED
  BY <1>1, <1>2, PassiveCloseKeepsIInv DEF SinkBreaks

(* A connection is lost. *)
LEMMA ConnFailsKeepsIInv ==
    ASSUME IInv, ConnFails
    PROVE  IInv'
<1>1. SameCalls(stack, stack')
  BY LiveFacts, SameIsSame DEF ConnFails
<1>2. sb' \in [broken : BOOLEAN, conns : BOOLEAN]
  BY Zenon DEF ConnFails, IInv, TypeOK
<1> QED
  BY <1>1, <1>2, PassiveCloseKeepsIInv DEF ConnFails

(* The peer closes the session. *)
LEMMA SessionFrameKeepsIInv ==
    ASSUME IInv, SessionFrame
    PROVE  IInv'
<1>1. SameCalls(stack, stack')
  BY LiveFacts, SameIsSame DEF SessionFrame
<1>2. sb' \in [broken : BOOLEAN, conns : BOOLEAN]
  BY DEF SessionFrame, IInv, TypeOK
<1> QED
  BY <1>1, <1>2, PassiveCloseKeepsIInv DEF SessionFrame
(* A session_close begins: closed is set, and its frame is yet to be sent. *)
LEMMA CloseBegins ==
    ASSUME IInv, session = "up", ~closed, closed' = TRUE,
           timers' = timers \ {"inactivity"}, Push("sclose", 0),
           UNCHANGED <<session, teardown_timer_id, on_broken, table, sb>>
    PROVE  IInv'
<1>0. Pushed(stack, stack', "sclose", 0)
  BY PushFacts
<1>1. /\ \A q : InCall(q)' <=> q = "sclose" \/ InCall(q)
      /\ \A p : Releasing(p)' <=> Releasing(p)
      /\ \A p : OnStack(p)' <=> p = 0 \/ OnStack(p)
  BY <1>0, LiveFacts, PushedFacts
<1>2. stack' \in Seq(Calls) /\ obj' = obj /\ UNCHANGED table
  BY <1>0 DEF Pushed, table
<1>3. ~InCall("sclose")
  BY DEF IInv, LifeAgrees
<1>4. CallsAgree'
  <2>1. /\ \A p \in Objs : OnStack(p)' => obj'[p].mem = "live"
        /\ \A p \in Objs : Releasing(p)' => ~obj'[p].held
    BY <1>1, <1>2, LiveFacts
  <2> QED BY SMTT(20), Z3T(20), <1>0, <1>3, <2>1, PushedKeepsCalls DEF IInv
<1>5. TypeOK'
  BY SMTT(20), Z3T(20), <1>2 DEF IInv, TypeOK, table
<1>6. LifeAgrees' /\ IdleIsTimed'
  BY <1>1 DEF IInv, LifeAgrees, IdleIsTimed, TypeOK
<1> QED
  BY <1>1, <1>2, <1>4, <1>5, <1>6, LifeOnly, LiveFacts

(* cloak_session_close starts. *)
LEMMA CloseSessionKeepsIInv ==
    ASSUME IInv, CloseSession
    PROVE  IInv'
  BY CloseBegins DEF CloseSession

(* The inactivity timer fires. *)
LEMMA InactivityFiresKeepsIInv ==
    ASSUME IInv, InactivityFires
    PROVE  IInv'
<1>1. CASE active_stream_count = 0 /\ ~closed
  <2>1. session = "up"
    BY DEF IInv, LifeAgrees, TypeOK, InactivityFires
  <2> QED BY <1>1, <2>1, CloseBegins DEF InactivityFires
<1>2. CASE ~(active_stream_count = 0 /\ ~closed)
  <2>1. SameCalls(stack, stack') /\ stack' = stack
    BY <1>2, LiveFacts, SameIsSame DEF InactivityFires
  <2>2. /\ \A op : InCall(op)' <=> InCall(op)
        /\ \A o : Releasing(o)' <=> Releasing(o)
        /\ \A o : OnStack(o)' <=> OnStack(o)
    BY <2>1, LiveFacts, SameFacts
  <2>3. UNCHANGED table /\ obj' = obj /\ active_stream_count' = active_stream_count
    BY SMTT(20), Z3T(20) DEF InactivityFires, table
  <2>4. CallsAgree'
    BY SMTT(20), Z3T(20), <2>1, <2>3, LiveFacts, SameKeepsCalls DEF IInv
  <2>5. TypeOK'
    BY SMTT(20), Z3T(20), <1>2, <2>3 DEF IInv, TypeOK, InactivityFires, table
  <2>6. LifeAgrees' /\ IdleIsTimed'
    BY <1>2, <2>1, <2>2, <2>3 DEF IInv, LifeAgrees, IdleIsTimed, TypeOK, InactivityFires
  <2>7. session' = session /\ ("sweep" \in timers' <=> "sweep" \in timers)
    BY SMTT(20), Z3T(20) DEF InactivityFires
  <2> QED BY <2>2, <2>3, <2>4, <2>5, <2>6, <2>7, LifeOnly
<1> QED
  BY <1>1, <1>2

(* cloak_session_close returns. *)
LEMMA CloseSessionReturnsKeepsIInv ==
    ASSUME IInv, CloseSessionReturns
    PROVE  IInv'
<1>0. Popped(stack, stack') /\ stack[1].op = "sclose" /\ stack # <<>>
  BY SMTT(20), Z3T(20), LiveFacts, TailIsPopped DEF CloseSessionReturns, Return, Running, Idle, Top
<1>1. /\ \A q : InCall(q) <=> q = "sclose" \/ InCall(q)'
      /\ \A p : Releasing(p) <=> Releasing(p)'
      /\ \A p : OnStack(p) <=> p = stack[1].o \/ OnStack(p)'
  BY SMTT(20), Z3T(20), <1>0, LiveFacts, PoppedFacts
<1>2. ~InCall("sclose")'
  <2> SUFFICES ASSUME NEW n \in 1..Len(stack'), stack'[n].op = "sclose"
               PROVE  FALSE
    BY ZenonT(30) DEF InCall
  <2>1. n + 1 \in 1..Len(stack) /\ 1 \in 1..Len(stack) /\ stack[n + 1].op = "sclose"
        /\ n + 1 # 1
    BY <1>0, LiveFacts DEF Popped
  <2> QED BY <2>1, <1>0 DEF IInv, CallsAgree
<1>3. UNCHANGED table /\ obj' = obj /\ stack' \in Seq(Calls)
  BY <1>0 DEF CloseSessionReturns, table, Popped
<1>4. CallsAgree'
  <2>1. /\ \A p \in Objs : OnStack(p)' => obj'[p].mem = "live"
        /\ \A p \in Objs : Releasing(p)' => ~obj'[p].held
    BY <1>1, <1>3, LiveFacts
  <2> QED BY <1>0, <2>1, PoppedKeepsCalls DEF IInv
<1>5. TypeOK'
  BY <1>3 DEF IInv, TypeOK, CloseSessionReturns, table
<1>6. InCall("sclose") /\ (InCall("on_broken")' <=> InCall("on_broken"))
  BY <1>1
<1>7. LifeAgrees'
  BY <1>2, <1>6 DEF IInv, LifeAgrees, TypeOK, CloseSessionReturns
<1>8. IdleIsTimed' /\ ("sweep" \in timers' <=> "sweep" \in timers)
  BY SMTT(20), Z3T(20), <1>6 DEF IInv, LifeAgrees, IdleIsTimed, CloseSessionReturns
<1> QED
  BY SMTT(20), Z3T(20), <1>1, <1>3, <1>4, <1>5, <1>6, <1>7, <1>8, LifeOnly DEF CloseSessionReturns

(* The deferred report of the session's end fires. *)
LEMMA DeferredFiresKeepsIInv ==
    ASSUME IInv, DeferredFires
    PROVE  IInv'
<1>0. Pushed(stack, stack', "on_broken", 0)
  BY PushFacts DEF DeferredFires
<1>1. /\ \A q : InCall(q)' <=> q = "on_broken" \/ InCall(q)
      /\ \A p : Releasing(p)' <=> Releasing(p)
      /\ \A p : OnStack(p)' <=> p = 0 \/ OnStack(p)
  BY <1>0, LiveFacts, PushedFacts
<1>2. stack' \in Seq(Calls) /\ obj' = obj /\ UNCHANGED table
  BY <1>0 DEF Pushed, table, DeferredFires
<1>3. ~InCall("sclose")
  BY DEF InCall, DeferredFires, Idle
<1>4. CallsAgree'
  <2>1. /\ \A p \in Objs : OnStack(p)' => obj'[p].mem = "live"
        /\ \A p \in Objs : Releasing(p)' => ~obj'[p].held
    BY <1>1, <1>2, LiveFacts
  <2> QED BY SMTT(20), Z3T(20), <1>0, <2>1, PushedKeepsCalls DEF IInv, DeferredFires, Idle
<1>5. TypeOK'
  BY SMTT(20), Z3T(20), <1>2 DEF IInv, TypeOK, table, DeferredFires
<1>6. LifeAgrees' /\ IdleIsTimed'
  BY <1>1, <1>3 DEF IInv, LifeAgrees, IdleIsTimed, TypeOK, DeferredFires
<1>7. InCall("on_broken")' /\ "sweep" \in timers' /\ session' = session
  BY <1>1 DEF DeferredFires
<1> QED
  BY <1>1, <1>2, <1>4, <1>5, <1>6, <1>7, LifeOnly, LiveFacts
-----------------------------------------------------------------------------
(* The steps that change the table or the entries. *)

EntryType == [id : Ids \cup {0}, retired : BOOLEAN,
              mem : {"unused", "live", "freed"}, held : BOOLEAN]

(* What the type invariant says of the stream table. *)
LEMMA TableFacts ==
    ASSUME IInv
    PROVE  /\ streams \in Tables /\ obj \in [Objs -> EntryType]
           /\ active_stream_count = Cardinality(ActiveOf(streams))
           /\ \A i \in Ids : streams[i] \in Objs =>
                Active(streams[i]) /\ obj[streams[i]].id = i
           /\ \A o \in Objs : Active(o) => obj[o].id \in Ids /\ streams[obj[o].id] = o
           /\ Absent \notin Objs /\ Tombstone \notin Objs
           /\ SessionAssumption
<1>1. Absent \notin Objs /\ Tombstone \notin Objs
  BY DEF IInv, SessionAssumption, Absent, Tombstone, Objs
<1> QED
  BY <1>1 DEF IInv, TypeOK, Tables, EntryType, CountIsExact, ActiveIds, ActiveOf, TableAgrees

(* An entry with one field set, or two. *)
LEMMA EntryEdit ==
    ASSUME NEW e \in EntryType
    PROVE  /\ [e EXCEPT !.retired = TRUE] \in EntryType
           /\ [e EXCEPT !.retired = TRUE].id = e.id
           /\ [e EXCEPT !.retired = TRUE].held = e.held
           /\ [e EXCEPT !.retired = TRUE].mem = e.mem
           /\ [e EXCEPT !.retired = TRUE].retired = TRUE
           /\ [e EXCEPT !.retired = TRUE, !.mem = "freed"] \in EntryType
           /\ [e EXCEPT !.retired = TRUE, !.mem = "freed"].id = e.id
           /\ [e EXCEPT !.retired = TRUE, !.mem = "freed"].held = e.held
           /\ [e EXCEPT !.retired = TRUE, !.mem = "freed"].mem = "freed"
           /\ [e EXCEPT !.retired = TRUE, !.mem = "freed"].retired = TRUE
  BY Zenon DEF EntryType

(* What session_retire_stream does to the table and the timers. *)
LEMMA RetireFacts ==
    ASSUME CountFacts, IInv, NEW o \in Objs, obj[o].mem = "live", RetireStream(o), session = "up"
    PROVE  /\ streams' \in Tables
           /\ active_stream_count' \in 0..MaxObjs
           /\ active_stream_count' = Cardinality(ActiveOf(streams'))
           /\ timers' \subseteq {"inactivity", "deferred", "sweep"}
           /\ "deferred" \in timers' <=> "deferred" \in timers
           /\ "sweep" \in timers' <=> "sweep" \in timers
           /\ \A i \in Ids : streams'[i] = IF ~obj[o].retired /\ i = obj[o].id
                                           THEN Tombstone ELSE streams[i]
           /\ ~closed /\ active_stream_count' = 0 => "inactivity" \in timers'
<1>1. CASE obj[o].retired
  BY ZenonT(30), <1>1, TableFacts DEF RetireStream, IInv, TypeOK, IdleIsTimed
<1>2. CASE ~obj[o].retired
  <2>1. obj[o].id \in Ids /\ streams[obj[o].id] = o
    BY <1>2, TableFacts DEF Active
  <2>2. /\ streams' = [streams EXCEPT ![obj[o].id] = Tombstone]
        /\ active_stream_count' = active_stream_count - 1
        /\ timers' = IF active_stream_count = 1 /\ ~closed
                     THEN timers \cup {"inactivity"} ELSE timers
    BY <1>2 DEF RetireStream
  <2>3. /\ active_stream_count' = Cardinality(ActiveOf(streams'))
        /\ active_stream_count \in Nat \ {0}
    <3>1. PICK i \in Ids : i = obj[o].id /\ streams[i] \in Objs
      BY <2>1
    <3>2. streams \in Tables /\ SessionAssumption
          /\ active_stream_count = Cardinality(ActiveOf(streams))
      BY TableFacts
    <3>3. /\ Cardinality(ActiveOf([streams EXCEPT ![i] = Tombstone]))
               = Cardinality(ActiveOf(streams)) - 1
          /\ Cardinality(ActiveOf(streams)) \in Nat \ {0}
      BY <3>1, <3>2 DEF CountFacts, Size
    <3> QED BY <2>2, <3>1, <3>2, <3>3
  <2>4. streams' \in Tables
    BY ZenonT(30), <2>2, TableFacts DEF Tables
  <2>5. active_stream_count' \in 0..MaxObjs
    BY <2>2, <2>3 DEF IInv, TypeOK, SessionAssumption
  <2>6. /\ timers' \subseteq {"inactivity", "deferred", "sweep"}
        /\ "deferred" \in timers' <=> "deferred" \in timers
        /\ "sweep" \in timers' <=> "sweep" \in timers
    BY <2>2 DEF IInv, TypeOK
  <2>7. ~closed /\ active_stream_count' = 0 => "inactivity" \in timers'
    BY SMTT(20), Z3T(20), <2>2, <2>3
  <2>8. \A i \in Ids : streams'[i] = IF i = obj[o].id THEN Tombstone ELSE streams[i]
    BY <2>2, TableFacts DEF Tables
  <2> QED BY <1>2, <2>3, <2>4, <2>5, <2>6, <2>7, <2>8
<1> QED
  BY <1>1, <1>2
(* The entry of a stream that is retired, against what it was; whether its *)
(* memory stays, with the owner or a call, or goes; and the calls.         *)
EntryRetired(o) ==
    /\ obj' \in [Objs -> EntryType]
    /\ \A p \in Objs : p # o => obj'[p] = obj[p]
    /\ obj'[o].id = obj[o].id /\ (obj'[o].held <=> obj[o].held) /\ obj'[o].retired

StaysOrGoes(o) ==
    \/ obj'[o].mem = "live" /\ (obj[o].held \/ Releasing(o) \/ ~closed)
         /\ (Releasing(o)' <=> Releasing(o))
    \/ obj'[o].mem = "freed" /\ ~obj[o].held /\ ~OnStack(o)'

CallsBut(o) ==
    /\ CallsAgree' /\ stack' \in Seq(Calls)
    /\ InCall("sclose")' <=> InCall("sclose")
    /\ InCall("on_broken")' <=> InCall("on_broken")
    /\ \A p \in Objs : p # o => (Releasing(p)' <=> Releasing(p))
    /\ \A p \in Objs : OnStack(p)' => OnStack(p)

(* A stream is retired: its entry stays with the owner, or is freed when   *)
(* its last call returns.                                                  *)
LEMMA RetireKeepsIInv ==
    ASSUME CountFacts, IInv, NEW o \in Objs, obj[o].mem = "live", RetireStream(o), session = "up",
           UNCHANGED <<session, closed, teardown_timer_id, on_broken,
                       next_stream_id, sb>>,
           EntryRetired(o), StaysOrGoes(o), CallsBut(o)
    PROVE  IInv'
<1>0. /\ streams' \in Tables
      /\ active_stream_count' \in 0..MaxObjs
      /\ active_stream_count' = Cardinality(ActiveOf(streams'))
      /\ timers' \subseteq {"inactivity", "deferred", "sweep"}
      /\ "deferred" \in timers' <=> "deferred" \in timers
      /\ "sweep" \in timers' <=> "sweep" \in timers
      /\ ~closed /\ active_stream_count' = 0 => "inactivity" \in timers'
  BY Zenon, RetireFacts
<1>1. \A i \in Ids : streams'[i] = IF ~obj[o].retired /\ i = obj[o].id
                                   THEN Tombstone ELSE streams[i]
  BY Zenon, RetireFacts
<1>2. TypeOK'
  BY SMTT(20), <1>0 DEF IInv, TypeOK, Tables, EntryType, EntryRetired, CallsBut
<1>3. TableAgrees'
  <2>1. ASSUME NEW i \in Ids, streams'[i] \in Objs
        PROVE  Active(streams[i])' /\ obj'[streams'[i]].id = i
    <3>1. streams'[i] = streams[i] /\ Active(streams[i]) /\ obj[streams[i]].id = i
      BY ZenonT(30), <1>1, <2>1, TableFacts
    <3>2. streams[i] # o
      BY <1>1, <2>1, <3>1, TableFacts DEF Active
    <3> QED BY Zenon, <2>1, <3>1, <3>2 DEF Active, EntryRetired
  <2>2. ASSUME NEW p \in Objs, Active(p)'
        PROVE  obj'[p].id \in Ids /\ streams'[obj'[p].id] = p
    <3>1. p # o /\ Active(p)
      BY <2>2 DEF Active, EntryRetired
    <3>2. obj'[p].id = obj[p].id /\ obj[p].id \in Ids /\ streams[obj[p].id] = p
      BY ZenonT(30), <3>1, TableFacts DEF EntryRetired
    <3>3. ~obj[o].retired => obj[p].id # obj[o].id
      BY <3>1, <3>2, TableFacts DEF Active
    <3> QED BY Zenon, <1>1, <3>2, <3>3
  <2> QED BY Zenon, <2>1, <2>2 DEF TableAgrees
<1>4. LifeAgrees'
  BY Zenon, <1>0 DEF IInv, LifeAgrees, CallsBut
<1>5. OwnerAgrees'
  <2>1. \A p \in Objs : obj'[p].held => obj'[p].mem = "live"
    BY LiveFacts DEF EntryRetired, StaysOrGoes
  <2>2. session' = "destroyed" \/ ("sweep" \in timers' /\ ~InCall("on_broken")') =>
         \A p \in Objs : obj'[p].held => obj'[p].retired
    BY ZenonT(30), <1>0 DEF IInv, OwnerAgrees, EntryRetired, CallsBut
  <2>3. \A p \in Objs : OnStack(p)' => obj'[p].held \/ Releasing(p)'
    BY SMTT(20), Z3T(20) DEF IInv, OwnerAgrees, EntryRetired, StaysOrGoes, CallsBut
  <2> QED BY ZenonT(30), <2>1, <2>2, <2>3 DEF OwnerAgrees
<1>6. Owned'
  <2> SUFFICES ASSUME NEW p \in Objs, obj'[p].mem = "live"
               PROVE  \/ obj'[p].held \/ Releasing(p)'
                      \/ (\E i \in Ids : streams'[i] = p) /\ "sweep" \in timers'
    BY Zenon DEF Owned
  <2>1. CASE p = o
    <3>1. ~closed => "sweep" \notin timers
      BY SMTT(20), Z3T(20) DEF IInv, LifeAgrees
    <3>2. obj[o].held \/ Releasing(o) \/ "sweep" \in timers
      BY DEF IInv, Owned
    <3> QED BY ZenonT(30), <2>1, <3>1, <3>2 DEF EntryRetired, StaysOrGoes
  <2>2. CASE p # o
    <3>1. \/ obj[p].held \/ Releasing(p)
          \/ (\E i \in Ids : streams[i] = p) /\ "sweep" \in timers
      BY ZenonT(30), <2>2 DEF IInv, Owned, EntryRetired
    <3>2. \A i \in Ids : streams[i] = p => streams'[i] = p
      BY <1>1, <2>2, TableFacts DEF Active
    <3> QED BY Zenon, <2>2, <3>1, <3>2, <1>0 DEF EntryRetired, CallsBut
  <2> QED BY <2>1, <2>2
<1>7. CountIsExact' /\ IdleIsTimed'
  BY Zenon, <1>0 DEF CountIsExact, ActiveIds, ActiveOf, IdleIsTimed
<1> QED
  BY Zenon, <1>2, <1>3, <1>4, <1>5, <1>6, <1>7 DEF IInv, SessionAssumption, CallsBut

(* A frame for a stream in the table. *)
LEMMA FrameForActiveKeepsIInv ==
    ASSUME CountFacts, IInv, NEW i \in Ids, NEW ends \in BOOLEAN, FrameForActive(i, ends)
    PROVE  IInv'
<1>0. SameCalls(stack, stack')
  BY ZenonT(30), LiveFacts, SameIsSame DEF FrameForActive
<1>1. /\ \A op : InCall(op)' <=> InCall(op)
      /\ \A o : Releasing(o)' <=> Releasing(o)
      /\ \A o : OnStack(o)' <=> OnStack(o)
  BY <1>0, LiveFacts, SameFacts
<1>2. PICK o \in Objs : o = streams[i] /\ obj[o].mem = "live" /\ ~obj[o].retired
  BY TableFacts DEF FrameForActive, Active
<1>3. CASE ends
  <2>1. obj' = [obj EXCEPT ![o].retired = TRUE] /\ RetireStream(o)
    BY <1>2, <1>3 DEF FrameForActive
  <2>2. /\ obj' \in [Objs -> EntryType]
        /\ \A p \in Objs : p # o => obj'[p] = obj[p]
        /\ obj'[o].id = obj[o].id /\ (obj'[o].held <=> obj[o].held)
        /\ obj'[o].retired /\ obj'[o].mem = obj[o].mem
    <3>1. obj[o] \in EntryType /\ obj \in [Objs -> EntryType]
      BY TableFacts
    <3> DEFINE e == [obj[o] EXCEPT !.retired = TRUE]
    <3>2. e \in EntryType /\ e.id = obj[o].id /\ e.held = obj[o].held
        /\ e.mem = obj[o].mem /\ e.retired = TRUE
      BY Zenon, <3>1, EntryEdit
    <3>3. obj' = [obj EXCEPT ![o] = e]
      BY SMTT(20), Z3T(20), <2>1
    <3> HIDE DEF e
    <3> QED BY SMTT(20), Z3T(20), <3>1, <3>2, <3>3
  <2>3. /\ \A p \in Objs : OnStack(p) => obj'[p].mem = "live"
        /\ \A p \in Objs : Releasing(p) => ~obj'[p].held
    BY <2>2, LiveFacts
  <2>4. CallsAgree'
    BY <1>0, <2>3, SameKeepsCalls DEF IInv
  <2>5. stack' \in Seq(Calls) /\ session = "up" /\ ~closed
        /\ UNCHANGED <<session, closed, teardown_timer_id, on_broken,
                       next_stream_id, sb>>
    BY ZenonT(30), <1>0 DEF SameCalls, FrameForActive
  <2>6. obj'[o].mem = "live" /\ ~closed /\ (Releasing(o)' <=> Releasing(o))
    BY <1>1, <1>2, <2>2, <2>5
  <2> QED BY Zenon, <1>1, <1>2, <2>1, <2>2, <2>4, <2>5, <2>6, RetireKeepsIInv
    DEF EntryRetired, StaysOrGoes, CallsBut
<1>4. CASE ~ends
  <2>1. UNCHANGED <<life, table, sb, stack>>
    BY <1>4 DEF FrameForActive, life, table
  <2>2. obj' = obj /\ UNCHANGED <<life, table>>
    BY Zenon, <2>1 DEF table
  <2>3. CallsAgree'
    BY <1>0, <2>2, LiveFacts, SameKeepsCalls DEF IInv
  <2>4. stack' \in Seq(Calls) /\ sb' \in [broken : BOOLEAN, conns : BOOLEAN]
        /\ stack' = stack
    BY SMTT(20), <2>1 DEF IInv, TypeOK
  <2> QED BY <1>1, <2>2, <2>3, <2>4, CallsOnly
<1> QED
  BY <1>3, <1>4

(* The calls that remain when a call on a stream returns. *)
LEMMA ReturnFacts ==
    ASSUME IInv, NEW op \in {"close", "release"}, Return(op)
    PROVE  /\ Popped(stack, stack') /\ stack' \in Seq(Calls)
           /\ Top.o \in Objs /\ obj[Top.o].mem = "live" /\ session = "up"
           /\ OnStack(Top.o)
           /\ \A o \in Objs : op = "release" /\ o = Top.o =>
                Releasing(o) /\ ~OnStack(o)'
           /\ InCall("sclose")' <=> InCall("sclose")
           /\ InCall("on_broken")' <=> InCall("on_broken")
           /\ \A p \in Objs : p # Top.o => (Releasing(p)' <=> Releasing(p))
           /\ op = "close" => \A p \in Objs : Releasing(p)' <=> Releasing(p)
           /\ \A p \in Objs : OnStack(p)' => OnStack(p)
<1>1. stack # <<>> /\ stack[1].op = op /\ stack' = Tail(stack) /\ Top = stack[1]
  BY DEF Return, Running, Idle, Top
<1>2. stack \in Seq(Calls) /\ 1 \in 1..Len(stack)
  BY <1>1, LiveFacts, SeqEmpty
<1>3. Popped(stack, stack') /\ stack' \in Seq(Calls)
  BY ZenonT(30), <1>1, <1>2, TailIsPopped DEF Popped
<1>4. /\ \A q : InCall(q) <=> q = stack[1].op \/ InCall(q)'
      /\ \A p : Releasing(p) <=> (stack[1].op = "release" /\ p = stack[1].o)
                                 \/ Releasing(p)'
      /\ \A p : OnStack(p) <=> p = stack[1].o \/ OnStack(p)'
  BY SMTT(20), <1>2, <1>3, PoppedFacts
<1>5. Top.o \in Objs /\ OnStack(Top.o)
  BY Zenon, <1>1, <1>2, <1>4, CallType DEF IInv, CallsAgree
<1>6. obj[Top.o].mem = "live"
  BY SMTT(20), Z3T(20), <1>5, LiveFacts
<1>7. session = "up"
  BY <1>1 DEF IInv, LifeAgrees, TypeOK
<1>8. ASSUME NEW o \in Objs, op = "release", o = Top.o
      PROVE  Releasing(o) /\ ~OnStack(o)'
  <2>1. o = stack[1].o
    BY SMTT(20), Z3T(20), <1>1, <1>8
  <2>2. Releasing(o)
    BY <1>1, <1>4, <1>8, <2>1
  <2>3. ASSUME NEW n \in 1..Len(stack'), stack'[n].o = o PROVE FALSE
    <3>1. n + 1 \in 1..Len(stack) /\ stack[n + 1].o = stack[1].o /\ n + 1 # 1
      BY SMTT(20), Z3T(20), <1>2, <1>3, <2>1, <2>3 DEF Popped
    <3>2. n + 1 = 1
      BY <1>1, <1>2, <1>8, <3>1 DEF IInv, CallsAgree
    <3> QED BY <3>1, <3>2
  <2>4. \A n \in 1..Len(stack') : stack'[n].o # stack[1].o
    BY <2>1, <2>3
  <2>5. ~OnStack(o)'
    BY Zenon, <2>1, <2>4 DEF OnStack
  <2> QED BY <2>2, <2>5
<1>9. /\ InCall("sclose")' <=> InCall("sclose")
      /\ InCall("on_broken")' <=> InCall("on_broken")
      /\ \A p \in Objs : p # Top.o => (Releasing(p)' <=> Releasing(p))
      /\ op = "close" => \A p \in Objs : Releasing(p)' <=> Releasing(p)
      /\ \A p \in Objs : OnStack(p)' => OnStack(p)
  BY <1>1, <1>4
<1> QED
  BY Zenon, <1>3, <1>5, <1>6, <1>7, <1>8, <1>9

(* cloak_session_close_stream returns. *)
LEMMA CloseStreamReturnsKeepsIInv ==
    ASSUME CountFacts, IInv, CloseStreamReturns
    PROVE  IInv'
<1>1. PICK o \in Objs : o = Top.o
  BY ReturnFacts DEF CloseStreamReturns
<1>2. /\ Popped(stack, stack') /\ stack' \in Seq(Calls)
      /\ obj[o].mem = "live" /\ session = "up" /\ OnStack(o)
      /\ InCall("sclose")' <=> InCall("sclose")
      /\ InCall("on_broken")' <=> InCall("on_broken")
      /\ \A p \in Objs : Releasing(p)' <=> Releasing(p)
      /\ \A p \in Objs : OnStack(p)' => OnStack(p)
  BY <1>1, ReturnFacts DEF CloseStreamReturns
<1>3. obj' = [obj EXCEPT ![o].retired = TRUE] /\ RetireStream(o)
      /\ UNCHANGED <<session, closed, teardown_timer_id, on_broken,
                     next_stream_id, sb>>
  BY <1>1 DEF CloseStreamReturns
<1>4. /\ obj' \in [Objs -> EntryType]
      /\ \A p \in Objs : p # o => obj'[p] = obj[p]
      /\ obj'[o].id = obj[o].id /\ (obj'[o].held <=> obj[o].held)
      /\ obj'[o].retired /\ obj'[o].mem = obj[o].mem
  <2>1. obj[o] \in EntryType /\ obj \in [Objs -> EntryType]
    BY TableFacts
  <2> DEFINE e == [obj[o] EXCEPT !.retired = TRUE]
  <2>2. e \in EntryType /\ e.id = obj[o].id /\ e.held = obj[o].held
      /\ e.mem = obj[o].mem /\ e.retired = TRUE
    BY Zenon, <2>1, EntryEdit
  <2>3. obj' = [obj EXCEPT ![o] = e]
    BY Zenon, <1>3
  <2> HIDE DEF e
  <2> QED BY <2>1, <2>2, <2>3
<1>5. /\ \A p \in Objs : OnStack(p)' => obj'[p].mem = "live"
      /\ \A p \in Objs : Releasing(p)' => ~obj'[p].held
  BY Zenon, <1>2, <1>4, LiveFacts
<1>6. CallsAgree'
  BY Zenon, <1>2, <1>5, PoppedKeepsCalls DEF IInv
<1>7. obj[o].held \/ Releasing(o)
  BY ZenonT(30), <1>2 DEF IInv, OwnerAgrees
<1>8. obj'[o].mem = "live" /\ (obj[o].held \/ Releasing(o) \/ ~closed)
      /\ (Releasing(o)' <=> Releasing(o))
  BY <1>2, <1>4, <1>7
<1> QED
  BY Zenon, <1>2, <1>3, <1>4, <1>6, <1>8, RetireKeepsIInv DEF EntryRetired, StaysOrGoes, CallsBut

(* cloak_session_release_stream returns. *)
LEMMA ReleaseStreamReturnsKeepsIInv ==
    ASSUME CountFacts, IInv, ReleaseStreamReturns
    PROVE  IInv'
<1>1. PICK o \in Objs : o = Top.o
  BY ReturnFacts DEF ReleaseStreamReturns
<1>2. /\ Popped(stack, stack') /\ stack' \in Seq(Calls)
      /\ obj[o].mem = "live" /\ session = "up" /\ Releasing(o) /\ ~OnStack(o)'
      /\ InCall("sclose")' <=> InCall("sclose")
      /\ InCall("on_broken")' <=> InCall("on_broken")
      /\ \A p \in Objs : p # o => (Releasing(p)' <=> Releasing(p))
      /\ \A p \in Objs : OnStack(p)' => OnStack(p)
  BY <1>1, ReturnFacts DEF ReleaseStreamReturns
<1>3. obj' = [obj EXCEPT ![o].retired = TRUE, ![o].mem = "freed"] /\ RetireStream(o)
      /\ UNCHANGED <<session, closed, teardown_timer_id, on_broken,
                     next_stream_id, sb>>
  BY <1>1 DEF ReleaseStreamReturns
<1>4. /\ obj' \in [Objs -> EntryType]
      /\ \A p \in Objs : p # o => obj'[p] = obj[p]
      /\ obj'[o].id = obj[o].id /\ (obj'[o].held <=> obj[o].held)
      /\ obj'[o].retired /\ obj'[o].mem = "freed"
  <2>1. obj[o] \in EntryType /\ obj \in [Objs -> EntryType]
    BY TableFacts
  <2> DEFINE e == [obj[o] EXCEPT !.retired = TRUE, !.mem = "freed"]
  <2>2. e \in EntryType /\ e.id = obj[o].id /\ e.held = obj[o].held
      /\ e.mem = "freed" /\ e.retired = TRUE
    BY Zenon, <2>1, EntryEdit
  <2>3. obj' = [obj EXCEPT ![o] = e]
    BY ZenonT(30), <1>3
  <2> HIDE DEF e
  <2> QED BY <2>1, <2>2, <2>3
<1>5. ~obj[o].held
  BY ZenonT(30), <1>2, LiveFacts
<1>6. /\ \A p \in Objs : OnStack(p)' => obj'[p].mem = "live"
      /\ \A p \in Objs : Releasing(p)' => ~obj'[p].held
  BY <1>2, <1>4, <1>5, LiveFacts
<1>7. CallsAgree'
  BY Zenon, <1>2, <1>6, PoppedKeepsCalls DEF IInv
<1> QED
  BY <1>2, <1>3, <1>4, <1>5, <1>7, RetireKeepsIInv DEF EntryRetired, StaysOrGoes, CallsBut
(* A new entry goes into the table, or into the owner's hands only when    *)
(* its first frame already ended the stream.                               *)
LEMMA InsertKeepsIInv ==
    ASSUME CountFacts, IInv, session = "up", ~closed, NEW o \in Objs, obj[o].mem = "unused",
           NEW i \in Ids, streams[i] \notin Objs, NEW ends \in BOOLEAN,
           obj' = [obj EXCEPT ![o] = Entry(i, ends)],
           streams' = [streams EXCEPT ![i] = IF ends THEN Tombstone ELSE o],
           active_stream_count' = IF ends THEN active_stream_count
                                  ELSE active_stream_count + 1,
           timers' = IF ends /\ active_stream_count = 0
                     THEN timers \cup {"inactivity"} ELSE timers,
           next_stream_id' \in Nat,
           UNCHANGED <<session, closed, teardown_timer_id, on_broken, sb, stack>>
    PROVE  IInv'
<1>0. SameCalls(stack, stack')
  BY LiveFacts, SameIsSame
<1>1. /\ \A op : InCall(op)' <=> InCall(op)
      /\ \A p : Releasing(p)' <=> Releasing(p)
      /\ \A p : OnStack(p)' <=> OnStack(p)
  BY ZenonT(30), <1>0, LiveFacts, SameFacts
<1>2. /\ obj' \in [Objs -> EntryType]
      /\ \A p \in Objs : p # o => obj'[p] = obj[p]
      /\ obj'[o].id = i /\ obj'[o].held /\ obj'[o].mem = "live"
      /\ obj'[o].retired = ends
  <2>1. Entry(i, ends) \in EntryType /\ Entry(i, ends).id = i /\ Entry(i, ends).held
        /\ Entry(i, ends).mem = "live" /\ Entry(i, ends).retired = ends
    BY DEF Entry, EntryType
  <2> QED BY SMTT(20), Z3T(20), <2>1, TableFacts
<1>3. streams' \in Tables /\ streams'[i] = (IF ends THEN Tombstone ELSE o)
      /\ \A j \in Ids : j # i => streams'[j] = streams[j]
  <2>1. streams \in Tables
    BY ZenonT(30), TableFacts
  <2> QED BY SMTT(20), <2>1 DEF Tables
<1>4. ~OnStack(o) /\ ~Releasing(o) /\ \A j \in Ids : streams[j] # o
  BY LiveFacts, TableFacts DEF Active
<1>5. CallsAgree'
  <2>1. /\ \A p \in Objs : OnStack(p) => obj'[p].mem = "live"
        /\ \A p \in Objs : Releasing(p) => ~obj'[p].held
    BY ZenonT(30), <1>2, <1>4, LiveFacts
  <2> QED BY Zenon, <1>0, <2>1, SameKeepsCalls DEF IInv
<1>6. TableAgrees'
  <2>1. ASSUME NEW j \in Ids, streams'[j] \in Objs
        PROVE  Active(streams[j])' /\ obj'[streams'[j]].id = j
    <3>1. CASE j = i
      BY SMTT(20), <2>1, <3>1, <1>2, <1>3, TableFacts DEF Active
    <3>2. CASE j # i
      <4>1. PICK p \in Objs : p = streams[j] /\ p = streams'[j]
        BY <2>1, <3>2, <1>3
      <4>2. p # o /\ Active(p) /\ obj[p].id = j
        BY ZenonT(30), <4>1, <1>4, TableFacts
      <4>3. Active(p)' /\ obj'[p].id = j
        BY Zenon, <4>2, <1>2 DEF Active
      <4> QED BY Zenon, <4>1, <4>3 DEF Active
    <3> QED BY ZenonT(30), <3>1, <3>2
  <2>2. ASSUME NEW p \in Objs, Active(p)'
        PROVE  obj'[p].id \in Ids /\ streams'[obj'[p].id] = p
    <3>1. CASE p = o
      BY Zenon, <2>2, <3>1, <1>2, <1>3 DEF Active
    <3>2. CASE p # o
      <4>1. obj'[p].id = obj[p].id /\ obj[p].id \in Ids /\ streams[obj[p].id] = p
        BY Zenon, <2>2, <3>2, <1>2, TableFacts DEF Active
      <4>2. obj[p].id # i
        BY <4>1
      <4> QED BY Zenon, <4>1, <4>2, <1>3
    <3> QED BY <3>1, <3>2
  <2> QED BY SMTT(20), <2>1, <2>2 DEF TableAgrees
<1>7. active_stream_count' = Cardinality(ActiveOf(streams'))
  <2>1. CASE ends
    BY Zenon, <2>1, TableFacts, CountSame
  <2>2. CASE ~ends
    BY ZenonT(30), <2>2, TableFacts DEF CountFacts, Size
  <2> QED BY <2>1, <2>2
<1>8. Cardinality(ActiveOf(streams')) \in 0..MaxObjs
  <2>1. \A j, k \in ActiveOf(streams') : streams'[j] = streams'[k] => j = k
    BY <1>6 DEF TableAgrees, ActiveOf
  <2> QED BY Zenon, <1>3, <2>1, TableFacts DEF CountFacts, Size
<1>9. TypeOK'
  BY Zenon, <1>2, <1>3, <1>7, <1>8 DEF IInv, TypeOK, Tables, EntryType
<1>10. "sweep" \notin timers /\ "sweep" \notin timers' /\ "deferred" \notin timers'
       /\ on_broken = 0
  BY DEF IInv, LifeAgrees
<1>11. LifeAgrees'
  BY <1>1, <1>10 DEF IInv, LifeAgrees
<1>12. OwnerAgrees'
  <2>1. \A p \in Objs : obj'[p].held => obj'[p].mem = "live"
    BY SMTT(20), <1>2, LiveFacts
  <2>2. \A p \in Objs : OnStack(p)' => obj'[p].held \/ Releasing(p)'
    BY ZenonT(30), <1>1, <1>2 DEF IInv, OwnerAgrees
  <2> QED BY ZenonT(30), <1>10, <2>1, <2>2 DEF OwnerAgrees
<1>13. Owned'
  BY <1>1, <1>2, <1>10 DEF IInv, Owned
<1>14. CountIsExact'
  BY Zenon, <1>7 DEF CountIsExact, ActiveIds, ActiveOf
<1>15. IdleIsTimed'
  <2>1. active_stream_count \in Nat
    BY DEF IInv, TypeOK, SessionAssumption
  <2> QED BY SMTT(20), Z3T(20), <2>1 DEF IInv, IdleIsTimed
<1> QED
  BY ZenonT(30), <1>5, <1>6, <1>9, <1>11, <1>12, <1>13, <1>14, <1>15 DEF IInv, SessionAssumption

(* cloak_session_open_stream. *)
LEMMA OpenStreamKeepsIInv ==
    ASSUME CountFacts, IInv, NEW o \in Objs, OpenStream(o)
    PROVE  IInv'
<1>1. next_stream_id' \in Nat /\ UNCHANGED <<life, sb, stack>>
  BY DEF OpenStream, IInv, TypeOK
<1>2. CASE streams[next_stream_id] \in Objs
  <2>1. UNCHANGED <<streams, obj, active_stream_count>>
    BY SMTT(20), <1>2 DEF OpenStream
  <2>2. /\ \A op : InCall(op)' <=> InCall(op)
        /\ \A p : Releasing(p)' <=> Releasing(p)
        /\ \A p : OnStack(p)' <=> OnStack(p)
    BY ZenonT(30), <1>1, LiveFacts, SameIsSame, SameFacts
  <2>3. CallsAgree'
    BY Zenon, <1>1, <2>1, LiveFacts, SameIsSame, SameKeepsCalls DEF IInv
  <2>4. TypeOK'
    BY ZenonT(30), <1>1, <2>1 DEF IInv, TypeOK, life
  <2>5. TableAgrees' /\ CountIsExact' /\ IdleIsTimed'
    BY SMTT(20), <1>1, <2>1 DEF IInv, TableAgrees, Active, CountIsExact, ActiveIds, IdleIsTimed, life
  <2>6. LifeAgrees' /\ OwnerAgrees' /\ Owned'
    BY Zenon, <1>1, <2>1, <2>2 DEF IInv, LifeAgrees, OwnerAgrees, Owned, life
  <2> QED BY <2>3, <2>4, <2>5, <2>6 DEF IInv, SessionAssumption
<1>3. CASE streams[next_stream_id] \notin Objs
  <2>1. PICK i \in Ids : i = next_stream_id
    BY DEF OpenStream
  <2>2. /\ streams' = [streams EXCEPT ![i] = IF FALSE THEN Tombstone ELSE o]
        /\ obj' = [obj EXCEPT ![o] = Entry(i, FALSE)]
        /\ active_stream_count' = IF FALSE THEN active_stream_count
                                  ELSE active_stream_count + 1
        /\ timers' = IF FALSE /\ active_stream_count = 0
                     THEN timers \cup {"inactivity"} ELSE timers
    BY Zenon, <1>3, <2>1 DEF OpenStream, life
  <2>3. session = "up" /\ ~closed /\ obj[o].mem = "unused"
    BY DEF OpenStream, Fresh
  <2>4. UNCHANGED <<session, closed, teardown_timer_id, on_broken, sb, stack>>
    BY DEF OpenStream, life
  <2> QED BY Zenon, <1>1, <1>3, <2>1, <2>2, <2>3, <2>4, FALSE \in BOOLEAN, InsertKeepsIInv
<1> QED
  BY SMTT(20), Z3T(20), <1>2, <1>3

(* A frame opens a stream of the peer. *)
LEMMA FrameForNewKeepsIInv ==
    ASSUME CountFacts, IInv, NEW i \in Ids, NEW o \in Objs, NEW ends \in BOOLEAN,
           FrameForNew(i, o, ends)
    PROVE  IInv'
<1>1. session = "up" /\ ~closed /\ obj[o].mem = "unused" /\ streams[i] \notin Objs
  BY SMTT(20), Z3T(20), TableFacts DEF FrameForNew, Fresh, Unknown
<1>2. next_stream_id' \in Nat
      /\ UNCHANGED <<session, closed, teardown_timer_id, on_broken, sb, stack>>
  BY DEF FrameForNew, IInv, TypeOK
<1>3. /\ obj' = [obj EXCEPT ![o] = Entry(i, ends)]
      /\ streams' = [streams EXCEPT ![i] = IF ends THEN Tombstone ELSE o]
      /\ active_stream_count' = IF ends THEN active_stream_count
                                ELSE active_stream_count + 1
      /\ timers' = IF ends /\ active_stream_count = 0
                   THEN timers \cup {"inactivity"} ELSE timers
  BY Zenon DEF FrameForNew
<1> QED
  BY ZenonT(30), <1>1, <1>2, <1>3, InsertKeepsIInv
(* cloak_session_release_stream starts. *)
LEMMA ReleaseStreamKeepsIInv ==
    ASSUME IInv, NEW o \in Objs, ReleaseStream(o)
    PROVE  IInv'
<1>1. obj[o].held /\ ~OnStack(o) /\ ~Releasing(o) /\ obj[o].mem = "live"
  BY LiveFacts DEF ReleaseStream, MayUse, IInv
<1>2. UNCHANGED <<session, closed, timers, teardown_timer_id, on_broken,
                  active_stream_count, next_stream_id, streams, sb>>
  BY Zenon DEF ReleaseStream, life
<1>3. /\ obj' \in [Objs -> EntryType]
      /\ \A p \in Objs : p # o => obj'[p] = obj[p]
      /\ obj'[o].id = obj[o].id /\ ~obj'[o].held
      /\ (obj'[o].retired <=> obj[o].retired)
      /\ obj'[o].mem = IF obj[o].retired THEN "freed" ELSE "live"
  <2>1. obj \in [Objs -> EntryType] /\ obj[o] \in EntryType
    BY TableFacts
  <2>2. CASE obj[o].retired
    <3> DEFINE e == [obj[o] EXCEPT !.held = FALSE, !.mem = "freed"]
    <3>1. e \in EntryType /\ e.id = obj[o].id /\ ~e.held
          /\ e.retired = obj[o].retired /\ e.mem = "freed"
      BY Zenon, <2>1 DEF EntryType
    <3>2. obj' = [obj EXCEPT ![o] = e]
      BY Zenon, <2>2 DEF ReleaseStream
    <3> HIDE DEF e
    <3> QED BY Zenon, <2>1, <2>2, <3>1, <3>2
  <2>3. CASE ~obj[o].retired
    <3> DEFINE e == [obj[o] EXCEPT !.held = FALSE]
    <3>1. e \in EntryType /\ e.id = obj[o].id /\ ~e.held
          /\ e.retired = obj[o].retired /\ e.mem = "live"
      BY ZenonT(30), <1>1, <2>1 DEF EntryType
    <3>2. obj' = [obj EXCEPT ![o] = e]
      BY Zenon, <2>3 DEF ReleaseStream
    <3> HIDE DEF e
    <3> QED BY <2>1, <2>3, <3>1, <3>2
  <2> QED BY Zenon, <2>2, <2>3
<1>4. /\ stack' \in Seq(Calls) /\ CallsAgree'
      /\ InCall("sclose")' <=> InCall("sclose")
      /\ InCall("on_broken")' <=> InCall("on_broken")
      /\ \A p \in Objs : p # o => (Releasing(p)' <=> Releasing(p))
      /\ \A p \in Objs : p # o => (OnStack(p)' <=> OnStack(p))
      /\ ~obj[o].retired => Releasing(o)'
      /\ obj[o].retired => ~OnStack(o)' /\ stack' = stack
  <2>1. CASE obj[o].retired
    <3>0. stack' = stack
      BY SMTT(20), Z3T(20), <2>1 DEF ReleaseStream
    <3>1. SameCalls(stack, stack')
      BY SMTT(20), <3>0, LiveFacts, SameIsSame
    <3>2. /\ \A op : InCall(op)' <=> InCall(op)
          /\ \A p : Releasing(p)' <=> Releasing(p)
          /\ \A p : OnStack(p)' <=> OnStack(p)
      BY ZenonT(30), <3>1, LiveFacts, SameFacts
    <3>3. /\ \A p \in Objs : OnStack(p) => obj'[p].mem = "live"
          /\ \A p \in Objs : Releasing(p) => ~obj'[p].held
      BY SMTT(20), <1>1, <1>3, LiveFacts
    <3>4. CallsAgree'
      BY Zenon, <3>1, <3>3, SameKeepsCalls DEF IInv
    <3> QED BY Zenon, <1>1, <2>1, <3>0, <3>1, <3>2, <3>4 DEF SameCalls
  <2>2. CASE ~obj[o].retired
    <3>1. Pushed(stack, stack', "release", o)
      BY SMTT(20), <2>2, PushFacts DEF ReleaseStream
    <3>2. /\ \A q : InCall(q)' <=> q = "release" \/ InCall(q)
          /\ \A p : Releasing(p)' <=> p = o \/ Releasing(p)
          /\ \A p : OnStack(p)' <=> p = o \/ OnStack(p)
      BY ZenonT(30), <3>1, LiveFacts, PushedFacts
    <3>3. /\ \A p \in Objs : OnStack(p)' => obj'[p].mem = "live"
          /\ \A p \in Objs : Releasing(p)' => ~obj'[p].held
      BY Zenon, <1>1, <1>3, <2>2, <3>2, LiveFacts
    <3>4. o # 0
      BY Zenon, LiveFacts
    <3>5. CallsAgree'
      BY ZenonT(30), <1>1, <3>1, <3>3, <3>4, PushedKeepsCalls DEF IInv
    <3> QED BY Zenon, <2>2, <3>1, <3>2, <3>5 DEF Pushed
  <2> QED BY <2>1, <2>2
<1>5. TypeOK'
  BY <1>2, <1>3, <1>4 DEF IInv, TypeOK, EntryType
<1>6. TableAgrees'
  <2>1. \A p \in Objs : (Active(p)' <=> Active(p)) /\ obj'[p].id = obj[p].id
    BY SMTT(20), <1>1, <1>3 DEF Active
  <2>2. ASSUME NEW i \in Ids, streams'[i] \in Objs
        PROVE  Active(streams[i])' /\ obj'[streams'[i]].id = i
    <3>1. PICK p \in Objs : p = streams[i] /\ p = streams'[i]
      BY SMTT(20), <1>2, <2>2
    <3>2. Active(p)' /\ obj'[p].id = i
      BY ZenonT(30), <2>1, <3>1, TableFacts
    <3> QED BY Zenon, <3>1, <3>2 DEF Active
  <2>3. \A p \in Objs : Active(p)' => obj'[p].id \in Ids /\ streams'[obj'[p].id] = p
    <3>1. \A p \in Objs : Active(p) => obj[p].id \in Ids /\ streams[obj[p].id] = p
      BY Zenon, TableFacts
    <3> QED BY Zenon, <1>2, <2>1, <3>1
  <2> QED BY ZenonT(30), <2>2, <2>3 DEF TableAgrees
<1>7. LifeAgrees'
  <2>1. session = "destroyed" => stack' = stack
    BY ZenonT(30), <1>1, <1>4 DEF IInv, OwnerAgrees
  <2> QED BY SMTT(20), <1>2, <1>4, <2>1 DEF IInv, LifeAgrees
<1>8. OwnerAgrees'
  BY ZenonT(30), <1>1, <1>2, <1>3, <1>4 DEF IInv, OwnerAgrees
<1>9. Owned'
  BY SMTT(20), <1>2, <1>3, <1>4 DEF IInv, Owned
<1>10. CountIsExact' /\ IdleIsTimed'
  BY SMTT(20), Z3T(20), <1>2 DEF IInv, CountIsExact, ActiveIds, IdleIsTimed
<1> QED
  BY SMTT(20), <1>4, <1>5, <1>6, <1>7, <1>8, <1>9, <1>10 DEF IInv, SessionAssumption

(* on_broken returns. *)
LEMMA OnBrokenReturnsKeepsIInv ==
    ASSUME IInv, OnBrokenReturns
    PROVE  IInv'
<1>1. stack # <<>> /\ stack[1].op = "on_broken" /\ stack' = Tail(stack)
  BY ZenonT(30) DEF OnBrokenReturns, Running, Idle, Top
<1>2. stack \in Seq(Calls) /\ 1 \in 1..Len(stack)
  BY SMTT(20), Z3T(20), <1>1, LiveFacts, SeqEmpty
<1>3. Popped(stack, stack')
  BY SMTT(20), <1>1, <1>2, TailIsPopped
<1>4. Len(stack) = 1
  BY Zenon, <1>1, <1>2 DEF IInv, CallsAgree
<1>5. stack' \in Seq(Calls) /\ Len(stack') = 0 /\ stack' = <<>>
  BY <1>3, <1>4, SeqEmpty DEF Popped
<1>6. /\ \A q : ~InCall(q)'
      /\ \A p : ~Releasing(p)'
      /\ \A p : ~OnStack(p)'
  BY SMTT(20), Z3T(20), <1>5 DEF InCall, Releasing, OnStack
<1>7. InCall("on_broken") /\ "sweep" \in timers
  BY <1>1, <1>2 DEF InCall, IInv, LifeAgrees
<1>8. ~InCall("sclose") /\ \A p : ~Releasing(p)
  BY <1>1, <1>4 DEF InCall, Releasing
<1>9. UNCHANGED <<session, closed, timers, teardown_timer_id, on_broken,
                  active_stream_count, next_stream_id, streams, sb>>
  BY DEF OnBrokenReturns, life
<1>10. /\ obj' \in [Objs -> EntryType]
       /\ \A p \in Objs : obj'[p].id = obj[p].id /\ obj'[p].mem = obj[p].mem
            /\ (obj'[p].retired <=> obj[p].retired)
            /\ (obj'[p].held <=> obj[p].held /\ obj[p].retired)
  <2>1. ASSUME NEW p \in Objs
        PROVE  LET e == [obj[p] EXCEPT !.held = @ /\ obj[p].retired]
               IN  e \in EntryType /\ e.id = obj[p].id /\ e.mem = obj[p].mem
                   /\ (e.retired <=> obj[p].retired)
                   /\ (e.held <=> obj[p].held /\ obj[p].retired)
    BY TableFacts DEF EntryType
  <2>2. obj' = [p \in Objs |-> [obj[p] EXCEPT !.held = @ /\ obj[p].retired]]
    BY DEF OnBrokenReturns
  <2>3. \A p \in Objs : obj'[p] = [obj[p] EXCEPT !.held = @ /\ obj[p].retired]
    BY <2>2, Zenon
  <2>4. \A p \in Objs : obj'[p] \in EntryType
    BY ZenonT(30), <2>1, <2>3
  <2>5. obj' \in [Objs -> EntryType]
    BY <2>2, <2>4
  <2> QED BY Zenon, <2>1, <2>3, <2>5
<1>11. TypeOK'
  BY <1>5, <1>9, <1>10 DEF IInv, TypeOK, EntryType
<1>12. TableAgrees'
  <2>1. \A p \in Objs : (Active(p)' <=> Active(p)) /\ obj'[p].id = obj[p].id
    BY SMTT(20), Z3T(20), <1>10 DEF Active
  <2>2. ASSUME NEW i \in Ids, streams'[i] \in Objs
        PROVE  Active(streams[i])' /\ obj'[streams'[i]].id = i
    <3>1. PICK p \in Objs : p = streams[i] /\ p = streams'[i]
      BY SMTT(20), <1>9, <2>2
    <3>2. Active(p)' /\ obj'[p].id = i
      BY ZenonT(30), <2>1, <3>1, TableFacts
    <3> QED BY <3>1, <3>2 DEF Active
  <2>3. \A p \in Objs : Active(p)' => obj'[p].id \in Ids /\ streams'[obj'[p].id] = p
    BY <1>9, <2>1, TableFacts
  <2> QED BY <2>2, <2>3 DEF TableAgrees
<1>13. CallsAgree'
  BY SMTT(20), Z3T(20), <1>5 DEF CallsAgree, CallsAreLive
<1>14. LifeAgrees'
  BY SMTT(20), <1>5, <1>6, <1>7, <1>8, <1>9 DEF IInv, LifeAgrees
<1>15. OwnerAgrees'
  BY Zenon, <1>6, <1>10, LiveFacts DEF OwnerAgrees
<1>16. Owned'
  <2> SUFFICES ASSUME NEW p \in Objs, obj'[p].mem = "live"
               PROVE  obj'[p].held \/ \E i \in Ids : streams'[i] = p
    BY Zenon, <1>7, <1>9 DEF Owned
  <2>1. CASE obj[p].retired
    <3>1. ~\E i \in Ids : streams[i] = p
      BY ZenonT(30), <2>1, TableFacts DEF Active
    <3> QED BY Zenon, <2>1, <3>1, <1>8, <1>10 DEF IInv, Owned
  <2>2. CASE ~obj[p].retired
    BY SMTT(20), <2>2, <1>9, <1>10, TableFacts DEF Active
  <2> QED BY <2>1, <2>2
<1>17. CountIsExact' /\ IdleIsTimed'
  BY SMTT(20), <1>9 DEF IInv, CountIsExact, ActiveIds, IdleIsTimed
<1> QED
  BY <1>11, <1>12, <1>13, <1>14, <1>15, <1>16, <1>17 DEF IInv, SessionAssumption
(* The sweep frees every stream of a dead session. *)
LEMMA SweepFiresKeepsIInv ==
    ASSUME CountFacts, IInv, SweepFires
    PROVE  IInv'
<1>1. stack = <<>> /\ stack' = <<>> /\ "sweep" \in timers
      /\ UNCHANGED <<session, closed, on_broken, next_stream_id>>
      /\ timers' = timers \ {"sweep"} /\ teardown_timer_id' = "none"
  BY DEF SweepFires, Idle
<1>2. /\ \A q : ~InCall(q) /\ ~InCall(q)'
      /\ \A p : ~Releasing(p) /\ ~Releasing(p)'
      /\ \A p : ~OnStack(p) /\ ~OnStack(p)'
  BY <1>1 DEF InCall, Releasing, OnStack
<1>3. session = "up" /\ closed /\ on_broken = 1 /\ "deferred" \notin timers
  BY Zenon, <1>1 DEF IInv, LifeAgrees, TypeOK
<1>4. \A p \in Objs : obj[p].held => obj[p].retired
  BY ZenonT(30), <1>1, <1>2 DEF IInv, OwnerAgrees
<1>5. /\ obj' \in [Objs -> EntryType]
      /\ \A p \in Objs : obj'[p].id = obj[p].id /\ (obj'[p].held <=> obj[p].held)
           /\ (obj'[p].retired <=> obj[p].retired)
           /\ obj'[p].mem = IF \E i \in Ids : streams[i] = p THEN "freed" ELSE obj[p].mem
  <2>1. ASSUME NEW p \in Objs
        PROVE  LET e == [obj[p] EXCEPT !.mem = "freed"]
               IN  e \in EntryType /\ e.id = obj[p].id /\ (e.held <=> obj[p].held)
                   /\ (e.retired <=> obj[p].retired) /\ e.mem = "freed"
    BY TableFacts DEF EntryType
  <2>2. obj' = [p \in Objs |-> IF \E i \in Ids : streams[i] = p
                              THEN [obj[p] EXCEPT !.mem = "freed"] ELSE obj[p]]
    BY DEF SweepFires, FreeAllActive
  <2>3. \A p \in Objs : obj'[p] = IF \E i \in Ids : streams[i] = p
                              THEN [obj[p] EXCEPT !.mem = "freed"] ELSE obj[p]
    BY <2>2, Zenon
  <2>4. \A p \in Objs : obj[p] \in EntryType
    BY ZenonT(30), TableFacts
  <2>5. ASSUME NEW p \in Objs
        PROVE  obj'[p] \in EntryType
            /\ obj'[p].id = obj[p].id /\ (obj'[p].held <=> obj[p].held)
            /\ (obj'[p].retired <=> obj[p].retired)
            /\ obj'[p].mem = IF \E i \in Ids : streams[i] = p
                             THEN "freed" ELSE obj[p].mem
    <3>1. CASE \E i \in Ids : streams[i] = p
      <4>1. obj'[p] = [obj[p] EXCEPT !.mem = "freed"]
        BY Zenon, <2>3, <3>1
      <4> QED BY <2>1, <3>1, <4>1
    <3>2. CASE ~\E i \in Ids : streams[i] = p
      <4>1. obj'[p] = obj[p]
        BY Zenon, <2>3, <3>2
      <4> QED BY <2>4, <3>2, <4>1
    <3> QED BY <3>1, <3>2
  <2>6. obj' \in [Objs -> EntryType]
    BY ZenonT(30), <2>2, <2>5
  <2> QED BY <2>5, <2>6
<1>6. /\ streams' \in Tables
      /\ \A i \in Ids : streams'[i] \notin Objs
  <2>1. streams' = [i \in Ids |-> IF streams[i] \in Objs THEN Tombstone ELSE streams[i]]
    BY DEF SweepFires, FreeAllActive
  <2> QED BY <2>1, TableFacts DEF Tables
<1>7. active_stream_count' = 0
  <2>1. active_stream_count' = active_stream_count - Cardinality(ActiveIds)
    BY DEF SweepFires, FreeAllActive
  <2>2. active_stream_count = Cardinality(ActiveIds) /\ active_stream_count \in Int
    BY DEF IInv, CountIsExact, TypeOK
  <2> QED BY <2>1, <2>2
<1>8. sb' \in [broken : BOOLEAN, conns : BOOLEAN]
  BY ZenonT(30) DEF SweepFires, FreeAllActive, IInv, TypeOK
<1>9. TypeOK'
  <2>1. 0 \in 0..MaxObjs
    BY DEF IInv, SessionAssumption
  <2>2. stack' \in Seq(Calls)
    BY <1>1, SeqEmpty
  <2> QED BY <1>1, <1>5, <1>6, <1>7, <1>8, <2>1, <2>2
            DEF IInv, TypeOK, EntryType, Tables
<1>10. TableAgrees'
  <2>1. ASSUME NEW p \in Objs, Active(p)' PROVE FALSE
    <3>1. Active(p) /\ ~\E i \in Ids : streams[i] = p
      BY ZenonT(30), <1>5, <2>1 DEF Active
    <3> QED BY Zenon, <3>1, TableFacts
  <2> QED BY Zenon, <1>6, <2>1 DEF TableAgrees
<1>11. CallsAgree'
  BY <1>1 DEF CallsAgree, CallsAreLive
<1>12. LifeAgrees'
  BY SMTT(20), Z3T(20), <1>1, <1>2, <1>3 DEF LifeAgrees
<1>13. OwnerAgrees'
  <2>1. ASSUME NEW p \in Objs, obj'[p].held PROVE obj'[p].mem = "live"
    <3>1. obj[p].held /\ obj[p].retired /\ obj[p].mem = "live"
      BY Zenon, <1>4, <1>5, <2>1, LiveFacts
    <3>2. ~\E i \in Ids : streams[i] = p
      BY Zenon, <3>1, TableFacts DEF Active
    <3> QED BY Zenon, <1>5, <3>1, <3>2
  <2> QED BY SMTT(20), <1>1, <1>2, <1>3, <2>1 DEF OwnerAgrees
<1>14. Owned'
  <2> SUFFICES ASSUME NEW p \in Objs, obj'[p].mem = "live"
               PROVE  obj'[p].held
    BY SMTT(20), Z3T(20) DEF Owned
  <2>1. obj[p].mem = "live" /\ ~\E i \in Ids : streams[i] = p
    BY SMTT(20), Z3T(20), <1>5
  <2> QED BY ZenonT(30), <1>2, <1>5, <2>1 DEF IInv, Owned
<1>15. CountIsExact' /\ IdleIsTimed'
  <2>1. ActiveIds' = {}
    BY SMTT(20), <1>6 DEF ActiveIds
  <2> QED BY <1>1, <1>3, <1>7, <2>1 DEF CountIsExact, IdleIsTimed, CountFacts, Size
<1> QED
  BY <1>9, <1>10, <1>11, <1>12, <1>13, <1>14, <1>15 DEF IInv, SessionAssumption

(* cloak_session_destroy. *)
LEMMA DestroyKeepsIInv ==
    ASSUME CountFacts, IInv, Destroy
    PROVE  IInv'
<1>1. stack' = <<>> /\ session' = "destroyed" /\ closed' = TRUE
      /\ UNCHANGED <<on_broken, next_stream_id>> /\ active_stream_count' = 0
      /\ timers' = timers \ {"inactivity", teardown_timer_id}
      /\ teardown_timer_id' = "none"
      /\ sb' = [broken |-> FALSE, conns |-> FALSE]
      /\ streams' = [i \in Ids |-> Absent]
  BY ZenonT(30) DEF Destroy, DestroyCancels
<1>2. /\ \A q : ~InCall(q)'
      /\ \A p : ~Releasing(p) /\ ~Releasing(p)'
      /\ \A p : ~OnStack(p)'
  <2>1. stack = <<>> \/ (Len(stack) = 1 /\ stack[1].op = "on_broken")
    BY Zenon DEF Destroy, Idle, Running, Top
  <2>2. \A p : ~Releasing(p)
    BY <2>1 DEF Releasing
  <2> QED BY SMTT(20), <1>1, <2>2 DEF InCall, Releasing, OnStack
<1>3. timers' = {}
  BY ZenonT(30), <1>1 DEF IInv, TypeOK, LifeAgrees
<1>4. /\ obj' \in [Objs -> EntryType]
      /\ \A p \in Objs : (obj'[p].retired <=> obj[p].retired)
           /\ (IF \E i \in Ids : streams[i] = p
               THEN obj'[p].mem = "freed" /\ ~obj'[p].held
               ELSE obj'[p] = obj[p])
  <2>1. ASSUME NEW p \in Objs
        PROVE  LET e == [obj[p] EXCEPT !.mem = "freed", !.held = FALSE]
               IN  e \in EntryType /\ ~e.held
                   /\ (e.retired <=> obj[p].retired) /\ e.mem = "freed"
    <3>1. obj[p] \in EntryType
      BY TableFacts
    <3> QED
      BY ZenonT(30), <3>1 DEF EntryType
  <2>2. obj' = [p \in Objs |-> IF \E i \in Ids : streams[i] = p
                              THEN [obj[p] EXCEPT !.mem = "freed", !.held = FALSE]
                              ELSE obj[p]]
    BY Zenon DEF Destroy
  <2>3. \A p \in Objs : obj'[p] = IF \E i \in Ids : streams[i] = p
                              THEN [obj[p] EXCEPT !.mem = "freed", !.held = FALSE]
                              ELSE obj[p]
    BY <2>2, ZenonT(30)
  <2>4. \A p \in Objs : obj[p] \in EntryType
    BY SMTT(20), Z3T(20), TableFacts
  <2>5. ASSUME NEW p \in Objs
        PROVE  obj'[p] \in EntryType
            /\ (obj'[p].retired <=> obj[p].retired)
            /\ (IF \E i \in Ids : streams[i] = p
                THEN obj'[p].mem = "freed" /\ ~obj'[p].held
                ELSE obj'[p] = obj[p])
    <3>1. CASE \E i \in Ids : streams[i] = p
      <4>1. obj'[p] = [obj[p] EXCEPT !.mem = "freed", !.held = FALSE]
        BY ZenonT(30), <2>3, <3>1
      <4> QED BY ZenonT(30), <2>1, <3>1, <4>1
    <3>2. CASE ~\E i \in Ids : streams[i] = p
      <4>1. obj'[p] = obj[p]
        BY ZenonT(30), <2>3, <3>2
      <4> QED BY <2>4, <3>2, <4>1
    <3> QED BY <3>1, <3>2
  <2>6. obj' \in [Objs -> EntryType]
    BY ZenonT(30), <2>2, <2>5
  <2> QED BY <2>5, <2>6
<1>5. TypeOK'
  <2>1. 0 \in 0..MaxObjs
    BY DEF IInv, SessionAssumption
  <2>2. stack' \in Seq(Calls)
    BY ZenonT(30), <1>1, SeqEmpty
  <2> QED BY SMTT(20), <1>1, <1>3, <1>4, <2>1, <2>2 DEF IInv, TypeOK, EntryType
<1>6. \A p \in Objs : ~Active(p)'
  <2> SUFFICES ASSUME NEW p \in Objs, Active(p)' PROVE FALSE
    BY SMTT(20), Z3T(20)
  <2>1. Active(p) /\ ~\E i \in Ids : streams[i] = p
    BY SMTT(20), <1>4 DEF Active
  <2> QED BY <2>1, TableFacts
<1>7. TableAgrees'
  BY ZenonT(30), <1>1, <1>6, TableFacts DEF TableAgrees
<1>8. CallsAgree'
  BY <1>1 DEF CallsAgree, CallsAreLive
<1>9. LifeAgrees'
  BY Zenon, <1>1, <1>2, <1>3 DEF LifeAgrees, IInv
<1>10. \A p \in Objs : obj'[p].held => obj'[p].mem = "live"
  BY ZenonT(30), <1>4, LiveFacts
<1>11. OwnerAgrees'
  BY SMTT(20), Z3T(20), <1>2, <1>6, <1>10 DEF OwnerAgrees, Active
<1>12. Owned'
  <2> SUFFICES ASSUME NEW p \in Objs, obj'[p].mem = "live"
               PROVE  obj'[p].held
    BY DEF Owned
  <2>1. obj'[p] = obj[p] /\ ~\E i \in Ids : streams[i] = p
    BY SMTT(20), Z3T(20), <1>4
  <2> QED BY SMTT(20), Z3T(20), <1>2, <2>1 DEF IInv, Owned
<1>13. CountIsExact' /\ IdleIsTimed'
  <2>1. ActiveIds' = {}
    BY Zenon, <1>1, TableFacts DEF ActiveIds
  <2> QED BY SMTT(20), <1>1, <2>1 DEF CountIsExact, IdleIsTimed, CountFacts, Size
<1> QED
  BY <1>5, <1>7, <1>8, <1>9, <1>11, <1>12, <1>13 DEF IInv, SessionAssumption
-----------------------------------------------------------------------------
(* The invariant holds, and says what the runs check. *)

(* A new session has no stream, no call and no timer. *)
LEMMA InitIInv ==
    ASSUME CountFacts, SessionAssumption, Init
    PROVE  IInv
<1>1. Absent \notin Objs /\ 0 \in 0..MaxObjs
  BY SMTT(20), Z3T(20) DEF SessionAssumption, Absent, Objs
<1>2. /\ \A q : ~InCall(q)
      /\ \A p : ~Releasing(p)
      /\ \A p : ~OnStack(p)
  BY SMTT(20), Z3T(20) DEF Init, InCall, Releasing, OnStack
<1>3. \A o \in Objs : obj[o].mem = "unused" /\ ~obj[o].held
  BY SMTT(20) DEF Init
<1>4. TypeOK
  <2>1. stack \in Seq(Calls)
    BY Zenon, SeqEmpty DEF Init
  <2> QED BY ZenonT(30), <1>1, <2>1 DEF Init, TypeOK
<1>5. TableAgrees
  BY ZenonT(30), <1>1, <1>3 DEF Init, TableAgrees, Active
<1>6. CallsAgree
  BY DEF Init, CallsAgree, CallsAreLive
<1>7. LifeAgrees
  BY Zenon, <1>2 DEF Init, LifeAgrees
<1>8. OwnerAgrees /\ Owned
  BY Zenon, <1>2, <1>3 DEF OwnerAgrees, Owned
<1>9. CountIsExact /\ IdleIsTimed
  <2>1. ActiveIds = {}
    BY <1>1 DEF Init, ActiveIds
  <2> QED BY Zenon, <2>1 DEF Init, CountIsExact, IdleIsTimed, CountFacts, Size
<1> QED
  BY SMTT(20), <1>4, <1>5, <1>6, <1>7, <1>8, <1>9 DEF IInv

(* Every step of the session keeps the inductive invariant. *)
LEMMA NextKeepsIInv ==
    ASSUME CountFacts, IInv, [Next]_vars
    PROVE  IInv'
<1>1. CASE AddConn BY <1>1, AddConnKeepsIInv
<1>2. CASE CloseSession BY SMTT(20), <1>2, CloseSessionKeepsIInv
<1>3. CASE Destroy BY <1>3, DestroyKeepsIInv
<1>4. CASE SinkReturns BY <1>4, SinkReturnsKeepsIInv
<1>5. CASE SinkBreaks BY <1>5, SinkBreaksKeepsIInv
<1>6. CASE SinkDrains BY <1>6, SinkDrainsKeepsIInv
<1>7. CASE Returns
  BY SMTT(20), <1>7, WriteReturnsKeepsIInv, CloseStreamReturnsKeepsIInv,
     ReleaseStreamReturnsKeepsIInv, CloseSessionReturnsKeepsIInv,
     OnWritableReturnsKeepsIInv, OnBrokenReturnsKeepsIInv DEF Returns
<1>8. CASE Timers
  BY SMTT(20), <1>8, InactivityFiresKeepsIInv, DeferredFiresKeepsIInv, SweepFiresKeepsIInv
     DEF Timers
<1>9. CASE SessionFrame BY <1>9, SessionFrameKeepsIInv
<1>10. CASE ConnFails BY <1>10, ConnFailsKeepsIInv
<1>11. CASE ConnDrains BY <1>11, ConnDrainsKeepsIInv
<1>12. CASE \E o \in Objs : OpenStream(o) \/ WriteStream(o) \/ CloseStream(o)
                           \/ ReleaseStream(o)
  BY SMTT(20), <1>12, OpenStreamKeepsIInv, WriteStreamKeepsIInv, CloseStreamKeepsIInv,
     ReleaseStreamKeepsIInv
<1>13. CASE \E i \in Ids, ends \in BOOLEAN :
             FrameForActive(i, ends) \/ \E o \in Objs : FrameForNew(i, o, ends)
  BY Zenon, <1>13, FrameForActiveKeepsIInv, FrameForNewKeepsIInv
<1>14. CASE UNCHANGED vars
  <2>1. SameCalls(stack, stack') /\ stack' = stack /\ obj' = obj
        /\ sb' \in [broken : BOOLEAN, conns : BOOLEAN] /\ UNCHANGED <<life, table>>
    BY SMTT(20), <1>14, LiveFacts, SameIsSame DEF vars, IInv, TypeOK, life, table
  <2>2. /\ \A op : InCall(op)' <=> InCall(op)
        /\ \A p : Releasing(p)' <=> Releasing(p)
        /\ \A p : OnStack(p)' <=> OnStack(p)
    BY ZenonT(30), <2>1, LiveFacts, SameFacts
  <2>3. CallsAgree'
    BY Zenon, <2>1, LiveFacts, SameKeepsCalls DEF IInv
  <2> QED BY ZenonT(30), <2>1, <2>2, <2>3, LiveFacts, CallsOnly
<1> QED
  BY SMTT(20), <1>1, <1>2, <1>3, <1>4, <1>5, <1>6, <1>7, <1>8, <1>9, <1>10, <1>11, <1>12,
     <1>13, <1>14 DEF Next

(* The inductive invariant implies what the runs check. *)
LEMMA IInvIsEnough ==
    ASSUME IInv
    PROVE  MemorySafe /\ Accounting
<1>1. NoDangling
  BY Zenon, LiveFacts DEF IInv, CallsAgree, LifeAgrees, TableAgrees, NoDangling, ActiveIds
<1>2. NoLeak
  <2> SUFFICES ASSUME NEW o \in Objs, obj[o].mem = "live", ~obj[o].held,
                      Releasing(o)
               PROVE  \E n \in 1..Len(stack) :
                        stack[n] \in [op : {"release"}, o : {o}, sent : BOOLEAN]
    BY DEF NoLeak, IInv, Owned
  <2>1. PICK n \in 1..Len(stack) : stack[n].op = "release" /\ stack[n].o = o
    BY SMTT(20), Z3T(20) DEF Releasing
  <2>2. stack[n] \in Calls
    BY LiveFacts
  <2>3. stack[n] \in [op : {"release"}, o : {o}, sent : BOOLEAN]
    BY ZenonT(30), <2>1, <2>2 DEF Calls
  <2> QED BY Zenon, <2>3
<1>3. Accounting
  BY DEF IInv, Accounting, LifeAgrees, InCall, TypeOK
<1> QED
  BY SMTT(20), <1>1, <1>2, <1>3 DEF MemorySafe, IInv

-----------------------------------------------------------------------------
(* What counting needs of the library's theorems on finite sets.  They come *)
(* in here and not with EXTENDS, where they would weigh on every step       *)
(* above; the instance brings its own copy of FiniteSets, which the lemmas  *)
(* up to SameNotions identify with the one the specification uses.          *)
Finite(S) == IsFiniteSet(S)
SizesIn(S) == CHOOSE CS : CS = [T \in SUBSET S |->
                 IF T = {} THEN 0 ELSE 1 + CS[T \ {CHOOSE x : x \in T}]]

(* A finite set is the range of a sequence. *)
LEMMA FiniteMeans ==
    \A S : Finite(S) <=> \E seq \in Seq(S) : \A s \in S : \E n \in 1..Len(seq) : seq[n] = s
  BY Zenon DEF Finite, IsFiniteSet

(* The number of members, by the definition of FiniteSets. *)
LEMMA CardinalityMeans == \A S : Cardinality(S) = SizesIn(S)[S]
  BY Zenon DEF Cardinality, SizesIn

(* Size is that number. *)
LEMMA SizeMeans == \A S : Size(S) = SizesIn(S)[S]
  BY Zenon, CardinalityMeans DEF Size

(* The ids are finitely many, and there is memory for an entry. *)
LEMMA IdsAreFinite == ASSUME SessionAssumption PROVE Finite(Ids) /\ MaxObjs \in Nat \ {0}
  BY Zenon DEF SessionAssumption, Finite

LOCAL INSTANCE FiniteSetTheorems

(* The two copies of FiniteSets agree. *)
LEMMA SameNotions ==
    /\ \A S : Finite(S) <=> IsFiniteSet(S)
    /\ \A S : Size(S) = Cardinality(S)
<1>1. \A S : Finite(S) <=> IsFiniteSet(S)
  BY Zenon, FiniteMeans DEF IsFiniteSet
<1>2. \A S : Size(S) = Cardinality(S)
  BY Zenon, SizeMeans DEF SizesIn, Cardinality
<1> QED
  BY <1>1, <1>2

(* The table names each entry once, so it has no more of them than memory. *)
LEMMA CountBound ==
    ASSUME SessionAssumption, NEW t \in Tables,
           \A i, j \in ActiveOf(t) : t[i] = t[j] => i = j
    PROVE  /\ IsFiniteSet(ActiveOf(t)) /\ Cardinality(ActiveOf(t)) \in 0..MaxObjs
<1> DEFINE f == [i \in ActiveOf(t) |-> t[i]]
<1>1. MaxObjs \in Nat /\ IsFiniteSet(Ids)
  BY IdsAreFinite, SameNotions
<1>2. IsFiniteSet(Objs) /\ Cardinality(Objs) = MaxObjs
  BY <1>1, FS_Interval DEF Objs
<1>3. f \in Injection(ActiveOf(t), Objs)
  BY DEF Injection, ActiveOf, IsInjective
<1>4. IsFiniteSet(ActiveOf(t)) /\ Cardinality(ActiveOf(t)) <= Cardinality(Objs)
  BY ZenonT(30), <1>2, <1>3, FS_Injection
<1>5. Cardinality(ActiveOf(t)) \in Nat
  BY <1>4, FS_CardinalityType
<1> QED
  BY <1>1, <1>2, <1>4, <1>5

(* One more entry, and one fewer. *)
LEMMA CountInsert ==
    ASSUME SessionAssumption, NEW t \in Tables, NEW i \in Ids, NEW o \in Objs,
           t[i] \notin Objs
    PROVE  Cardinality(ActiveOf([t EXCEPT ![i] = o])) = Cardinality(ActiveOf(t)) + 1
<1>1. ActiveOf([t EXCEPT ![i] = o]) = ActiveOf(t) \cup {i} /\ i \notin ActiveOf(t)
  BY DEF ActiveOf, Tables
<1>2. IsFiniteSet(ActiveOf(t))
  BY IdsAreFinite, SameNotions, FS_Subset DEF ActiveOf
<1> QED
  BY ZenonT(30), <1>1, <1>2, FS_AddElement

(* One entry fewer. *)
LEMMA CountRemove ==
    ASSUME SessionAssumption, NEW t \in Tables, NEW i \in Ids, t[i] \in Objs
    PROVE  /\ Cardinality(ActiveOf([t EXCEPT ![i] = Tombstone]))
                = Cardinality(ActiveOf(t)) - 1
           /\ Cardinality(ActiveOf(t)) \in Nat \ {0}
<1>0. Tombstone \notin Objs
  BY DEF Tombstone, Objs, SessionAssumption
<1>1. ActiveOf([t EXCEPT ![i] = Tombstone]) = ActiveOf(t) \ {i} /\ i \in ActiveOf(t)
  BY <1>0 DEF ActiveOf, Tables
<1>2. IsFiniteSet(ActiveOf(t))
  BY Zenon, IdsAreFinite, SameNotions, FS_Subset DEF ActiveOf
<1>3. Cardinality(ActiveOf(t)) \in Nat /\ Cardinality(ActiveOf(t)) # 0
  BY ZenonT(30), <1>1, <1>2, FS_CardinalityType, FS_EmptySet
<1> QED
  BY ZenonT(30), <1>1, <1>2, <1>3, FS_RemoveElement

(* The facts about counting that the lemmas above assume. *)
LEMMA CountFactsHold == ASSUME SessionAssumption PROVE CountFacts
  BY ZenonT(30), CountBound, CountInsert, CountRemove, FS_EmptySet, SameNotions DEF CountFacts

(* libcloak-mux/src/session.c frees every stream once and not before its   *)
(* last use, whatever the nesting of calls, callbacks, breaks of the pool  *)
(* and teardown timers, with an owner that may release a stream from any   *)
(* callback, though never one that a call further up is using.             *)
THEOREM StreamsAreSafe ==
    SessionAssumption /\ Spec => []MemorySafe
<1>1. SessionAssumption /\ Init => IInv
  BY InitIInv, CountFactsHold
<1>2. IInv /\ [Next]_vars => IInv'
  BY NextKeepsIInv, CountFactsHold DEF IInv
<1>3. IInv => MemorySafe
  BY ZenonT(30), IInvIsEnough
<1> QED
  BY <1>1, <1>2, <1>3, PTL DEF Spec

(* active_stream_count of session.c is exact through all the paths that    *)
(* retire a stream, an idle session has its inactivity timer, and its end  *)
(* is reported to the owner once.                                          *)
THEOREM CountAndReportAreExact ==
    SessionAssumption /\ Spec => []Accounting
<1>1. SessionAssumption /\ Init => IInv
  BY InitIInv, CountFactsHold
<1>2. IInv /\ [Next]_vars => IInv'
  BY NextKeepsIInv, CountFactsHold DEF IInv
<1>3. IInv => Accounting
  BY ZenonT(30), IInvIsEnough
<1> QED
  BY <1>1, <1>2, <1>3, PTL DEF Spec
=============================================================================
