----------------------- MODULE PooledTransactionsProofs -----------------------
(***************************************************************************)
(* Proofs about PooledTransactions: the pool keeps its books, and until a  *)
(* request has had to wait for a connection every request is alone on its  *)
(* connection, so that what it sends with pool.query is one transaction.   *)
(*                                                                         *)
(* Why: the idle connections are a stack. A request that goes on puts its  *)
(* connection on top of the stack and takes it off again in the same step. *)
(***************************************************************************)
EXTENDS PooledTransactions, FiniteSetTheorems, SequenceTheorems, TLAPS

(***************************************************************************)
(* Programs: what can follow a statement                                   *)
(***************************************************************************)
Arriving == On("none", "arrive")
LastRead == Freeing(Query("read"), <<"client", "pre">>)
PreRollback == Freeing(On("pre", "rollback"), <<"pre", "pre">>)
ClientRollback == Freeing(On("client", "rollback"), <<"client", "pre">>)
PreCommit == Freeing(On("pre", "commit"), <<"pre">>)

CreatePairs ==
  {<<Arriving, Query("begin")>>, <<Query("begin"), Query("take")>>,
   <<Query("take"), Query("insert")>>, <<Query("insert"), Query("commit")>>,
   <<Query("commit"), Query("read")>>}
CancelPairs ==
  {<<Arriving, Query("check")>>, <<Query("check"), Query("begin")>>,
   <<Query("begin"), Query("cancel")>>, <<Query("cancel"), Query("open")>>,
   <<Query("open"), Query("commit")>>}
ReschedulePairs ==
  {<<Arriving, On("pre", "begin")>>, <<On("pre", "begin"), On("pre", "lock")>>,
   <<On("pre", "lock"), PreCommit>>, <<PreCommit, Query("window")>>,
   <<Query("window"), On("client", "begin")>>,
   <<On("client", "begin"), On("client", "lock")>>,
   <<On("client", "lock"), On("client", "take")>>,
   <<On("client", "take"), On("client", "cancel")>>,
   <<On("client", "cancel"), On("client", "open")>>,
   <<On("client", "open"), On("client", "insert")>>,
   <<On("client", "insert"), On("client", "commit")>>,
   <<On("client", "commit"), LastRead>>}

Pairs(kind) ==
  CASE kind = "create"     -> CreatePairs
    [] kind = "cancel"     -> CancelPairs
    [] kind = "reschedule" -> ReschedulePairs
Finals(kind) ==
  CASE kind = "create"     -> {Query("read"), Query("rollback")}
    [] kind = "cancel"     -> {Query("commit")}
    [] kind = "reschedule" -> {LastRead, PreRollback, ClientRollback}

Names == {"pre", "client"}
AllStatements ==
  [via : {"none", "pool", "pre", "client"},
   do : Writes \cup {"arrive", "begin", "check", "window", "lock", "commit", "rollback", "read"},
   free : {<<>>, <<"pre">>, <<"pre", "pre">>, <<"client", "pre">>}]

\* Program is closed under Tail: a request is somewhere in its statements, or rolls back.
Program(kind, t) ==
  /\ t \in Seq(AllStatements)
  /\ t # <<>> => t[Len(t)] \in Finals(kind)
  /\ \A i \in 1 .. Len(t) - 1 : <<t[i], t[i + 1]>> \in Pairs(kind)

(***************************************************************************)
(* The inductive invariant: what always holds                              *)
(***************************************************************************)
Rows == Bookings \cup Slots
Statuses == BookingStatus \cup SlotStatus
Typed(f) ==
  \A x \in DOMAIN f : /\ x \in Rows
                      /\ x \in Bookings => f[x] \in BookingStatus
                      /\ x \in Slots => f[x] \in SlotStatus
Writings == UNION {[D -> Statuses] : D \in SUBSET Rows}
Transactions ==
  [open : BOOLEAN, locks : SUBSET Rows, writes : Writings, marks : SUBSET (Requests \X Writes)]
Pools ==
  [idle : Seq(Connections), queue : Seq(Requests), uses : [Connections -> Requests \cup {None}],
   got : [Requests -> Connections \cup {None}], threw : SUBSET Requests, down : BOOLEAN]

\* A connection is idle, once, or somebody has it.
Books(p) ==
  /\ \A i, j \in 1 .. Len(p.idle) : p.idle[i] = p.idle[j] => i = j
  /\ \A c \in Connections :
       p.uses[c] = None <=> \E i \in 1 .. Len(p.idle) : p.idle[i] = c

\* The variables whose connections the request uses or will release are set.
PastBegin(s) == s # Arriving /\ s # On("pre", "begin")
InClient(s) == s = LastRead \/ (s.via = "client" /\ s.do # "begin")
Assigned(r) ==
  todo[r] # <<>> /\ KindOf[r] = "reschedule" =>
    /\ PastBegin(Statement(r)) => held[r].pre \in Connections
    /\ InClient(Statement(r)) => held[r].client \in Connections

HeldVariables == [pre : Connections \cup {None}, client : Connections \cup {None}]

DataOK ==
  /\ conn \in [Connections -> Transactions]
  /\ \A c \in Connections : Typed(conn[c].writes)
  /\ db \in [Rows -> Statuses] /\ Typed(db)
  /\ visible \subseteq Requests \X Writes

BaseInv ==
  /\ pool \in Pools /\ Books(pool)
  /\ held \in [Requests -> HeldVariables]
  /\ DataOK
  /\ saturated \in BOOLEAN
  /\ todo = [r \in Requests |-> todo[r]] /\ \A r \in Requests : Program(KindOf[r], todo[r])
  /\ \A r \in Requests : Assigned(r)

(***************************************************************************)
(* The inductive invariant: what holds until somebody has waited           *)
(***************************************************************************)
Late(s) == s = LastRead
Moving(s) == s.via = "client" \/ s.do = "window"
Outside(s) == s.do \in {"begin", "check", "window", "read"}
Inside(s) == s.do \in Writes \cup {"lock", "commit"}

WritesOf(kind) ==
  CASE kind = "create" -> {"take", "insert"}
    [] kind = "cancel" -> {"cancel", "open"}
    [] kind = "reschedule" -> Writes
DoneBefore(kind, s) ==
  CASE s.do = "insert" -> WritesOf(kind) \ {"insert"}
    [] s.do = "open"   -> WritesOf(kind) \ {"open", "insert"}
    [] s.do = "cancel" -> WritesOf(kind) \ {"cancel", "open", "insert"}
    [] s.do = "commit" /\ s.via # "pre" -> WritesOf(kind)
    [] OTHER -> {}
Marks(r, done) == {<<r, do>> : do \in done}
Committed(r) == visible \cap Marks(r, WritesOf(KindOf[r]))

\* A request has one connection, and another one while it reads after its transaction; the
\* variable clientPre is stale, but names the connection the request has again.
Alone(r) ==
  LET s == Statement(r)
      c == ConnectionOf(r)
  IN
  /\ \A d \in Connections : pool.uses[d] = r <=> d = c \/ (Late(s) /\ d = held[r].client)
  /\ c \in Connections
  /\ Late(s) => /\ held[r].client # c /\ held[r].pre = held[r].client
                /\ conn[held[r].client] = NoTransaction
  /\ Moving(s) => held[r].pre = c

\* How far its transaction is.
Stage(r) ==
  LET s == Statement(r)
      t == conn[ConnectionOf(r)]
  IN
  /\ Outside(s) => t = NoTransaction
  /\ Inside(s) => t.open /\ t.marks = Marks(r, DoneBefore(KindOf[r], s))
  /\ Committed(r) = IF s.do = "read" THEN Marks(r, WritesOf(KindOf[r])) ELSE {}

Turn(r) ==
  /\ todo[r] # <<>> => r \notin pool.threw
  /\ Underway(r) => Alone(r) /\ Stage(r)
  /\ ~Underway(r) =>
       /\ \A d \in Connections : pool.uses[d] # r
       /\ Committed(r) \in {{}, Marks(r, WritesOf(KindOf[r]))}
       /\ todo[r] # <<>> => Committed(r) = {}

CalmInv ==
  /\ pool.queue = <<>>
  /\ \A c \in Connections : pool.uses[c] = None => conn[c] = NoTransaction
  /\ \A r \in Requests : Turn(r)

PoolInv == BaseInv /\ (~saturated => CalmInv)

(***************************************************************************)
(* Programs                                                                *)
(***************************************************************************)
LEMMA StatementTypes ==
  \A kind \in Kinds : Finals(kind) \subseteq AllStatements
  BY DEF Finals, Kinds, AllStatements, Writes,
         Arriving, LastRead, PreRollback, ClientRollback, PreCommit, On, Query, Freeing

\* A program without its first statement is a program.
LEMMA ProgramTail ==
  ASSUME NEW kind \in Kinds, NEW t, Program(kind, t), t # <<>>
  PROVE  /\ Head(t) \in AllStatements /\ Len(t) \in Nat \ {0} /\ t[1] = Head(t)
         /\ Program(kind, Tail(t))
         /\ Tail(t) = <<>> => Head(t) \in Finals(kind)
         /\ Tail(t) # <<>> => <<Head(t), Head(Tail(t))>> \in Pairs(kind)
<1>1. t \in Seq(AllStatements) BY DEF Program
<1>2. /\ Head(t) \in AllStatements /\ Tail(t) \in Seq(AllStatements)
      /\ Len(Tail(t)) = Len(t) - 1
      /\ \A i \in 1 .. Len(Tail(t)) : Tail(t)[i] = t[i + 1]
  BY <1>1, HeadTailProperties
<1>3. /\ Len(t) \in Nat \ {0} /\ t[1] = Head(t)
  BY <1>1
<1>4. Tail(t) = <<>> <=> Len(t) = 1
  <2>1. Tail(t) = <<>> <=> Len(Tail(t)) = 0 BY <1>2, EmptySeq
  <2> QED BY <2>1, <1>2, <1>3
<1>5. Program(kind, Tail(t))
  <2>1. Tail(t) # <<>> => Tail(t)[Len(Tail(t))] \in Finals(kind)
    <3> SUFFICES ASSUME Tail(t) # <<>> PROVE Tail(t)[Len(Tail(t))] \in Finals(kind) OBVIOUS
    <3>1. Len(Tail(t)) \in 1 .. Len(Tail(t)) BY <1>2, <1>3, <1>4
    <3>2. Tail(t)[Len(Tail(t))] = t[Len(t)] BY <3>1, <1>2, <1>3
    <3> QED BY <3>2 DEF Program
  <2>2. \A i \in 1 .. Len(Tail(t)) - 1 : <<Tail(t)[i], Tail(t)[i + 1]>> \in Pairs(kind)
    <3> SUFFICES ASSUME NEW i \in 1 .. Len(Tail(t)) - 1
                 PROVE  <<Tail(t)[i], Tail(t)[i + 1]>> \in Pairs(kind) OBVIOUS
    <3>1. i \in 1 .. Len(Tail(t)) /\ i + 1 \in 1 .. Len(Tail(t)) /\ i + 1 \in 1 .. Len(t) - 1
      BY <1>2, <1>3
    <3>2. Tail(t)[i] = t[i + 1] /\ Tail(t)[i + 1] = t[(i + 1) + 1] BY <3>1, <1>2
    <3> QED BY <3>1, <3>2 DEF Program
  <2> QED BY <1>2, <2>1, <2>2 DEF Program
<1>6. Tail(t) = <<>> => Head(t) \in Finals(kind)
  BY <1>3, <1>4 DEF Program
<1>7. Tail(t) # <<>> => <<Head(t), Head(Tail(t))>> \in Pairs(kind)
  <2> SUFFICES ASSUME Tail(t) # <<>> PROVE <<Head(t), Head(Tail(t))>> \in Pairs(kind) OBVIOUS
  <2>1. Len(Tail(t)) >= 1 /\ Len(t) >= 2 BY <1>2, <1>3, <1>4
  <2>2. Head(Tail(t)) = Tail(t)[1] BY <1>2, <2>1
  <2>3. Tail(t)[1] = t[2] BY <1>2, <2>1
  <2> QED BY <1>3, <2>1, <2>2, <2>3 DEF Program
<1> QED BY <1>2, <1>3, <1>5, <1>6, <1>7

LEMMA ProgramOfOne ==
  ASSUME NEW kind \in Kinds, NEW s \in Finals(kind)
  PROVE  Program(kind, <<s>>) /\ <<s>> # <<>> /\ Head(<<s>>) = s
<1>1. s \in AllStatements BY StatementTypes
<1> QED BY <1>1 DEF Program

LEMMA NoProgram ==
  ASSUME NEW kind \in Kinds
  PROVE  Program(kind, <<>>)
  BY DEF Program

\* The whole programs.
LEMMA WholeCreate ==
  LET t == <<Arriving>> \o CreateStatements
  IN Program("create", t) /\ t # <<>> /\ Head(t) = Arriving
<1> DEFINE t == <<Arriving, Query("begin"), Query("take"),
                  Query("insert"), Query("commit"), Query("read")>>
<1>1. t = <<Arriving>> \o CreateStatements
  BY DEF CreateStatements, CancelStatements, RescheduleStatements, MoveStatements, PreCommit,
         LastRead
<1>2. t \in Seq(AllStatements) /\ Len(t) = 6
  <2>1. \A i \in 1 .. 6 : t[i] \in AllStatements
    BY DEF AllStatements, Arriving, Query, On, Freeing, PreCommit, LastRead, Writes
  <2> QED BY <2>1
<1>3. t[Len(t)] \in Finals("create") BY <1>2 DEF Finals
<1>4. \A i \in 1 .. 5 : <<t[i], t[i + 1]>> \in Pairs("create")
  BY DEF Pairs, CreatePairs, CancelPairs, ReschedulePairs
<1>5. t # <<>> /\ Head(t) = Arriving OBVIOUS
<1> HIDE DEF t
<1>6. Program("create", t) BY <1>2, <1>3, <1>4 DEF Program
<1> QED BY <1>1, <1>5, <1>6

LEMMA WholeCancel ==
  LET t == <<Arriving>> \o CancelStatements
  IN Program("cancel", t) /\ t # <<>> /\ Head(t) = Arriving
<1> DEFINE t == <<Arriving, Query("check"), Query("begin"),
                  Query("cancel"), Query("open"), Query("commit")>>
<1>1. t = <<Arriving>> \o CancelStatements
  BY DEF CreateStatements, CancelStatements, RescheduleStatements, MoveStatements, PreCommit,
         LastRead
<1>2. t \in Seq(AllStatements) /\ Len(t) = 6
  <2>1. \A i \in 1 .. 6 : t[i] \in AllStatements
    BY DEF AllStatements, Arriving, Query, On, Freeing, PreCommit, LastRead, Writes
  <2> QED BY <2>1
<1>3. t[Len(t)] \in Finals("cancel") BY <1>2 DEF Finals
<1>4. \A i \in 1 .. 5 : <<t[i], t[i + 1]>> \in Pairs("cancel")
  BY DEF Pairs, CreatePairs, CancelPairs, ReschedulePairs
<1>5. t # <<>> /\ Head(t) = Arriving OBVIOUS
<1> HIDE DEF t
<1>6. Program("cancel", t) BY <1>2, <1>3, <1>4 DEF Program
<1> QED BY <1>1, <1>5, <1>6

LEMMA WholeReschedule ==
  LET t == <<Arriving>> \o RescheduleStatements
  IN Program("reschedule", t) /\ t # <<>> /\ Head(t) = Arriving
<1> DEFINE t == <<Arriving, On("pre", "begin"), On("pre", "lock"),
                  PreCommit, Query("window"), On("client", "begin"),
                  On("client", "lock"), On("client", "take"), On("client", "cancel"),
                  On("client", "open"), On("client", "insert"), On("client", "commit"),
                  LastRead>>
<1>1. t = <<Arriving>> \o RescheduleStatements
  BY DEF CreateStatements, CancelStatements, RescheduleStatements, MoveStatements, PreCommit,
         LastRead
<1>2. t \in Seq(AllStatements) /\ Len(t) = 13
  <2>1. \A i \in 1 .. 13 : t[i] \in AllStatements
    BY DEF AllStatements, Arriving, Query, On, Freeing, PreCommit, LastRead, Writes
  <2> QED BY <2>1
<1>3. t[Len(t)] \in Finals("reschedule") BY <1>2 DEF Finals
<1>4. \A i \in 1 .. 12 : <<t[i], t[i + 1]>> \in Pairs("reschedule")
  BY DEF Pairs, CreatePairs, CancelPairs, ReschedulePairs
<1>5. t # <<>> /\ Head(t) = Arriving OBVIOUS
<1> HIDE DEF t
<1>6. Program("reschedule", t) BY <1>2, <1>3, <1>4 DEF Program
<1> QED BY <1>1, <1>5, <1>6

LEMMA Whole ==
  ASSUME NEW kind \in Kinds
  PROVE  LET t == <<Arriving>> \o Statements(kind)
         IN Program(kind, t) /\ t # <<>> /\ Head(t) = Arriving
  BY WholeCreate, WholeCancel, WholeReschedule DEF Kinds, Statements

\* The statements that do something, and what comes after them.
Then(kind, t, k, s, next) ==
  kind = k /\ Head(t) = s /\ Tail(t) # <<>> /\ Head(Tail(t)) = next
EndsWith(kind, t, k, s) == kind = k /\ Head(t) = s /\ Tail(t) = <<>>

LEMMA Shapes ==
  /\ Arriving = [via |-> "none", do |-> "arrive", free |-> <<>>]
  /\ LastRead = [via |-> "pool", do |-> "read", free |-> <<"client", "pre">>]
  /\ PreCommit = [via |-> "pre", do |-> "commit", free |-> <<"pre">>]
  /\ PreRollback = [via |-> "pre", do |-> "rollback", free |-> <<"pre", "pre">>]
  /\ ClientRollback = [via |-> "client", do |-> "rollback", free |-> <<"client", "pre">>]
  /\ \A do : Query(do) = [via |-> "pool", do |-> do, free |-> <<>>]
  /\ \A via, do : On(via, do) = [via |-> via, do |-> do, free |-> <<>>]
  BY DEF Arriving, LastRead, PreRollback, ClientRollback, PreCommit, On, Query, Freeing

LEMMA AfterArrive ==
  ASSUME NEW kind \in Kinds, NEW t, Program(kind, t), t # <<>>, Head(t).do = "arrive"
  PROVE  \/ Then(kind, t, "create", Arriving, Query("begin"))
         \/ Then(kind, t, "cancel", Arriving, Query("check"))
         \/ Then(kind, t, "reschedule", Arriving, On("pre", "begin"))
<1>1. /\ Tail(t) = <<>> => Head(t) \in Finals(kind)
      /\ Tail(t) # <<>> => <<Head(t), Head(Tail(t))>> \in Pairs(kind)
  BY ProgramTail
<1>2. CASE Tail(t) = <<>>
  BY <1>1, <1>2, Shapes DEF Kinds, Finals, EndsWith
<1>3. CASE Tail(t) # <<>>
  <2>1. CASE kind = "create"
    BY <1>1, <1>3, <2>1, Shapes DEF Pairs, CreatePairs, Then
  <2>2. CASE kind = "cancel"
    BY <1>1, <1>3, <2>2, Shapes DEF Pairs, CancelPairs, Then
  <2>3. CASE kind = "reschedule"
    BY <1>1, <1>3, <2>3, Shapes DEF Pairs, ReschedulePairs, Then
  <2> QED BY <2>1, <2>2, <2>3 DEF Kinds
<1> QED BY <1>2, <1>3

LEMMA AfterBegin ==
  ASSUME NEW kind \in Kinds, NEW t, Program(kind, t), t # <<>>, Head(t).do = "begin"
  PROVE  \/ Then(kind, t, "create", Query("begin"), Query("take"))
         \/ Then(kind, t, "cancel", Query("begin"), Query("cancel"))
         \/ Then(kind, t, "reschedule", On("pre", "begin"), On("pre", "lock"))
         \/ Then(kind, t, "reschedule", On("client", "begin"), On("client", "lock"))
<1>1. /\ Tail(t) = <<>> => Head(t) \in Finals(kind)
      /\ Tail(t) # <<>> => <<Head(t), Head(Tail(t))>> \in Pairs(kind)
  BY ProgramTail
<1>2. CASE Tail(t) = <<>>
  BY <1>1, <1>2, Shapes DEF Kinds, Finals, EndsWith
<1>3. CASE Tail(t) # <<>>
  <2>1. CASE kind = "create"
    BY <1>1, <1>3, <2>1, Shapes DEF Pairs, CreatePairs, Then
  <2>2. CASE kind = "cancel"
    BY <1>1, <1>3, <2>2, Shapes DEF Pairs, CancelPairs, Then
  <2>3. CASE kind = "reschedule"
    BY <1>1, <1>3, <2>3, Shapes DEF Pairs, ReschedulePairs, Then
  <2> QED BY <2>1, <2>2, <2>3 DEF Kinds
<1> QED BY <1>2, <1>3

LEMMA AfterCheck ==
  ASSUME NEW kind \in Kinds, NEW t, Program(kind, t), t # <<>>, Head(t).do = "check"
  PROVE  \/ Then(kind, t, "cancel", Query("check"), Query("begin"))
<1>1. /\ Tail(t) = <<>> => Head(t) \in Finals(kind)
      /\ Tail(t) # <<>> => <<Head(t), Head(Tail(t))>> \in Pairs(kind)
  BY ProgramTail
<1>2. CASE Tail(t) = <<>>
  BY <1>1, <1>2, Shapes DEF Kinds, Finals, EndsWith
<1>3. CASE Tail(t) # <<>>
  <2>1. CASE kind = "create"
    BY <1>1, <1>3, <2>1, Shapes DEF Pairs, CreatePairs, Then
  <2>2. CASE kind = "cancel"
    BY <1>1, <1>3, <2>2, Shapes DEF Pairs, CancelPairs, Then
  <2>3. CASE kind = "reschedule"
    BY <1>1, <1>3, <2>3, Shapes DEF Pairs, ReschedulePairs, Then
  <2> QED BY <2>1, <2>2, <2>3 DEF Kinds
<1> QED BY <1>2, <1>3

LEMMA AfterWindow ==
  ASSUME NEW kind \in Kinds, NEW t, Program(kind, t), t # <<>>, Head(t).do = "window"
  PROVE  \/ Then(kind, t, "reschedule", Query("window"), On("client", "begin"))
<1>1. /\ Tail(t) = <<>> => Head(t) \in Finals(kind)
      /\ Tail(t) # <<>> => <<Head(t), Head(Tail(t))>> \in Pairs(kind)
  BY ProgramTail
<1>2. CASE Tail(t) = <<>>
  BY <1>1, <1>2, Shapes DEF Kinds, Finals, EndsWith
<1>3. CASE Tail(t) # <<>>
  <2>1. CASE kind = "create"
    BY <1>1, <1>3, <2>1, Shapes DEF Pairs, CreatePairs, Then
  <2>2. CASE kind = "cancel"
    BY <1>1, <1>3, <2>2, Shapes DEF Pairs, CancelPairs, Then
  <2>3. CASE kind = "reschedule"
    BY <1>1, <1>3, <2>3, Shapes DEF Pairs, ReschedulePairs, Then
  <2> QED BY <2>1, <2>2, <2>3 DEF Kinds
<1> QED BY <1>2, <1>3

LEMMA AfterLock ==
  ASSUME NEW kind \in Kinds, NEW t, Program(kind, t), t # <<>>, Head(t).do = "lock"
  PROVE  \/ Then(kind, t, "reschedule", On("pre", "lock"), PreCommit)
         \/ Then(kind, t, "reschedule", On("client", "lock"), On("client", "take"))
<1>1. /\ Tail(t) = <<>> => Head(t) \in Finals(kind)
      /\ Tail(t) # <<>> => <<Head(t), Head(Tail(t))>> \in Pairs(kind)
  BY ProgramTail
<1>2. CASE Tail(t) = <<>>
  BY <1>1, <1>2, Shapes DEF Kinds, Finals, EndsWith
<1>3. CASE Tail(t) # <<>>
  <2>1. CASE kind = "create"
    BY <1>1, <1>3, <2>1, Shapes DEF Pairs, CreatePairs, Then
  <2>2. CASE kind = "cancel"
    BY <1>1, <1>3, <2>2, Shapes DEF Pairs, CancelPairs, Then
  <2>3. CASE kind = "reschedule"
    BY <1>1, <1>3, <2>3, Shapes DEF Pairs, ReschedulePairs, Then
  <2> QED BY <2>1, <2>2, <2>3 DEF Kinds
<1> QED BY <1>2, <1>3

LEMMA AfterTake ==
  ASSUME NEW kind \in Kinds, NEW t, Program(kind, t), t # <<>>, Head(t).do = "take"
  PROVE  \/ Then(kind, t, "create", Query("take"), Query("insert"))
         \/ Then(kind, t, "reschedule", On("client", "take"), On("client", "cancel"))
<1>1. /\ Tail(t) = <<>> => Head(t) \in Finals(kind)
      /\ Tail(t) # <<>> => <<Head(t), Head(Tail(t))>> \in Pairs(kind)
  BY ProgramTail
<1>2. CASE Tail(t) = <<>>
  BY <1>1, <1>2, Shapes DEF Kinds, Finals, EndsWith
<1>3. CASE Tail(t) # <<>>
  <2>1. CASE kind = "create"
    BY <1>1, <1>3, <2>1, Shapes DEF Pairs, CreatePairs, Then
  <2>2. CASE kind = "cancel"
    BY <1>1, <1>3, <2>2, Shapes DEF Pairs, CancelPairs, Then
  <2>3. CASE kind = "reschedule"
    BY <1>1, <1>3, <2>3, Shapes DEF Pairs, ReschedulePairs, Then
  <2> QED BY <2>1, <2>2, <2>3 DEF Kinds
<1> QED BY <1>2, <1>3

LEMMA AfterCancel ==
  ASSUME NEW kind \in Kinds, NEW t, Program(kind, t), t # <<>>, Head(t).do = "cancel"
  PROVE  \/ Then(kind, t, "cancel", Query("cancel"), Query("open"))
         \/ Then(kind, t, "reschedule", On("client", "cancel"), On("client", "open"))
<1>1. /\ Tail(t) = <<>> => Head(t) \in Finals(kind)
      /\ Tail(t) # <<>> => <<Head(t), Head(Tail(t))>> \in Pairs(kind)
  BY ProgramTail
<1>2. CASE Tail(t) = <<>>
  BY <1>1, <1>2, Shapes DEF Kinds, Finals, EndsWith
<1>3. CASE Tail(t) # <<>>
  <2>1. CASE kind = "create"
    BY <1>1, <1>3, <2>1, Shapes DEF Pairs, CreatePairs, Then
  <2>2. CASE kind = "cancel"
    BY <1>1, <1>3, <2>2, Shapes DEF Pairs, CancelPairs, Then
  <2>3. CASE kind = "reschedule"
    BY <1>1, <1>3, <2>3, Shapes DEF Pairs, ReschedulePairs, Then
  <2> QED BY <2>1, <2>2, <2>3 DEF Kinds
<1> QED BY <1>2, <1>3

LEMMA AfterOpen ==
  ASSUME NEW kind \in Kinds, NEW t, Program(kind, t), t # <<>>, Head(t).do = "open"
  PROVE  \/ Then(kind, t, "cancel", Query("open"), Query("commit"))
         \/ Then(kind, t, "reschedule", On("client", "open"), On("client", "insert"))
<1>1. /\ Tail(t) = <<>> => Head(t) \in Finals(kind)
      /\ Tail(t) # <<>> => <<Head(t), Head(Tail(t))>> \in Pairs(kind)
  BY ProgramTail
<1>2. CASE Tail(t) = <<>>
  BY <1>1, <1>2, Shapes DEF Kinds, Finals, EndsWith
<1>3. CASE Tail(t) # <<>>
  <2>1. CASE kind = "create"
    BY <1>1, <1>3, <2>1, Shapes DEF Pairs, CreatePairs, Then
  <2>2. CASE kind = "cancel"
    BY <1>1, <1>3, <2>2, Shapes DEF Pairs, CancelPairs, Then
  <2>3. CASE kind = "reschedule"
    BY <1>1, <1>3, <2>3, Shapes DEF Pairs, ReschedulePairs, Then
  <2> QED BY <2>1, <2>2, <2>3 DEF Kinds
<1> QED BY <1>2, <1>3

LEMMA AfterInsert ==
  ASSUME NEW kind \in Kinds, NEW t, Program(kind, t), t # <<>>, Head(t).do = "insert"
  PROVE  \/ Then(kind, t, "create", Query("insert"), Query("commit"))
         \/ Then(kind, t, "reschedule", On("client", "insert"), On("client", "commit"))
<1>1. /\ Tail(t) = <<>> => Head(t) \in Finals(kind)
      /\ Tail(t) # <<>> => <<Head(t), Head(Tail(t))>> \in Pairs(kind)
  BY ProgramTail
<1>2. CASE Tail(t) = <<>>
  BY <1>1, <1>2, Shapes DEF Kinds, Finals, EndsWith
<1>3. CASE Tail(t) # <<>>
  <2>1. CASE kind = "create"
    BY <1>1, <1>3, <2>1, Shapes DEF Pairs, CreatePairs, Then
  <2>2. CASE kind = "cancel"
    BY <1>1, <1>3, <2>2, Shapes DEF Pairs, CancelPairs, Then
  <2>3. CASE kind = "reschedule"
    BY <1>1, <1>3, <2>3, Shapes DEF Pairs, ReschedulePairs, Then
  <2> QED BY <2>1, <2>2, <2>3 DEF Kinds
<1> QED BY <1>2, <1>3

LEMMA AfterCommit ==
  ASSUME NEW kind \in Kinds, NEW t, Program(kind, t), t # <<>>, Head(t).do = "commit"
  PROVE  \/ Then(kind, t, "create", Query("commit"), Query("read"))
         \/ EndsWith(kind, t, "cancel", Query("commit"))
         \/ Then(kind, t, "reschedule", PreCommit, Query("window"))
         \/ Then(kind, t, "reschedule", On("client", "commit"), LastRead)
<1>1. /\ Tail(t) = <<>> => Head(t) \in Finals(kind)
      /\ Tail(t) # <<>> => <<Head(t), Head(Tail(t))>> \in Pairs(kind)
  BY ProgramTail
<1>2. CASE Tail(t) = <<>>
  BY <1>1, <1>2, Shapes DEF Kinds, Finals, EndsWith
<1>3. CASE Tail(t) # <<>>
  <2>1. CASE kind = "create"
    BY <1>1, <1>3, <2>1, Shapes DEF Pairs, CreatePairs, Then
  <2>2. CASE kind = "cancel"
    BY <1>1, <1>3, <2>2, Shapes DEF Pairs, CancelPairs, Then
  <2>3. CASE kind = "reschedule"
    BY <1>1, <1>3, <2>3, Shapes DEF Pairs, ReschedulePairs, Then
  <2> QED BY <2>1, <2>2, <2>3 DEF Kinds
<1> QED BY <1>2, <1>3

LEMMA AfterRead ==
  ASSUME NEW kind \in Kinds, NEW t, Program(kind, t), t # <<>>, Head(t).do = "read"
  PROVE  \/ EndsWith(kind, t, "create", Query("read"))
         \/ EndsWith(kind, t, "reschedule", LastRead)
<1>1. /\ Tail(t) = <<>> => Head(t) \in Finals(kind)
      /\ Tail(t) # <<>> => <<Head(t), Head(Tail(t))>> \in Pairs(kind)
  BY ProgramTail
<1>2. CASE Tail(t) = <<>>
  BY <1>1, <1>2, Shapes DEF Kinds, Finals, EndsWith
<1>3. CASE Tail(t) # <<>>
  <2>1. CASE kind = "create"
    BY <1>1, <1>3, <2>1, Shapes DEF Pairs, CreatePairs, Then
  <2>2. CASE kind = "cancel"
    BY <1>1, <1>3, <2>2, Shapes DEF Pairs, CancelPairs, Then
  <2>3. CASE kind = "reschedule"
    BY <1>1, <1>3, <2>3, Shapes DEF Pairs, ReschedulePairs, Then
  <2> QED BY <2>1, <2>2, <2>3 DEF Kinds
<1> QED BY <1>2, <1>3

LEMMA AfterRollback ==
  ASSUME NEW kind \in Kinds, NEW t, Program(kind, t), t # <<>>, Head(t).do = "rollback"
  PROVE  \/ EndsWith(kind, t, "create", Query("rollback"))
         \/ EndsWith(kind, t, "reschedule", PreRollback)
         \/ EndsWith(kind, t, "reschedule", ClientRollback)
<1>1. /\ Tail(t) = <<>> => Head(t) \in Finals(kind)
      /\ Tail(t) # <<>> => <<Head(t), Head(Tail(t))>> \in Pairs(kind)
  BY ProgramTail
<1>2. CASE Tail(t) = <<>>
  BY <1>1, <1>2, Shapes DEF Kinds, Finals, EndsWith
<1>3. CASE Tail(t) # <<>>
  <2>1. CASE kind = "create"
    BY <1>1, <1>3, <2>1, Shapes DEF Pairs, CreatePairs, Then
  <2>2. CASE kind = "cancel"
    BY <1>1, <1>3, <2>2, Shapes DEF Pairs, CancelPairs, Then
  <2>3. CASE kind = "reschedule"
    BY <1>1, <1>3, <2>3, Shapes DEF Pairs, ReschedulePairs, Then
  <2> QED BY <2>1, <2>2, <2>3 DEF Kinds
<1> QED BY <1>2, <1>3

(***************************************************************************)
(* The pool                                                                *)
(***************************************************************************)
\* The stack: what is pushed is taken off again.
LEMMA PushPop ==
  ASSUME NEW S, NEW s \in Seq(S), NEW c \in S
  PROVE  /\ Append(s, c) # <<>> /\ Last(Append(s, c)) = c /\ Front(Append(s, c)) = s
<1>1. /\ Append(s, c) \in Seq(S) /\ Append(s, c) # <<>> /\ Len(Append(s, c)) = Len(s) + 1
      /\ \A i \in 1 .. Len(s) : Append(s, c)[i] = s[i]
      /\ Append(s, c)[Len(s) + 1] = c
  BY AppendProperties
<1>2. Front(Append(s, c)) = SubSeq(Append(s, c), 1, Len(s)) BY <1>1, LenProperties DEF Front
<1>3. /\ SubSeq(Append(s, c), 1, Len(s)) \in Seq(S)
      /\ Len(SubSeq(Append(s, c), 1, Len(s))) = Len(s)
      /\ \A i \in 1 .. Len(s) : SubSeq(Append(s, c), 1, Len(s))[i] = s[i]
  BY <1>1
<1>4. SubSeq(Append(s, c), 1, Len(s)) = s BY <1>3, SeqEqual
<1> QED BY <1>1, <1>2, <1>4 DEF Last

LEMMA TopOff ==
  ASSUME NEW S, NEW s \in Seq(S), s # <<>>
  PROVE  /\ Len(s) \in Nat \ {0} /\ Last(s) \in S /\ Last(s) = s[Len(s)]
         /\ Front(s) \in Seq(S) /\ Len(Front(s)) = Len(s) - 1
         /\ \A i \in 1 .. Len(s) - 1 : Front(s)[i] = s[i]
<1>1. PICK n \in Nat \ {0} : n = Len(s) BY EmptySeq
<1>2. \A i \in 1 .. n : s[i] \in S BY <1>1, ElementOfSeq
<1>3. PICK m \in Nat : m = n - 1 OBVIOUS
<1>4. \A i \in 1 .. m : s[i] \in S BY <1>2, <1>3
<1>5. PICK f : f = SubSeq(s, 1, m) OBVIOUS
<1>6. /\ f \in Seq(S) /\ Len(f) = (IF 1 <= m THEN m - 1 + 1 ELSE 0)
      /\ \A i \in 1 .. m - 1 + 1 : f[i] = s[1 + i - 1]
  BY <1>4, <1>5, SubSeqProperties
<1>7. (IF 1 <= m THEN m - 1 + 1 ELSE 0) = m /\ m - 1 + 1 = m /\ \A i \in Int : 1 + i - 1 = i
  OBVIOUS
<1>8. f \in Seq(S) /\ Len(f) = m /\ \A i \in 1 .. m : f[i] = s[i] BY <1>6, <1>7
<1>9. Front(s) = f BY <1>1, <1>3, <1>5 DEF Front
<1>10. Last(s) = s[n] BY <1>1 DEF Last
<1> QED BY <1>1, <1>2, <1>3, <1>8, <1>9, <1>10

LEMMA PoolFields ==
  ASSUME NEW p \in Pools
  PROVE  /\ p.idle \in Seq(Connections) /\ p.queue \in Seq(Requests)
         /\ p.uses \in [Connections -> Requests \cup {None}]
         /\ p.got \in [Requests -> Connections \cup {None}]
         /\ p.threw \subseteq Requests /\ p.down \in BOOLEAN
         /\ Len(p.idle) \in Nat /\ Len(p.queue) \in Nat
         /\ p = [idle |-> p.idle, queue |-> p.queue, uses |-> p.uses, got |-> p.got,
                 threw |-> p.threw, down |-> p.down]
  BY DEF Pools

\* What becomes of the fields.
LEMMA ReleasedFields ==
  ASSUME NEW p \in Pools, NEW c \in Connections
  PROVE  /\ p.queue = <<>> =>
              Released(p, c) = [idle |-> Append(p.idle, c), queue |-> p.queue,
                                uses |-> [p.uses EXCEPT ![c] = None], got |-> p.got,
                                threw |-> p.threw, down |-> p.down]
         /\ p.queue # <<>> =>
              Released(p, c) = [idle |-> p.idle, queue |-> Tail(p.queue),
                                uses |-> [p.uses EXCEPT ![c] = Head(p.queue)],
                                got |-> [p.got EXCEPT ![Head(p.queue)] = c],
                                threw |-> p.threw, down |-> p.down]
  BY DEF Released, Pools

LEMMA RequestedFields ==
  ASSUME NEW p \in Pools, NEW r \in Requests
  PROVE  /\ p.idle = <<>> =>
              Requested(p, r) = [idle |-> p.idle, queue |-> Append(p.queue, r),
                                 uses |-> p.uses, got |-> p.got,
                                 threw |-> p.threw, down |-> p.down]
         /\ p.idle # <<>> =>
              Requested(p, r) = [idle |-> Front(p.idle), queue |-> p.queue,
                                 uses |-> [p.uses EXCEPT ![Last(p.idle)] = r],
                                 got |-> [p.got EXCEPT ![r] = Last(p.idle)],
                                 threw |-> p.threw, down |-> p.down]
  BY DEF Requested, Pools

\* Whatever is released or requested, the books stay right.
LEMMA ReleasedKeeps ==
  ASSUME NEW p \in Pools, Books(p), NEW c \in Connections, p.uses[c] # None
  PROVE  Released(p, c) \in Pools /\ Books(Released(p, c))
<1>1. CASE p.queue = <<>>
  <2>1. PICK q : q = Released(p, c) OBVIOUS
  <2>2. /\ q.idle = Append(p.idle, c) /\ q.queue = p.queue
        /\ q.uses = [p.uses EXCEPT ![c] = None] /\ q.got = p.got
        /\ q.threw = p.threw /\ q.down = p.down
        /\ q = [idle |-> q.idle, queue |-> q.queue, uses |-> q.uses, got |-> q.got,
                threw |-> q.threw, down |-> q.down]
    BY <1>1, <2>1, ReleasedFields
  <2>3. /\ q.idle \in Seq(Connections) /\ Len(q.idle) = Len(p.idle) + 1
        /\ \A i \in 1 .. Len(p.idle) : q.idle[i] = p.idle[i]
        /\ q.idle[Len(p.idle) + 1] = c
    BY <2>2, PoolFields, AppendProperties
  <2>4. q \in Pools
    <3>1. /\ q.uses \in [Connections -> Requests \cup {None}]
          /\ q.queue \in Seq(Requests) /\ q.threw \subseteq Requests /\ q.down \in BOOLEAN
          /\ q.got \in [Requests -> Connections \cup {None}]
      BY <2>2, PoolFields
    <3>2. q.idle \in Seq(Connections) BY <2>3
    <3> QED BY <2>2, <3>1, <3>2 DEF Pools
  <2>5. \A i \in 1 .. Len(p.idle) : p.idle[i] # c
    BY DEF Books
  <2>6. \A i, j \in 1 .. Len(q.idle) : q.idle[i] = q.idle[j] => i = j
    BY <2>3, <2>5, PoolFields DEF Books
  <2>7. ASSUME NEW d \in Connections
        PROVE  q.uses[d] = None <=> \E i \in 1 .. Len(q.idle) : q.idle[i] = d
    <3>1. CASE d = c
      <4>1. q.idle[Len(p.idle) + 1] = d /\ Len(p.idle) + 1 \in 1 .. Len(q.idle)
        BY <3>1, <2>3, PoolFields
      <4> QED BY <3>1, <4>1, <2>2, PoolFields
    <3>2. CASE d # c
      <4>1. q.uses[d] = p.uses[d] BY <3>2, <2>2, PoolFields
      <4>2. (\E i \in 1 .. Len(q.idle) : q.idle[i] = d)
              <=> (\E i \in 1 .. Len(p.idle) : p.idle[i] = d)
        <5>1. ASSUME NEW i \in 1 .. Len(q.idle), q.idle[i] = d
              PROVE  \E j \in 1 .. Len(p.idle) : p.idle[j] = d
          <6>1. i # Len(p.idle) + 1 BY <3>2, <5>1, <2>3
          <6>2. i \in 1 .. Len(p.idle) BY <6>1, <2>3, PoolFields
          <6> QED BY <5>1, <6>2, <2>3
        <5>2. ASSUME NEW i \in 1 .. Len(p.idle), p.idle[i] = d
              PROVE  \E j \in 1 .. Len(q.idle) : q.idle[j] = d
          <6>1. i \in 1 .. Len(q.idle) BY <2>3, PoolFields
          <6> QED BY <5>2, <6>1, <2>3
        <5> QED BY <5>1, <5>2
      <4> QED BY <4>1, <4>2 DEF Books
    <3> QED BY <3>1, <3>2
  <2> QED BY <2>1, <2>4, <2>6, <2>7 DEF Books
<1>2. CASE p.queue # <<>>
  <2>1. PICK q : q = Released(p, c) OBVIOUS
  <2>0. q = [idle |-> p.idle, queue |-> Tail(p.queue),
             uses |-> [p.uses EXCEPT ![c] = Head(p.queue)],
             got |-> [p.got EXCEPT ![Head(p.queue)] = c],
             threw |-> p.threw, down |-> p.down]
    BY <1>2, <2>1, ReleasedFields
  <2>2. /\ q.idle = p.idle /\ q.queue = Tail(p.queue)
        /\ q.uses = [p.uses EXCEPT ![c] = Head(p.queue)]
        /\ q.got = [p.got EXCEPT ![Head(p.queue)] = c]
        /\ q.threw = p.threw /\ q.down = p.down
    BY <2>0
  <2>3. Head(p.queue) \in Requests /\ Tail(p.queue) \in Seq(Requests)
    BY <1>2, PoolFields, HeadTailProperties
  <2>4. q \in Pools
    <3>1. /\ [p.uses EXCEPT ![c] = Head(p.queue)] \in [Connections -> Requests \cup {None}]
          /\ [p.got EXCEPT ![Head(p.queue)] = c] \in [Requests -> Connections \cup {None}]
      BY <2>3, PoolFields
    <3> QED BY <2>0, <2>3, <3>1, PoolFields DEF Pools
  <2>5. Head(p.queue) # None BY <2>3, PoolAssumption
  <2>6. \A d \in Connections : q.uses[d] = None <=> p.uses[d] = None
    BY <2>2, <2>5, PoolFields
  <2> QED BY <2>1, <2>2, <2>4, <2>6 DEF Books
<1> QED BY <1>1, <1>2

LEMMA RequestedKeeps ==
  ASSUME NEW p \in Pools, Books(p), NEW r \in Requests
  PROVE  Requested(p, r) \in Pools /\ Books(Requested(p, r))
<1>1. PICK q : q = Requested(p, r) OBVIOUS
<1>2. CASE p.idle = <<>>
  <2>1. /\ q.idle = p.idle /\ q.queue = Append(p.queue, r)
        /\ q.uses = p.uses /\ q.got = p.got /\ q.threw = p.threw /\ q.down = p.down
        /\ q = [idle |-> q.idle, queue |-> q.queue, uses |-> q.uses, got |-> q.got,
                threw |-> q.threw, down |-> q.down]
    BY <1>1, <1>2, RequestedFields
  <2>2. q.queue \in Seq(Requests) BY <2>1, PoolFields, AppendProperties
  <2>3. q \in Pools BY <2>1, <2>2, PoolFields DEF Pools
  <2> QED BY <1>1, <2>1, <2>3 DEF Books
<1>3. CASE p.idle # <<>>
  <2> DEFINE c == Last(p.idle)
             n == Len(p.idle)
  <2>1. /\ q.idle = Front(p.idle) /\ q.queue = p.queue
        /\ q.uses = [p.uses EXCEPT ![c] = r] /\ q.got = [p.got EXCEPT ![r] = c]
        /\ q.threw = p.threw /\ q.down = p.down
        /\ q = [idle |-> q.idle, queue |-> q.queue, uses |-> q.uses, got |-> q.got,
                threw |-> q.threw, down |-> q.down]
    BY <1>1, <1>3, RequestedFields
  <2>2. /\ n \in Nat \ {0} /\ c \in Connections /\ c = p.idle[n]
        /\ q.idle \in Seq(Connections) /\ Len(q.idle) = n - 1
        /\ \A i \in 1 .. n - 1 : q.idle[i] = p.idle[i]
    <3>1. p.idle \in Seq(Connections) BY PoolFields
    <3>2. /\ n \in Nat \ {0} /\ c \in Connections /\ c = p.idle[n]
          /\ Front(p.idle) \in Seq(Connections) /\ Len(Front(p.idle)) = n - 1
          /\ \A i \in 1 .. n - 1 : Front(p.idle)[i] = p.idle[i]
      BY <1>3, <3>1, TopOff
    <3> QED BY <2>1, <3>2
  <2> HIDE DEF c, n
  <2>3. q \in Pools
    <3>1. /\ [p.uses EXCEPT ![c] = r] \in [Connections -> Requests \cup {None}]
          /\ [p.got EXCEPT ![r] = c] \in [Requests -> Connections \cup {None}]
      BY <2>2, PoolFields
    <3> QED BY <2>1, <2>2, <3>1, PoolFields DEF Pools
  <2>4. \A i, j \in 1 .. Len(q.idle) : q.idle[i] = q.idle[j] => i = j
    BY <2>2 DEF Books, n
  <2>5. ASSUME NEW d \in Connections
        PROVE  q.uses[d] = None <=> \E i \in 1 .. Len(q.idle) : q.idle[i] = d
    <3>1. CASE d = c
      <4>1. q.uses[d] # None BY <3>1, <2>1, <2>2, PoolFields, PoolAssumption
      <4>2. \A i \in 1 .. Len(q.idle) : q.idle[i] # d
        BY <3>1, <2>2 DEF Books, n
      <4> QED BY <4>1, <4>2
    <3>2. CASE d # c
      <4>1. q.uses[d] = p.uses[d] BY <3>2, <2>1, PoolFields
      <4>2. (\E i \in 1 .. Len(q.idle) : q.idle[i] = d) <=> (\E i \in 1 .. n : p.idle[i] = d)
        BY <3>2, <2>2
      <4> QED BY <4>1, <4>2 DEF Books, n
    <3> QED BY <3>1, <3>2
  <2> QED BY <1>1, <2>3, <2>4, <2>5 DEF Books
<1> QED BY <1>2, <1>3

LEMMA FreedKeeps ==
  ASSUME NEW p \in Pools, Books(p), NEW r \in Requests, NEW name, held[r][name] \in Connections
  PROVE  Freed(p, r, name) \in Pools /\ Books(Freed(p, r, name))
<1>1. CASE p.uses[held[r][name]] = None
  BY <1>1 DEF Freed, Pools, Books
<1>2. CASE p.uses[held[r][name]] # None
  BY <1>2, ReleasedKeeps DEF Freed
<1> QED BY <1>1, <1>2

LEMMA QueryDoneKeeps ==
  ASSUME NEW p \in Pools, Books(p), NEW c \in Connections
  PROVE  QueryDone(p, c) \in Pools /\ Books(QueryDone(p, c))
<1>1. CASE p.uses[c] = None
  BY <1>1 DEF QueryDone, Pools, Books
<1>2. CASE p.uses[c] # None
  BY <1>2, ReleasedKeeps DEF QueryDone
<1> QED BY <1>1, <1>2

(***************************************************************************)
(* What always holds is kept                                               *)
(***************************************************************************)
\* Where a statement stands in the program of a reschedule.
LEMMA NextAssigned ==
  ASSUME NEW t, Program("reschedule", t), t # <<>>
  PROVE  /\ Tail(t) # <<>> /\ PastBegin(Head(Tail(t))) =>
              PastBegin(Head(t)) \/ Head(t) = On("pre", "begin")
         /\ Tail(t) # <<>> /\ InClient(Head(Tail(t))) =>
              InClient(Head(t)) \/ Head(t) = On("client", "begin")
         /\ Head(t).free \in {<<>>, <<"pre">>, <<"pre", "pre">>, <<"client", "pre">>}
         /\ Head(t).free # <<>> => PastBegin(Head(t))
         /\ Head(t).free = <<"client", "pre">> => InClient(Head(t))
<1>1. /\ Tail(t) = <<>> => Head(t) \in Finals("reschedule")
      /\ Tail(t) # <<>> => <<Head(t), Head(Tail(t))>> \in Pairs("reschedule")
  BY ProgramTail DEF Kinds
<1>2. CASE Tail(t) = <<>>
  BY <1>1, <1>2, Shapes DEF Finals, PastBegin, InClient
<1>3. CASE Tail(t) # <<>>
  BY <1>1, <1>3, Shapes DEF Pairs, ReschedulePairs, PastBegin, InClient
<1> QED BY <1>2, <1>3

LEMMA OtherPrograms ==
  ASSUME NEW kind \in Kinds, NEW t, Program(kind, t), t # <<>>
  PROVE  /\ Head(t).via = "none" => Head(t).do = "arrive"
         /\ kind # "reschedule" => Head(t).free = <<>> /\ Head(t).via \in {"none", "pool"}
<1>1. /\ Tail(t) = <<>> => Head(t) \in Finals(kind)
      /\ Tail(t) # <<>> => <<Head(t), Head(Tail(t))>> \in Pairs(kind)
  BY ProgramTail
<1>2. CASE Tail(t) = <<>>
  BY <1>1, <1>2, Shapes DEF Finals, Kinds
<1>3. CASE Tail(t) # <<>>
  <2>1. CASE kind = "create" BY <1>1, <1>3, <2>1, Shapes DEF Pairs, CreatePairs
  <2>2. CASE kind = "cancel" BY <1>1, <1>3, <2>2, Shapes DEF Pairs, CancelPairs
  <2>3. CASE kind = "reschedule" BY <1>1, <1>3, <2>3, Shapes DEF Pairs, ReschedulePairs
  <2> QED BY <2>1, <2>2, <2>3 DEF Kinds
<1> QED BY <1>2, <1>3

LEMMA KindInKinds == \A r \in Requests : KindOf[r] \in Kinds
  BY PoolAssumption

LEMMA StatementFacts ==
  ASSUME BaseInv, NEW r \in Requests, todo[r] # <<>>
  PROVE  /\ Program(KindOf[r], todo[r]) /\ KindOf[r] \in Kinds
         /\ Statement(r) \in AllStatements
         /\ Statement(r).via = "none" => Statement(r).do = "arrive"
         /\ KindOf[r] # "reschedule" =>
              Statement(r).free = <<>> /\ Statement(r).via \in {"none", "pool"}
  BY KindInKinds, ProgramTail, OtherPrograms DEF BaseInv, Statement

LEMMA SentConnection ==
  ASSUME BaseInv, NEW r \in Requests, Sent(r)
  PROVE  ConnectionOf(r) \in Connections
<1>1. todo[r] # <<>> /\ Statement(r).do # "arrive" /\ ConnectionOf(r) # None
  BY DEF Sent, Underway
<1>2. Statement(r).via \in {"pool", "pre", "client"}
  BY <1>1, StatementFacts DEF AllStatements
<1>3. pool.got[r] \in Connections \cup {None} BY PoolFields DEF BaseInv
<1>4. held[r].pre \in Connections \cup {None} /\ held[r].client \in Connections \cup {None}
  BY DEF BaseInv, HeldVariables
<1>5. CASE Borrows(Statement(r)) BY <1>1, <1>3, <1>5 DEF ConnectionOf
<1>6. CASE ~Borrows(Statement(r))
  <2>1. Statement(r).via \in {"pre", "client"} BY <1>2, <1>6 DEF Borrows
  <2> QED BY <1>1, <1>4, <1>6, <2>1 DEF ConnectionOf
<1> QED BY <1>5, <1>6

\* Names that are assigned can be released.
LEMMA FreedAllKeeps ==
  ASSUME NEW p \in Pools, Books(p), NEW r \in Requests,
         NEW names \in {<<>>, <<"pre">>, <<"pre", "pre">>, <<"client", "pre">>},
         names # <<>> => held[r].pre \in Connections,
         names = <<"client", "pre">> => held[r].client \in Connections
  PROVE  FreedAll(p, r, names) \in Pools /\ Books(FreedAll(p, r, names))
<1>1. CASE names = <<>>
  <2>1. FreedAll(p, r, names) = p BY <1>1 DEF FreedAll
  <2> QED BY <2>1
<1>2. CASE names = <<"pre">>
  <2>1. FreedAll(p, r, names) = Freed(p, r, "pre") BY <1>2 DEF FreedAll
  <2>2. held[r]["pre"] \in Connections BY <1>2
  <2> QED BY <2>1, <2>2, FreedKeeps
<1>3. CASE names = <<"pre", "pre">>
  <2>1. FreedAll(p, r, names) = Freed(Freed(p, r, "pre"), r, "pre")
    BY <1>3 DEF FreedAll
  <2>2. held[r]["pre"] \in Connections BY <1>3
  <2>3. Freed(p, r, "pre") \in Pools /\ Books(Freed(p, r, "pre")) BY <2>2, FreedKeeps
  <2> QED BY <2>1, <2>2, <2>3, FreedKeeps
<1>4. CASE names = <<"client", "pre">>
  <2>1. FreedAll(p, r, names) = Freed(Freed(p, r, "client"), r, "pre")
    BY <1>4 DEF FreedAll
  <2>2. held[r]["pre"] \in Connections /\ held[r]["client"] \in Connections BY <1>4
  <2>3. Freed(p, r, "client") \in Pools /\ Books(Freed(p, r, "client")) BY <2>2, FreedKeeps
  <2> QED BY <2>1, <2>2, <2>3, FreedKeeps
<1> QED BY <1>1, <1>2, <1>3, <1>4

LEMMA ProceedKeeps ==
  ASSUME BaseInv, NEW r \in Requests, NEW rest,
         NEW names \in {<<>>, <<"pre">>, <<"pre", "pre">>, <<"client", "pre">>},
         names # <<>> => held[r].pre \in Connections,
         names = <<"client", "pre">> => held[r].client \in Connections,
         Statement(r).via = "pool" => ConnectionOf(r) \in Connections,
         Proceed(r, names, rest)
  PROVE  /\ pool' \in Pools /\ Books(pool')
         /\ todo' \in {[todo EXCEPT ![r] = <<>>], [todo EXCEPT ![r] = rest]}
         /\ saturated' = (saturated \/ pool'.queue # <<>>)
<1> DEFINE s == Statement(r)
           taken == [pool EXCEPT !.got[r] = IF Borrows(s) THEN None ELSE @]
           given == IF s.via = "pool" THEN QueryDone(taken, ConnectionOf(r)) ELSE taken
           freed == FreedAll(given, r, names)
           next == IF r \in freed.threw THEN <<>> ELSE rest
<1>1. taken \in Pools /\ Books(taken)
  BY DEF BaseInv, Pools, Books
<1>2. given \in Pools /\ Books(given)
  <2> HIDE DEF taken
  <2> QED BY <1>1, QueryDoneKeeps
<1>3. freed \in Pools /\ Books(freed)
  <2> HIDE DEF given
  <2> QED BY <1>2, FreedAllKeeps
<1>4. /\ todo' = [todo EXCEPT ![r] = next]
      /\ pool' = IF next # <<>> /\ Borrows(Head(next)) THEN Requested(freed, r) ELSE freed
      /\ saturated' = (saturated \/ pool'.queue # <<>>)
  BY DEF Proceed
<1>5. next \in {<<>>, rest} OBVIOUS
<1> HIDE DEF freed, next
<1>6. pool' \in Pools /\ Books(pool')
  BY <1>3, <1>4, RequestedKeeps
<1> QED BY <1>4, <1>5, <1>6

\* A step of one request, given what it does to the data and to its variables.
LEMMA BaseStep ==
  ASSUME BaseInv, NEW r \in Requests, todo[r] # <<>>, NEW rest,
         NEW names \in {<<>>, <<"pre">>, <<"pre", "pre">>, <<"client", "pre">>},
         names # <<>> => held[r].pre \in Connections,
         names = <<"client", "pre">> => held[r].client \in Connections,
         Statement(r).via = "pool" => ConnectionOf(r) \in Connections,
         Proceed(r, names, rest),
         Program(KindOf[r], rest), DataOK',
         held' \in [Requests -> HeldVariables],
         \A q \in Requests \ {r} : held'[q] = held[q],
         rest # <<>> /\ KindOf[r] = "reschedule" =>
           /\ PastBegin(Head(rest)) => held'[r].pre \in Connections
           /\ InClient(Head(rest)) => held'[r].client \in Connections
  PROVE  BaseInv'
<1>1. /\ pool' \in Pools /\ Books(pool')
      /\ todo' \in {[todo EXCEPT ![r] = <<>>], [todo EXCEPT ![r] = rest]}
      /\ saturated' = (saturated \/ pool'.queue # <<>>)
  BY ProceedKeeps
<1>2. saturated' \in BOOLEAN BY <1>1 DEF BaseInv
<1>3. /\ todo' = [q \in Requests |-> todo'[q]] /\ todo'[r] \in {<<>>, rest}
      /\ \A q \in Requests \ {r} : todo'[q] = todo[q]
  BY <1>1 DEF BaseInv
<1>4. \A q \in Requests : Program(KindOf[q], todo'[q])
  BY <1>3, NoProgram, KindInKinds DEF BaseInv
<1>5. ASSUME NEW q \in Requests PROVE Assigned(q)'
  <2>1. CASE q = r BY <1>3, <2>1 DEF Assigned, Statement
  <2>2. CASE q # r
    <3>1. todo'[q] = todo[q] /\ held'[q] = held[q] /\ Assigned(q) BY <1>3, <2>2 DEF BaseInv
    <3> QED BY <3>1 DEF Assigned, Statement
  <2> QED BY <2>1, <2>2
<1> QED BY <1>1, <1>2, <1>3, <1>4, <1>5 DEF BaseInv

\* The request goes on with its next statement; Begin may set the variable it is sent on.
LEMMA GoesOnKeeps ==
  ASSUME BaseInv, NEW r \in Requests, todo[r] # <<>>,
         Statement(r).via = "pool" => ConnectionOf(r) \in Connections,
         GoesOn(r), DataOK',
         \/ held' = held /\ (Statement(r).do = "begin" => Statement(r).via = "pool")
         \/ /\ Statement(r).do = "begin" /\ Statement(r).via \in {"pre", "client"}
            /\ ConnectionOf(r) \in Connections
            /\ held' = [held EXCEPT ![r][Statement(r).via] = ConnectionOf(r)]
  PROVE  BaseInv'
<1> DEFINE s == Statement(r)
           rest == Tail(todo[r])
<1>1. /\ Program(KindOf[r], todo[r]) /\ KindOf[r] \in Kinds /\ s \in AllStatements
      /\ KindOf[r] # "reschedule" => s.free = <<>> /\ s.via \in {"none", "pool"}
  BY StatementFacts
<1>2. Program(KindOf[r], rest) BY <1>1, ProgramTail
<1>3. Proceed(r, s.free, rest) BY DEF GoesOn
<1>4. s.free \in {<<>>, <<"pre">>, <<"pre", "pre">>, <<"client", "pre">>}
  BY <1>1 DEF AllStatements
<1>5. held[r] \in HeldVariables BY DEF BaseInv
<1>6. /\ held' \in [Requests -> HeldVariables]
      /\ \A q \in Requests \ {r} : held'[q] = held[q]
      /\ held'[r].pre \in {held[r].pre, ConnectionOf(r)}
      /\ held'[r].client \in {held[r].client, ConnectionOf(r)}
  <2>1. CASE held' = held BY <2>1 DEF BaseInv
  <2>2. CASE s.via = "pre" /\ held' = [held EXCEPT ![r][s.via] = ConnectionOf(r)] /\ ConnectionOf(r) \in Connections
    BY <2>2, <1>5 DEF BaseInv, HeldVariables
  <2>3. CASE s.via = "client" /\ held' = [held EXCEPT ![r][s.via] = ConnectionOf(r)] /\ ConnectionOf(r) \in Connections
    BY <2>3, <1>5 DEF BaseInv, HeldVariables
  <2> QED BY <2>1, <2>2, <2>3
<1>7. ASSUME KindOf[r] = "reschedule"
      PROVE  /\ rest # <<>> /\ PastBegin(Head(rest)) => held'[r].pre \in Connections
             /\ rest # <<>> /\ InClient(Head(rest)) => held'[r].client \in Connections
             /\ s.free # <<>> => held[r].pre \in Connections
             /\ s.free = <<"client", "pre">> => held[r].client \in Connections
  <2>1. /\ PastBegin(s) => held[r].pre \in Connections
        /\ InClient(s) => held[r].client \in Connections
    BY <1>7 DEF BaseInv, Assigned
  <2>2. /\ rest # <<>> /\ PastBegin(Head(rest)) => PastBegin(s) \/ s = On("pre", "begin")
        /\ rest # <<>> /\ InClient(Head(rest)) => InClient(s) \/ s = On("client", "begin")
        /\ s.free # <<>> => PastBegin(s)
        /\ s.free = <<"client", "pre">> => InClient(s)
    BY <1>1, <1>7, NextAssigned DEF Statement
  <2>3. s = On("pre", "begin") => held'[r].pre \in Connections
    <3> SUFFICES ASSUME s = On("pre", "begin") PROVE held'[r].pre \in Connections OBVIOUS
    <3>1. s.via = "pre" /\ s.do = "begin" BY Shapes
    <3>2. ConnectionOf(r) \in Connections /\ held' = [held EXCEPT ![r]["pre"] = ConnectionOf(r)]
      BY <3>1
    <3> QED BY <1>5, <3>2 DEF BaseInv, HeldVariables
  <2>4. s = On("client", "begin") => held'[r].client \in Connections
    <3> SUFFICES ASSUME s = On("client", "begin") PROVE held'[r].client \in Connections OBVIOUS
    <3>1. s.via = "client" /\ s.do = "begin" BY Shapes
    <3>2. ConnectionOf(r) \in Connections /\ held' = [held EXCEPT ![r]["client"] = ConnectionOf(r)]
      BY <3>1
    <3> QED BY <1>5, <3>2 DEF BaseInv, HeldVariables
  <2>5. \/ held'[r].pre = held[r].pre \/ held'[r].pre \in Connections
    BY <1>6, <1>5
  <2>6. \/ held'[r].client = held[r].client \/ held'[r].client \in Connections
    BY <1>6, <1>5
  <2> QED BY <2>1, <2>2, <2>3, <2>4, <2>5, <2>6
<1>8. KindOf[r] # "reschedule" => s.free = <<>> BY <1>1
<1> HIDE DEF s, rest
<1> QED BY <1>2, <1>3, <1>4, <1>6, <1>7, <1>8, BaseStep DEF s

RollbackDoes == {"lock", "take", "cancel", "open", "insert"}

LEMMA RollbackShape ==
  ASSUME NEW kind \in {"create", "reschedule"}, NEW t, Program(kind, t), t # <<>>,
         Head(t).do \in RollbackDoes
  PROVE  LET s == Head(t) IN
         /\ kind = "create" => s.via = "pool" /\ RollbackOf(s.via) = <<Query("rollback")>>
         /\ kind = "reschedule" =>
              /\ PastBegin(s)
              /\ \/ s.via = "pre" /\ s.do = "lock" /\ RollbackOf(s.via) = <<PreRollback>>
                 \/ s.via = "client" /\ InClient(s) /\ RollbackOf(s.via) = <<ClientRollback>>
<1>1. Head(t).do \in {"lock", "take", "cancel", "open", "insert"} BY DEF RollbackDoes
<1>2. kind \in Kinds BY DEF Kinds
<1>3. /\ kind = "create" => Head(t).via = "pool"
      /\ kind = "reschedule" => \/ Head(t).via = "pre" /\ Head(t).do = "lock"
                                \/ Head(t).via = "client"
  <2>1. CASE Head(t).do = "lock" BY <1>2, <2>1, AfterLock, Shapes DEF Then
  <2>2. CASE Head(t).do = "take" BY <1>2, <2>2, AfterTake, Shapes DEF Then
  <2>3. CASE Head(t).do = "cancel" BY <1>2, <2>3, AfterCancel, Shapes DEF Then
  <2>4. CASE Head(t).do = "open" BY <1>2, <2>4, AfterOpen, Shapes DEF Then
  <2>5. CASE Head(t).do = "insert" BY <1>2, <2>5, AfterInsert, Shapes DEF Then
  <2> QED BY <1>1, <2>1, <2>2, <2>3, <2>4, <2>5
<1>4. kind = "reschedule" => PastBegin(Head(t)) BY <1>1, Shapes DEF PastBegin
<1>5. Head(t).via = "client" => InClient(Head(t)) BY <1>1 DEF InClient
<1>6. /\ RollbackOf("pool") = <<Query("rollback")>>
      /\ RollbackOf("pre") = <<PreRollback>>
      /\ RollbackOf("client") = <<ClientRollback>>
  BY DEF RollbackOf, Finally, PreRollback, ClientRollback
<1> QED BY <1>3, <1>4, <1>5, <1>6

LEMMA RollsBackKeeps ==
  ASSUME BaseInv, NEW r \in Requests, Sent(r), Statement(r).do \in RollbackDoes,
         KindOf[r] # "cancel", RollsBack(r), DataOK', held' = held
  PROVE  BaseInv'
<1> DEFINE s == Statement(r)
           rest == RollbackOf(s.via)
<1>1. todo[r] # <<>> /\ ConnectionOf(r) \in Connections
  BY SentConnection DEF Sent, Underway
<1>2. /\ Program(KindOf[r], todo[r]) /\ KindOf[r] \in {"create", "reschedule"}
  BY <1>1, StatementFacts DEF Kinds
<1>3. /\ KindOf[r] = "create" => s.via = "pool" /\ rest = <<Query("rollback")>>
      /\ KindOf[r] = "reschedule" =>
              /\ PastBegin(s)
              /\ \/ s.via = "pre" /\ s.do = "lock" /\ rest = <<PreRollback>>
                 \/ s.via = "client" /\ InClient(s) /\ rest = <<ClientRollback>>
  BY <1>1, <1>2, RollbackShape DEF Statement
<1>4. /\ KindOf[r] = "create" => Query("rollback") \in Finals(KindOf[r])
      /\ KindOf[r] = "reschedule" =>
           PreRollback \in Finals(KindOf[r]) /\ ClientRollback \in Finals(KindOf[r])
  BY DEF Finals
<1>5. Program(KindOf[r], rest) BY <1>2, <1>3, <1>4, ProgramOfOne DEF Kinds
<1>6. Proceed(r, <<>>, rest) BY DEF RollsBack
<1>7. held' \in [Requests -> HeldVariables] BY DEF BaseInv
<1>8. ASSUME KindOf[r] = "reschedule"
      PROVE  /\ PastBegin(Head(rest)) => held'[r].pre \in Connections
             /\ InClient(Head(rest)) => held'[r].client \in Connections
  <2>1. /\ held[r].pre \in Connections
        /\ InClient(s) => held[r].client \in Connections
    BY <1>1, <1>3, <1>8 DEF BaseInv, Assigned
  <2>2. CASE s.via = "pre" /\ s.do = "lock" /\ rest = <<PreRollback>>
    <3>1. ~InClient(Head(rest)) BY <2>2, Shapes DEF InClient
    <3> QED BY <2>1, <3>1
  <2>3. CASE s.via = "client" /\ InClient(s) /\ rest = <<ClientRollback>>
    BY <2>1, <2>3
  <2> QED BY <1>3, <1>8, <2>2, <2>3
<1> HIDE DEF s, rest
<1> QED BY <1>1, <1>5, <1>6, <1>7, <1>8, BaseStep

LEMMA StopsKeeps ==
  ASSUME BaseInv, NEW r \in Requests, Sent(r), NEW names \in {<<>>, <<"pre">>},
         names # <<>> => KindOf[r] = "reschedule" /\ PastBegin(Statement(r)),
         Proceed(r, names, <<>>), DataOK', held' = held
  PROVE  BaseInv'
<1>1. todo[r] # <<>> /\ ConnectionOf(r) \in Connections
  BY SentConnection DEF Sent, Underway
<1>2. Program(KindOf[r], <<>>) BY KindInKinds, NoProgram
<1>3. held' \in [Requests -> HeldVariables] BY DEF BaseInv
<1>4. names # <<>> => held[r].pre \in Connections BY <1>1 DEF BaseInv, Assigned
<1>5. names # <<"client", "pre">> OBVIOUS
<1>6. names \in {<<>>, <<"pre">>, <<"pre", "pre">>, <<"client", "pre">>} OBVIOUS
<1> QED BY <1>1, <1>2, <1>3, <1>4, <1>5, <1>6, BaseStep

(***************************************************************************)
(* The rows keep their types                                               *)
(***************************************************************************)
RowStatus(row, status) ==
  /\ row \in Rows
  /\ row \in Bookings => status \in BookingStatus
  /\ row \in Slots => status \in SlotStatus

LEMMA ConnData ==
  ASSUME DataOK, NEW c \in Connections, NEW t \in Transactions, Typed(t.writes),
         conn' = [conn EXCEPT ![c] = t], db' = db, visible' = visible
  PROVE  DataOK'
  BY DEF DataOK

LEMMA WriteData ==
  ASSUME DataOK, NEW r \in Requests, ConnectionOf(r) \in Connections,
         Statement(r).do \in Writes, NEW row, NEW status, RowStatus(row, status),
         Write(r, row, status)
  PROVE  DataOK'
<1> DEFINE c == ConnectionOf(r)
           w == conn[c].writes
           v == [x \in DOMAIN w \cup {row} |-> IF x = row THEN status ELSE w[x]]
           mark == <<r, Statement(r).do>>
<1>1. conn[c] \in Transactions /\ w \in Writings /\ Typed(w)
  BY DEF DataOK, Transactions
<1>2. status \in Statuses /\ row \in Rows BY DEF RowStatus, Statuses, Rows
<1>3. mark \in Requests \X Writes OBVIOUS
<1>4. v \in Writings /\ Typed(v)
  <2>1. PICK D \in SUBSET Rows : w \in [D -> Statuses] BY <1>1 DEF Writings
  <2>2. v \in [D \cup {row} -> Statuses] /\ D \cup {row} \in SUBSET Rows BY <1>2, <2>1
  <2>3. Typed(v) BY <1>1, <1>2, <2>1 DEF Typed, RowStatus
  <2> QED BY <2>2, <2>3 DEF Writings
<1>5. CASE conn[c].open
  <2>1. /\ conn' = [conn EXCEPT ![c].writes = v, ![c].locks = @ \cup {row},
                                ![c].marks = @ \cup {mark}]
        /\ db' = db /\ visible' = visible
    BY <1>5 DEF Write
  <2> HIDE DEF v, mark
  <2>2. PICK t : t = [conn[c] EXCEPT !.writes = v, !.locks = @ \cup {row}, !.marks = @ \cup {mark}]
    OBVIOUS
  <2>3. t \in Transactions /\ t.writes = v BY <1>1, <1>2, <1>3, <1>4, <2>2 DEF Transactions
  <2>4. conn' = [conn EXCEPT ![c] = t] BY <2>1, <2>2, <1>1 DEF DataOK, Transactions
  <2>5. Typed(t.writes) BY <1>4, <2>3
  <2>6. c \in Connections OBVIOUS
  <2> HIDE DEF c
  <2> QED BY <2>1, <2>3, <2>4, <2>5, <2>6, ConnData
<1>6. CASE ~conn[c].open
  <2>1. db' = [db EXCEPT ![row] = status] /\ visible' = visible \cup {mark} /\ conn' = conn
    BY <1>6 DEF Write
  <2>2. Typed(db') BY <2>1, <1>2 DEF DataOK, Typed, RowStatus
  <2> QED BY <1>2, <1>3, <2>1, <2>2 DEF DataOK
<1> QED BY <1>5, <1>6

\* What becomes of the transaction on one connection.
LEMMA NoTransactionTyped ==
  /\ NoTransaction \in Transactions /\ Typed(NoTransaction.writes)
  /\ NoTransaction.marks = {} /\ ~NoTransaction.open
  /\ \A open \in BOOLEAN :
       LET t == [NoTransaction EXCEPT !.open = open]
       IN t \in Transactions /\ Typed(t.writes)
<1>1. <<>> \in Writings /\ Typed(<<>>)
  <2>1. <<>> \in [{} -> Statuses]
    <3>1. <<>> \in Seq(Statuses) /\ Len(<<>>) = 0 BY EmptySeq
    <3>2. <<>> \in [1 .. Len(<<>>) -> Statuses] BY <3>1, LenProperties
    <3>3. 1 .. Len(<<>>) = {} BY <3>1
    <3> QED BY <3>2, <3>3
  <2> QED BY <2>1 DEF Writings, Typed
<1> QED BY <1>1 DEF NoTransaction, Transactions

LEMMA CommitData ==
  ASSUME DataOK, NEW r \in Requests, ConnectionOf(r) \in Connections, Commit(r)
  PROVE  DataOK'
<1> DEFINE c == ConnectionOf(r)
           w == conn[c].writes
<1>1. conn[c] \in Transactions /\ Typed(w) /\ conn[c].marks \subseteq Requests \X Writes
  BY DEF DataOK, Transactions
<1>2. /\ db' = [row \in DOMAIN db |-> IF row \in DOMAIN w THEN w[row] ELSE db[row]]
      /\ visible' = visible \cup conn[c].marks
      /\ conn' = [conn EXCEPT ![c] = NoTransaction]
  BY DEF Commit, Seen
<1>3. DOMAIN db = Rows BY DEF DataOK
<1>4. Typed(db') BY <1>1, <1>2 DEF DataOK, Typed
<1>5. db' \in [Rows -> Statuses]
  <2>1. \A row \in Rows : db'[row] \in Statuses
    BY <1>2, <1>3, <1>4 DEF Typed, Statuses, Rows
  <2> QED BY <1>2, <1>3, <2>1
<1> HIDE DEF c
<1> QED BY <1>1, <1>2, <1>4, <1>5, NoTransactionTyped DEF DataOK, c

(***************************************************************************)
(* Every action keeps what always holds                                    *)
(***************************************************************************)
\* A step that changes no data.
LEMMA SameData ==
  ASSUME DataOK, UNCHANGED <<conn, db, visible>>
  PROVE  DataOK'
  BY DEF DataOK

LEMMA StatementRows ==
  ASSUME NEW r \in Requests
  PROVE  /\ RowStatus(TargetOf[r], "booked") /\ RowStatus(Inserted(r), "booked")
         /\ RowStatus(BookingOf[r], "cancelled") /\ RowStatus(PlaceOf[BookingOf[r]], "open")
         /\ BookingOf[r] \in Bookings
<1>1. /\ TargetOf[r] \in Slots /\ BookingOf[r] \in Bookings /\ MovedTo[r] \in Bookings
      /\ PlaceOf[BookingOf[r]] \in Slots /\ Bookings \cap Slots = {}
  BY PoolAssumption
<1> QED BY <1>1 DEF RowStatus, Rows, BookingStatus, SlotStatus, Inserted

LEMMA BeginKeeps ==
  ASSUME BaseInv, NEW r \in Requests, Sent(r), Begin(r)
  PROVE  BaseInv'
<1> DEFINE c == ConnectionOf(r)
<1>1. todo[r] # <<>> /\ c \in Connections BY SentConnection DEF Sent, Underway
<1>2. /\ Statement(r).do = "begin" /\ GoesOn(r) /\ db' = db /\ visible' = visible
      /\ conn' = [conn EXCEPT ![c].open = TRUE]
      /\ held' = IF Statement(r).via = "pool" THEN held
                 ELSE [held EXCEPT ![r][Statement(r).via] = c]
  BY DEF Begin
<1>3. Statement(r).via \in {"pool", "pre", "client"}
  BY <1>1, <1>2, StatementFacts DEF AllStatements
<1>4. DataOK'
  <2>1. conn[c] \in Transactions /\ Typed(conn[c].writes) BY <1>1 DEF BaseInv, DataOK
  <2>2. PICK t : t = [conn[c] EXCEPT !.open = TRUE] OBVIOUS
  <2>3. t \in Transactions /\ t.writes = conn[c].writes BY <2>1, <2>2 DEF Transactions
  <2>4. conn' = [conn EXCEPT ![c] = t] BY <1>2, <2>2
  <2> HIDE DEF c
  <2> QED BY <1>1, <1>2, <2>1, <2>3, <2>4, ConnData DEF BaseInv
<1> QED BY <1>1, <1>2, <1>3, <1>4, GoesOnKeeps

LEMMA CommitKeeps ==
  ASSUME BaseInv, NEW r \in Requests, Sent(r), Commit(r)
  PROVE  BaseInv'
<1>1. todo[r] # <<>> /\ ConnectionOf(r) \in Connections BY SentConnection DEF Sent, Underway
<1>2. DataOK' BY <1>1, CommitData DEF BaseInv
<1>3. GoesOn(r) /\ held' = held /\ Statement(r).do # "begin" BY DEF Commit
<1> QED BY <1>1, <1>2, <1>3, GoesOnKeeps

LEMMA RollbackKeeps ==
  ASSUME BaseInv, NEW r \in Requests, Sent(r), Rollback(r)
  PROVE  BaseInv'
<1>1. todo[r] # <<>> /\ ConnectionOf(r) \in Connections BY SentConnection DEF Sent, Underway
<1>2. DataOK' BY <1>1, ConnData, NoTransactionTyped DEF BaseInv, Rollback
<1>3. GoesOn(r) /\ held' = held /\ Statement(r).do # "begin" BY DEF Rollback
<1> QED BY <1>1, <1>2, <1>3, GoesOnKeeps

LEMMA CheckKeeps ==
  ASSUME BaseInv, NEW r \in Requests, Sent(r), Check(r)
  PROVE  BaseInv'
<1>1. todo[r] # <<>> /\ ConnectionOf(r) \in Connections BY SentConnection DEF Sent, Underway
<1>2. /\ Statement(r).do = "check" /\ held' = held
      /\ GoesOn(r) \/ Proceed(r, <<>>, <<>>)
      /\ UNCHANGED <<conn, db, visible>>
  BY DEF Check
<1>3. DataOK' BY <1>2, SameData DEF BaseInv
<1>4. CASE GoesOn(r) BY <1>1, <1>2, <1>3, <1>4, GoesOnKeeps
<1>5. CASE Proceed(r, <<>>, <<>>) BY <1>2, <1>3, <1>5, StopsKeeps
<1> QED BY <1>2, <1>4, <1>5

LEMMA WindowKeeps ==
  ASSUME BaseInv, NEW r \in Requests, Sent(r), Window(r)
  PROVE  BaseInv'
<1>1. todo[r] # <<>> /\ ConnectionOf(r) \in Connections BY SentConnection DEF Sent, Underway
<1>2. /\ Statement(r).do = "window" /\ held' = held
      /\ GoesOn(r) \/ Proceed(r, <<"pre">>, <<>>)
      /\ UNCHANGED <<conn, db, visible>>
  BY DEF Window
<1>3. DataOK' BY <1>2, SameData DEF BaseInv
<1>4. CASE GoesOn(r) BY <1>1, <1>2, <1>3, <1>4, GoesOnKeeps
<1>5. CASE Proceed(r, <<"pre">>, <<>>)
  <2>1. Then(KindOf[r], todo[r], "reschedule", Query("window"), On("client", "begin"))
    BY <1>1, <1>2, StatementFacts, AfterWindow DEF Statement
  <2>2. KindOf[r] = "reschedule" /\ PastBegin(Statement(r))
    BY <2>1, Shapes DEF Then, PastBegin, Statement
  <2> QED BY <1>2, <1>3, <1>5, <2>2, StopsKeeps
<1> QED BY <1>2, <1>4, <1>5

LEMMA ReadKeeps ==
  ASSUME BaseInv, NEW r \in Requests, Sent(r), Read(r)
  PROVE  BaseInv'
<1>1. todo[r] # <<>> /\ ConnectionOf(r) \in Connections BY SentConnection DEF Sent, Underway
<1>2. DataOK' BY SameData DEF BaseInv, Read
<1> QED BY <1>1, <1>2, GoesOnKeeps DEF Read

LEMMA LockKeeps ==
  ASSUME BaseInv, NEW r \in Requests, Sent(r), Lock(r)
  PROVE  BaseInv'
<1> DEFINE c == ConnectionOf(r)
<1>1. todo[r] # <<>> /\ c \in Connections BY SentConnection DEF Sent, Underway
<1>2. /\ Statement(r).do = "lock" /\ held' = held /\ db' = db /\ visible' = visible
      /\ conn' = [conn EXCEPT ![c].locks = @ \cup {BookingOf[r]}]
      /\ GoesOn(r) \/ RollsBack(r)
  BY DEF Lock
<1>3. DataOK'
  <2>1. conn[c] \in Transactions /\ Typed(conn[c].writes) BY <1>1 DEF BaseInv, DataOK
  <2>2. PICK t : t = [conn[c] EXCEPT !.locks = @ \cup {BookingOf[r]}] OBVIOUS
  <2>3. t \in Transactions /\ t.writes = conn[c].writes
    BY <2>1, <2>2, StatementRows DEF Transactions, Rows
  <2>4. conn' = [conn EXCEPT ![c] = t] BY <1>2, <2>2
  <2> HIDE DEF c
  <2> QED BY <1>1, <1>2, <2>1, <2>3, <2>4, ConnData DEF BaseInv
<1>4. CASE GoesOn(r) BY <1>1, <1>2, <1>3, <1>4, GoesOnKeeps
<1>5. CASE RollsBack(r)
  <2>1. KindOf[r] # "cancel"
    BY <1>1, <1>2, StatementFacts, AfterLock DEF Statement, Then
  <2> QED BY <1>2, <1>3, <1>5, <2>1, RollsBackKeeps DEF RollbackDoes
<1> QED BY <1>2, <1>4, <1>5

LEMMA TakeKeeps ==
  ASSUME BaseInv, NEW r \in Requests, Sent(r), Take(r)
  PROVE  BaseInv'
<1>1. todo[r] # <<>> /\ ConnectionOf(r) \in Connections BY SentConnection DEF Sent, Underway
<1>2. Statement(r).do = "take" /\ held' = held BY DEF Take
<1>3. CASE Write(r, TargetOf[r], "booked") /\ GoesOn(r)
  <2>1. DataOK' BY <1>1, <1>2, <1>3, StatementRows, WriteData DEF BaseInv, Writes
  <2> QED BY <1>1, <1>2, <1>3, <2>1, GoesOnKeeps
<1>4. CASE RollsBack(r) /\ UNCHANGED <<conn, db, visible>>
  <2>1. DataOK' BY <1>4, SameData DEF BaseInv
  <2>2. KindOf[r] # "cancel"
    BY <1>1, <1>2, StatementFacts, AfterTake DEF Statement, Then
  <2> QED BY <1>2, <1>4, <2>1, <2>2, RollsBackKeeps DEF RollbackDoes
<1> QED BY <1>3, <1>4 DEF Take

LEMMA FailsData ==
  ASSUME DataOK, NEW r \in Requests, ConnectionOf(r) \in Connections, Fails(r)
  PROVE  DataOK'
<1>1. (Statement(r).via # "pool") \in BOOLEAN OBVIOUS
<1>2. PICK open \in BOOLEAN : open = (Statement(r).via # "pool") BY <1>1
<1>3. /\ conn' = [conn EXCEPT ![ConnectionOf(r)] = [NoTransaction EXCEPT !.open = open]]
      /\ db' = db /\ visible' = visible
  BY <1>2 DEF Fails
<1>4. PICK t \in Transactions : t = [NoTransaction EXCEPT !.open = open] /\ Typed(t.writes)
  BY NoTransactionTyped
<1> QED BY <1>3, <1>4, ConnData

LEMMA FailsKeeps ==
  ASSUME BaseInv, NEW r \in Requests, Sent(r), Statement(r).do \in RollbackDoes, Fails(r)
  PROVE  BaseInv'
<1>1. todo[r] # <<>> /\ ConnectionOf(r) \in Connections BY SentConnection DEF Sent, Underway
<1>2. DataOK' /\ held' = held BY <1>1, FailsData DEF BaseInv, Fails
<1>3. CASE KindOf[r] = "cancel"
  <2>1. Proceed(r, <<>>, <<>>) BY <1>3 DEF Fails
  <2> QED BY <1>2, <2>1, StopsKeeps
<1>4. CASE KindOf[r] # "cancel"
  <2>1. RollsBack(r) BY <1>4 DEF Fails
  <2> QED BY <1>2, <1>4, <2>1, RollsBackKeeps
<1> QED BY <1>3, <1>4

LEMMA InsertKeeps ==
  ASSUME BaseInv, NEW r \in Requests, Sent(r), Insert(r)
  PROVE  BaseInv'
<1>1. todo[r] # <<>> /\ ConnectionOf(r) \in Connections BY SentConnection DEF Sent, Underway
<1>2. Statement(r).do = "insert" BY DEF Insert
<1>3. CASE Write(r, Inserted(r), "booked") /\ GoesOn(r) /\ held' = held
  <2>1. DataOK' BY <1>1, <1>2, <1>3, StatementRows, WriteData DEF BaseInv, Writes
  <2> QED BY <1>1, <1>2, <1>3, <2>1, GoesOnKeeps
<1>4. CASE Fails(r) BY <1>2, <1>4, FailsKeeps DEF RollbackDoes
<1> QED BY <1>3, <1>4 DEF Insert

LEMMA UpdateKeeps ==
  ASSUME BaseInv, NEW r \in Requests, Sent(r), NEW do \in {"cancel", "open"},
         NEW row, NEW status, RowStatus(row, status), Update(r, do, row, status)
  PROVE  BaseInv'
<1>1. todo[r] # <<>> /\ ConnectionOf(r) \in Connections BY SentConnection DEF Sent, Underway
<1>2. /\ Statement(r).do = do /\ Write(r, row, status) /\ GoesOn(r) /\ held' = held
  BY DEF Update
<1>3. DataOK' BY <1>1, <1>2, WriteData DEF BaseInv, Writes
<1> QED BY <1>1, <1>2, <1>3, GoesOnKeeps

LEMMA ArriveKeeps ==
  ASSUME BaseInv, NEW r \in Requests, Arrive(r)
  PROVE  BaseInv'
<1>1. /\ todo[r] # <<>> /\ Statement(r).do = "arrive" /\ GoesOn(r) /\ held' = held
      /\ UNCHANGED <<conn, db, visible>>
  BY DEF Arrive
<1>2. DataOK' BY <1>1, SameData DEF BaseInv
<1>3. Statement(r).via # "pool"
  BY <1>1, StatementFacts, AfterArrive, Shapes DEF Statement, Then
<1> QED BY <1>1, <1>2, <1>3, GoesOnKeeps

\* Only these statements wait for locks.
LEMMA WaitingDoes ==
  ASSUME NEW r \in Requests, WaitsFor(r) # {}
  PROVE  Statement(r).do \in RollbackDoes
  BY DEF WaitsFor, RowsLocked, RollbackDoes

LEMMA BaseNext ==
  ASSUME BaseInv, [Next]_vars
  PROVE  BaseInv'
<1>1. CASE UNCHANGED vars
  BY <1>1 DEF vars, BaseInv, DataOK, Assigned, Statement
<1>2. ASSUME NEW r \in Requests, Arrive(r) PROVE BaseInv' BY <1>2, ArriveKeeps
<1>3. ASSUME NEW r \in Requests, Execute(r) PROVE BaseInv'
  <2>1. Sent(r) BY <1>3 DEF Execute
  <2>2. CASE Begin(r) BY <2>1, <2>2, BeginKeeps
  <2>3. CASE Commit(r) BY <2>1, <2>3, CommitKeeps
  <2>4. CASE Rollback(r) BY <2>1, <2>4, RollbackKeeps
  <2>5. CASE Check(r) BY <2>1, <2>5, CheckKeeps
  <2>6. CASE Window(r) BY <2>1, <2>6, WindowKeeps
  <2>7. CASE Read(r) BY <2>1, <2>7, ReadKeeps
  <2>8. CASE Lock(r) BY <2>1, <2>8, LockKeeps
  <2>9. CASE Take(r) BY <2>1, <2>9, TakeKeeps
  <2>10. CASE Insert(r) BY <2>1, <2>10, InsertKeeps
  <2>11. CASE Update(r, "cancel", BookingOf[r], "cancelled")
    BY <2>1, <2>11, StatementRows, UpdateKeeps
  <2>12. CASE Update(r, "open", PlaceOf[BookingOf[r]], "open")
    BY <2>1, <2>12, StatementRows, UpdateKeeps
  <2> QED BY <1>3, <2>2, <2>3, <2>4, <2>5, <2>6, <2>7, <2>8, <2>9, <2>10, <2>11, <2>12 DEF Execute
<1>4. ASSUME NEW r \in Requests, EndDeadlock(r) PROVE BaseInv'
  <2>1. Sent(r) /\ WaitsFor(r) # {} /\ Fails(r) BY <1>4 DEF EndDeadlock
  <2> QED BY <2>1, WaitingDoes, FailsKeeps
<1> QED BY <1>1, <1>2, <1>3, <1>4 DEF Next

LEMMA InitialIdle ==
  LET s == SetToSeq(Connections) IN
  /\ s \in Seq(Connections)
  /\ \A i, j \in 1 .. Len(s) : s[i] = s[j] => i = j
  /\ \A c \in Connections : \E i \in 1 .. Len(s) : s[i] = c
<1> DEFINE n == Cardinality(Connections)
<1>1. n \in Nat /\ ExistsBijection(1 .. n, Connections)
  BY FS_CardinalityType, PoolAssumption
<1>2. \E f \in [1 .. n -> Connections] : IsInjective(f)
  BY <1>1 DEF ExistsBijection, Bijection, Injection
<1> HIDE DEF n
<1>3. PICK s : s = SetToSeq(Connections) OBVIOUS
<1>4. s \in [1 .. n -> Connections] /\ IsInjective(s)
  BY <1>2, <1>3 DEF SetToSeq, n
<1>5. s \in Injection(1 .. n, Connections) BY <1>4 DEF Injection
<1>6. Cardinality(1 .. n) = n /\ IsFiniteSet(Connections)
  BY <1>1, FS_Interval, PoolAssumption
<1>7. s \in Surjection(1 .. n, Connections) BY <1>5, <1>6, FS_Injection DEF n
<1>8. s \in Seq(Connections) /\ Len(s) = n BY <1>1, <1>4
<1> QED BY <1>3, <1>4, <1>7, <1>8 DEF IsInjective, Surjection

LEMMA BaseInit ==
  ASSUME Init
  PROVE  BaseInv
<1>1. PICK idle : idle = SetToSeq(Connections) OBVIOUS
<1>2. pool = [idle |-> idle, queue |-> <<>>,
             uses |-> [c \in Connections |-> None], got |-> [r \in Requests |-> None],
             threw |-> {}, down |-> FALSE]
  BY <1>1 DEF Init
<1>3. /\ idle \in Seq(Connections)
      /\ \A i, j \in 1 .. Len(idle) : idle[i] = idle[j] => i = j
      /\ \A c \in Connections : \E i \in 1 .. Len(idle) : idle[i] = c
  BY <1>1, InitialIdle
<1>4. pool \in Pools BY <1>2, <1>3 DEF Pools
<1>5. Books(pool) BY <1>2, <1>3 DEF Books
<1>6. held \in [Requests -> HeldVariables] BY DEF Init, HeldVariables
<1>7. DataOK
  <2>1. conn \in [Connections -> Transactions] /\ \A c \in Connections : Typed(conn[c].writes)
    BY NoTransactionTyped DEF Init
  <2>2. db \in [Rows -> Statuses] /\ Typed(db)
    BY PoolAssumption DEF Init, Rows, Statuses, Typed
  <2> QED BY <2>1, <2>2 DEF Init, DataOK
<1>8. /\ todo = [r \in Requests |-> todo[r]]
      /\ \A r \in Requests : /\ Program(KindOf[r], todo[r])
                             /\ todo[r] # <<>> /\ Statement(r) = Arriving
  <2>1. todo = [r \in Requests |-> <<Arriving>> \o Statements(KindOf[r])] BY DEF Init, Arriving
  <2> QED BY <2>1, KindInKinds, Whole DEF Statement
<1>9. \A r \in Requests : Assigned(r)
  BY <1>8, Shapes DEF Assigned, PastBegin, InClient
<1> QED BY <1>4, <1>5, <1>6, <1>7, <1>8, <1>9 DEF BaseInv, Init

LEMMA BaseTypes ==
  ASSUME BaseInv
  PROVE  TypeOK
<1>1. /\ pool.idle \in Seq(Connections) /\ pool.idle \in [1 .. Len(pool.idle) -> Connections]
      /\ DOMAIN pool.idle = 1 .. Len(pool.idle) /\ Len(pool.idle) \in Nat
  BY PoolFields, LenProperties DEF BaseInv
<1>2. ASSUME NEW c \in Connections
      PROVE  /\ pool.uses[c] \in Requests \cup {None}
             /\ (pool.uses[c] = None)
                  = (Cardinality({i \in DOMAIN pool.idle : pool.idle[i] = c}) = 1)
  <2> DEFINE at == {i \in DOMAIN pool.idle : pool.idle[i] = c}
  <2>1. pool.uses[c] \in Requests \cup {None} BY PoolFields DEF BaseInv
  <2>2. ASSUME pool.uses[c] = None PROVE Cardinality(at) = 1
    <3>1. PICK i \in 1 .. Len(pool.idle) : pool.idle[i] = c BY <2>2 DEF BaseInv, Books
    <3>2. at = {i} BY <1>1, <3>1 DEF BaseInv, Books
    <3> QED BY <3>2, FS_Singleton
  <2>3. ASSUME pool.uses[c] # None PROVE Cardinality(at) = 0
    <3>1. at = {} BY <1>1, <2>3 DEF BaseInv, Books
    <3> QED BY <3>1, FS_EmptySet
  <2> QED BY <2>1, <2>2, <2>3
<1>3. Len(pool.idle) <= Cardinality(Connections)
  <2>1. pool.idle \in Injection(1 .. Len(pool.idle), Connections)
    BY <1>1 DEF BaseInv, Books, Injection, IsInjective
  <2>2. Cardinality(1 .. Len(pool.idle)) <= Cardinality(Connections)
    BY <2>1, FS_Injection, PoolAssumption
  <2>3. Cardinality(1 .. Len(pool.idle)) = Len(pool.idle)
    BY <1>1, FS_Interval
  <2> QED BY <2>2, <2>3
<1>4. ASSUME NEW r \in Requests
      PROVE  {pool.got[r], held[r].pre, held[r].client} \subseteq Connections \cup {None}
  <2>1. pool.got[r] \in Connections \cup {None} BY PoolFields DEF BaseInv
  <2>2. held[r] \in HeldVariables BY DEF BaseInv
  <2> QED BY <2>1, <2>2 DEF HeldVariables
<1>5. /\ \A b \in Bookings : db[b] \in BookingStatus
      /\ \A s \in Slots : db[s] \in SlotStatus
  BY DEF BaseInv, DataOK, Typed, Rows
<1> QED BY <1>2, <1>3, <1>4, <1>5 DEF TypeOK

\* The pool never loses a connection nor has one twice, also when requests wait and a
\* reschedule releases its first connection under its next holder.
THEOREM PoolTypeCorrect == Spec => []TypeOK
<1>1. Init => BaseInv BY BaseInit
<1>2. BaseInv /\ [Next]_vars => BaseInv' BY BaseNext
<1>3. BaseInv => TypeOK BY BaseTypes
<1> QED BY <1>1, <1>2, <1>3, PTL DEF Spec

(***************************************************************************)
(* The pool until somebody has waited                                      *)
(***************************************************************************)
\* The pool once the request has released what it releases.
Left(r, names) ==
  LET s == Statement(r)
      taken == [pool EXCEPT !.got[r] = IF Borrows(s) THEN None ELSE @]
      given == IF s.via = "pool" THEN QueryDone(taken, ConnectionOf(r)) ELSE taken
  IN FreedAll(given, r, names)

LEMMA ProceedIs ==
  ASSUME NEW r, NEW names, NEW rest, Proceed(r, names, rest)
  PROVE  LET left == Left(r, names)
             next == IF r \in left.threw THEN <<>> ELSE rest
         IN /\ todo' = [todo EXCEPT ![r] = next]
            /\ pool' = IF next # <<>> /\ Borrows(Head(next)) THEN Requested(left, r) ELSE left
            /\ saturated' = (saturated \/ pool'.queue # <<>>)
  BY DEF Proceed, Left

\* What is released first and requested at once is the same connection.
LEMMA ReturnAndTake ==
  ASSUME NEW p \in Pools, p.queue = <<>>, NEW c \in Connections, NEW r \in Requests,
         p.uses[c] = r
  PROVE  LET q == Requested(Released(p, c), r)
         IN /\ q.queue = <<>> /\ q.uses = p.uses /\ q.got = [p.got EXCEPT ![r] = c]
            /\ q.threw = p.threw
<1>1. PICK f : f = Released(p, c) OBVIOUS
<1>2. f = [idle |-> Append(p.idle, c), queue |-> p.queue,
           uses |-> [p.uses EXCEPT ![c] = None], got |-> p.got,
           threw |-> p.threw, down |-> p.down]
  BY <1>1, ReleasedFields
<1>3. /\ Append(p.idle, c) # <<>> /\ Last(Append(p.idle, c)) = c
      /\ Append(p.idle, c) \in Seq(Connections)
  BY PushPop, PoolFields, AppendProperties
<1>4. f \in Pools BY <1>2, <1>3, PoolFields DEF Pools
<1>0. f.idle # <<>> /\ Last(f.idle) = c BY <1>2, <1>3
<1>5. Requested(f, r) = [idle |-> Front(f.idle), queue |-> f.queue,
                         uses |-> [f.uses EXCEPT ![c] = r], got |-> [f.got EXCEPT ![r] = c],
                         threw |-> f.threw, down |-> f.down]
  BY <1>0, <1>4, RequestedFields
<1>6. [[p.uses EXCEPT ![c] = None] EXCEPT ![c] = r] = p.uses BY PoolFields
<1>7. f.queue = <<>> /\ f.uses = [p.uses EXCEPT ![c] = None] /\ f.got = p.got /\ f.threw = p.threw
  BY <1>2
<1> QED BY <1>1, <1>5, <1>6, <1>7

LEMMA ReleasedCalm ==
  ASSUME NEW p \in Pools, p.queue = <<>>, NEW c \in Connections
  PROVE  LET q == Released(p, c)
         IN /\ q.queue = <<>> /\ q.uses = [p.uses EXCEPT ![c] = None] /\ q.got = p.got
            /\ q.threw = p.threw
  BY ReleasedFields

\* A connection that is nobody's is not released a second time.
LEMMA FreedTwice ==
  ASSUME NEW p \in Pools, NEW r, NEW name, p.uses[held[r][name]] = None
  PROVE  LET q == Freed(p, r, name)
         IN /\ q \in Pools \/ r \notin Requests
            /\ q.queue = p.queue /\ q.uses = p.uses /\ q.got = p.got /\ q.threw = p.threw \cup {r}
<1>1. Freed(p, r, name) = [p EXCEPT !.threw = @ \cup {r}] BY DEF Freed
<1> QED BY <1>1 DEF Pools

LEMMA FreedOnce ==
  ASSUME NEW p \in Pools, NEW r \in Requests, NEW name, p.uses[held[r][name]] \in Requests
  PROVE  Freed(p, r, name) = Released(p, held[r][name])
<1>1. p.uses[held[r][name]] # None BY PoolAssumption
<1> QED BY <1>1 DEF Freed

CalmStep(r) ==
  /\ BaseInv /\ CalmInv /\ ~saturated'
  /\ r \in Requests /\ todo[r] # <<>>

LEMMA CalmFacts ==
  ASSUME NEW r, CalmStep(r)
  PROVE  /\ r \in Requests /\ pool \in Pools /\ Books(pool) /\ pool.queue = <<>>
         /\ r \notin pool.threw /\ pool.uses \in [Connections -> Requests \cup {None}]
         /\ pool.got \in [Requests -> Connections \cup {None}]
         /\ todo = [q \in Requests |-> todo[q]]
  BY PoolFields DEF CalmStep, BaseInv, CalmInv, Turn

\* Everybody has what he had, the request on connection g.
Stays(r, g) ==
  /\ pool'.queue = <<>> /\ pool'.uses = pool.uses /\ pool'.threw = pool.threw
  /\ pool'.got = [pool.got EXCEPT ![r] = g]

\* The request has nothing any more, and has ended.
Leaves(r) ==
  /\ pool'.queue = <<>>
  /\ \A d \in Connections : pool'.uses[d] = IF pool.uses[d] = r THEN None ELSE pool.uses[d]
  /\ \A q \in Requests \ {r} : /\ pool'.got[q] = pool.got[q]
                               /\ q \in pool'.threw => q \in pool.threw
  /\ todo' = [todo EXCEPT ![r] = <<>>]

\* The request has got one more connection, which was idle.
Gets(r, d) ==
  /\ pool'.queue = <<>> /\ pool.uses[d] = None /\ pool'.uses = [pool.uses EXCEPT ![d] = r]
  /\ pool'.threw = pool.threw /\ pool'.got = [pool.got EXCEPT ![r] = d]

\* pool.query or pool.connect() after a pool.query.
LEMMA QueryAfterQuery ==
  ASSUME NEW r, CalmStep(r), NEW rest, Proceed(r, <<>>, rest), rest # <<>>,
         Statement(r).via = "pool", Borrows(Head(rest)),
         ConnectionOf(r) \in Connections, pool.uses[ConnectionOf(r)] = r
  PROVE  Stays(r, ConnectionOf(r)) /\ todo' = [todo EXCEPT ![r] = rest]
<1> DEFINE c == ConnectionOf(r)
           taken == [pool EXCEPT !.got[r] = None]
<1>1. Borrows(Statement(r)) BY DEF Borrows
<1>2. /\ taken \in Pools /\ taken.queue = <<>> /\ taken.uses = pool.uses
      /\ taken.threw = pool.threw /\ taken.got = [pool.got EXCEPT ![r] = None]
  BY CalmFacts DEF Pools
<1>3. r # None BY CalmFacts, PoolAssumption
<1>4. Left(r, <<>>) = Released(taken, c)
  BY <1>1, <1>2, <1>3 DEF Left, QueryDone, FreedAll
<1> HIDE DEF taken, c
<1>5. Released(taken, c).threw = pool.threw BY <1>2, ReleasedCalm DEF c
<1>6. todo' = [todo EXCEPT ![r] = rest] /\ pool' = Requested(Released(taken, c), r)
  BY <1>4, <1>5, CalmFacts, ProceedIs
<1>7. /\ pool'.queue = <<>> /\ pool'.uses = taken.uses /\ pool'.got = [taken.got EXCEPT ![r] = c]
      /\ pool'.threw = taken.threw
  BY <1>2, <1>6, CalmFacts, ReturnAndTake DEF c
<1>8. [taken.got EXCEPT ![r] = c] = [pool.got EXCEPT ![r] = c] BY <1>2, CalmFacts
<1> QED BY <1>2, <1>6, <1>7, <1>8 DEF Stays, c

\* The last query of a request.
LEMMA LastQuery ==
  ASSUME NEW r, CalmStep(r), Proceed(r, <<>>, <<>>), Statement(r).via = "pool",
         ConnectionOf(r) \in Connections,
         \A d \in Connections : pool.uses[d] = r <=> d = ConnectionOf(r)
  PROVE  Leaves(r)
<1> DEFINE c == ConnectionOf(r)
           taken == [pool EXCEPT !.got[r] = None]
<1>1. Borrows(Statement(r)) BY DEF Borrows
<1>2. /\ taken \in Pools /\ taken.queue = <<>> /\ taken.uses = pool.uses
      /\ taken.threw = pool.threw /\ taken.got = [pool.got EXCEPT ![r] = None]
  BY CalmFacts DEF Pools
<1>3. r # None /\ pool.uses[c] = r BY CalmFacts, PoolAssumption
<1>4. Left(r, <<>>) = Released(taken, c)
  BY <1>1, <1>2, <1>3 DEF Left, QueryDone, FreedAll
<1> HIDE DEF taken
<1>5. todo' = [todo EXCEPT ![r] = <<>>] /\ pool' = Released(taken, c)
  BY <1>4, ProceedIs
<1>6. /\ pool'.queue = <<>> /\ pool'.uses = [pool.uses EXCEPT ![c] = None]
      /\ pool'.got = [pool.got EXCEPT ![r] = None] /\ pool'.threw = pool.threw
  BY <1>2, <1>5, ReleasedCalm
<1> HIDE DEF c
<1> QED BY <1>5, <1>6, CalmFacts DEF Leaves, c

\* A statement on a connection of its own, followed by another one.
LEMMA StatementAfterStatement ==
  ASSUME NEW r, CalmStep(r), NEW rest, Proceed(r, <<>>, rest), rest # <<>>,
         Statement(r).via # "pool", ~Borrows(Head(rest))
  PROVE  /\ Stays(r, IF Borrows(Statement(r)) THEN None ELSE pool.got[r])
         /\ todo' = [todo EXCEPT ![r] = rest]
<1> DEFINE g == IF Borrows(Statement(r)) THEN None ELSE pool.got[r]
           taken == [pool EXCEPT !.got[r] = g]
<1>1. /\ taken.queue = <<>> /\ taken.uses = pool.uses
      /\ taken.threw = pool.threw /\ taken.got = [pool.got EXCEPT ![r] = g]
  BY CalmFacts DEF Pools
<1>2. taken = [pool EXCEPT !.got[r] = IF Borrows(Statement(r)) THEN None ELSE @]
  BY CalmFacts DEF Pools
<1>3. Left(r, <<>>) = taken BY <1>2 DEF Left, FreedAll
<1> HIDE DEF taken
<1>4. todo' = [todo EXCEPT ![r] = rest] /\ pool' = taken
  BY <1>1, <1>3, CalmFacts, ProceedIs
<1> QED BY <1>1, <1>4 DEF Stays

\* The COMMIT of clientPre, its release and the query after it.
LEMMA QueryAfterRelease ==
  ASSUME NEW r, CalmStep(r), NEW rest, Proceed(r, <<"pre">>, rest), rest # <<>>,
         Statement(r).via = "pre", ~Borrows(Statement(r)), Borrows(Head(rest)),
         held[r].pre \in Connections, pool.uses[held[r].pre] = r
  PROVE  Stays(r, held[r].pre) /\ todo' = [todo EXCEPT ![r] = rest]
<1> DEFINE c == held[r].pre
<1>1. [pool EXCEPT !.got[r] = @] = pool BY CalmFacts DEF Pools
<1>2. Left(r, <<"pre">>) = Freed(pool, r, "pre")
  BY <1>1 DEF Left, FreedAll
<1>3. Freed(pool, r, "pre") = Released(pool, c) BY CalmFacts, FreedOnce
<1> HIDE DEF c
<1>4. Released(pool, c).threw = pool.threw BY CalmFacts, ReleasedCalm DEF c
<1>5. todo' = [todo EXCEPT ![r] = rest] /\ pool' = Requested(Released(pool, c), r)
  BY <1>2, <1>3, <1>4, CalmFacts, ProceedIs
<1> QED BY <1>5, CalmFacts, ReturnAndTake DEF Stays, c

\* A request that needs a connection more: there is one, or it waits.
LEMMA OneMore ==
  ASSUME NEW r, CalmStep(r), NEW rest, Proceed(r, <<>>, rest), rest # <<>>,
         Statement(r).via # "pool", ~Borrows(Statement(r)), Borrows(Head(rest))
  PROVE  /\ \E d \in Connections : Gets(r, d)
         /\ todo' = [todo EXCEPT ![r] = rest]
<1>1. [pool EXCEPT !.got[r] = @] = pool BY CalmFacts DEF Pools
<1>2. Left(r, <<>>) = pool BY <1>1 DEF Left, FreedAll
<1>3. /\ todo' = [todo EXCEPT ![r] = rest] /\ pool' = Requested(pool, r)
      /\ saturated' = (saturated \/ pool'.queue # <<>>)
  BY <1>2, CalmFacts, ProceedIs
<1>4. pool.idle # <<>>
  <2> SUFFICES ASSUME pool.idle = <<>> PROVE FALSE OBVIOUS
  <2>1. pool'.queue = Append(pool.queue, r) BY <1>3, CalmFacts, RequestedFields
  <2>2. Append(pool.queue, r) # <<>> BY CalmFacts, PoolFields, AppendProperties
  <2> QED BY <1>3, <2>1, <2>2 DEF CalmStep
<1>5. PICK d \in Connections : d = Last(pool.idle) /\ \E i \in 1 .. Len(pool.idle) : pool.idle[i] = d
  <2>1. /\ Len(pool.idle) \in Nat \ {0} /\ Last(pool.idle) \in Connections
        /\ Last(pool.idle) = pool.idle[Len(pool.idle)]
    BY <1>4, CalmFacts, PoolFields, TopOff
  <2>2. Len(pool.idle) \in 1 .. Len(pool.idle) BY <2>1
  <2> QED BY <2>1, <2>2
<1>6. pool.uses[d] = None BY <1>5, CalmFacts DEF Books
<1>7. pool' = [idle |-> Front(pool.idle), queue |-> pool.queue,
               uses |-> [pool.uses EXCEPT ![d] = r], got |-> [pool.got EXCEPT ![r] = d],
               threw |-> pool.threw, down |-> pool.down]
  BY <1>3, <1>4, <1>5, CalmFacts, RequestedFields
<1>8. Gets(r, d) BY <1>6, <1>7, CalmFacts DEF Gets
<1> QED BY <1>3, <1>8

\* The window has closed: clientPre, released before, is the connection just given back.
LEMMA WindowRelease ==
  ASSUME NEW r, CalmStep(r), Proceed(r, <<"pre">>, <<>>), Statement(r).via = "pool",
         ConnectionOf(r) \in Connections, held[r].pre = ConnectionOf(r),
         \A d \in Connections : pool.uses[d] = r <=> d = ConnectionOf(r)
  PROVE  Leaves(r)
<1> DEFINE c == ConnectionOf(r)
           taken == [pool EXCEPT !.got[r] = None]
           free == Released(taken, c)
<1>1. Borrows(Statement(r)) BY DEF Borrows
<1>2. /\ taken \in Pools /\ taken.queue = <<>> /\ taken.uses = pool.uses
      /\ taken.threw = pool.threw /\ taken.got = [pool.got EXCEPT ![r] = None]
      /\ Books(taken)
  BY CalmFacts DEF Pools, Books
<1>3. r # None /\ pool.uses[c] = r BY CalmFacts, PoolAssumption
<1>4. Left(r, <<"pre">>) = Freed(free, r, "pre")
  BY <1>1, <1>2, <1>3 DEF Left, QueryDone, FreedAll
<1> HIDE DEF taken
<1>5. /\ free.queue = <<>> /\ free.uses = [pool.uses EXCEPT ![c] = None]
      /\ free.got = [pool.got EXCEPT ![r] = None] /\ free.threw = pool.threw
  BY <1>2, ReleasedCalm
<1>6. free \in Pools BY <1>2, <1>3, ReleasedKeeps
<1>7. free.uses[held[r]["pre"]] = None BY <1>5, CalmFacts
<1> HIDE DEF free, c
<1>8. LET q == Freed(free, r, "pre")
      IN /\ q.queue = free.queue /\ q.uses = free.uses /\ q.got = free.got
         /\ q.threw = free.threw \cup {r}
  BY <1>6, <1>7, FreedTwice
<1>9. todo' = [todo EXCEPT ![r] = <<>>] /\ pool' = Freed(free, r, "pre")
  BY <1>4, ProceedIs
<1> QED BY <1>5, <1>8, <1>9, CalmFacts DEF Leaves, c

\* A reschedule that has rolled back releases its connection, and calls clientPre's release
\* once more.
LEMMA RollbackRelease ==
  ASSUME NEW r, CalmStep(r), NEW name \in Names, Proceed(r, <<name, "pre">>, <<>>),
         Statement(r).via # "pool", ~Borrows(Statement(r)),
         held[r][name] \in Connections, held[r].pre = held[r][name],
         \A d \in Connections : pool.uses[d] = r <=> d = held[r][name]
  PROVE  Leaves(r)
<1> DEFINE c == held[r][name]
           free == Released(pool, c)
<1>1. [pool EXCEPT !.got[r] = @] = pool BY CalmFacts DEF Pools
<1>2. Left(r, <<name, "pre">>) = Freed(Freed(pool, r, name), r, "pre")
  BY <1>1 DEF Left, FreedAll
<1>3. Freed(pool, r, name) = free /\ pool.uses[c] = r BY CalmFacts, FreedOnce
<1>4. r # None BY CalmFacts, PoolAssumption
<1>5. /\ free.queue = <<>> /\ free.uses = [pool.uses EXCEPT ![c] = None]
      /\ free.got = pool.got /\ free.threw = pool.threw
  BY CalmFacts, ReleasedCalm
<1>6. free \in Pools BY <1>3, <1>4, CalmFacts, ReleasedKeeps
<1>7. free.uses[held[r]["pre"]] = None BY <1>5, CalmFacts
<1> HIDE DEF free, c
<1>8. LET q == Freed(free, r, "pre")
      IN /\ q.queue = free.queue /\ q.uses = free.uses /\ q.got = free.got
         /\ q.threw = free.threw \cup {r}
  BY <1>6, <1>7, FreedTwice
<1>9. todo' = [todo EXCEPT ![r] = <<>>] /\ pool' = Freed(free, r, "pre")
  BY <1>2, <1>3, ProceedIs
<1> QED BY <1>5, <1>8, <1>9, CalmFacts DEF Leaves, c

\* The query after the transaction: its connection goes back, then the one of the
\* transaction, and clientPre's release throws.
LEMMA LastReadRelease ==
  ASSUME NEW r, CalmStep(r), Proceed(r, <<"client", "pre">>, <<>>), Statement(r).via = "pool",
         ConnectionOf(r) \in Connections, held[r].client \in Connections,
         held[r].client # ConnectionOf(r), held[r].pre = held[r].client,
         \A d \in Connections :
           pool.uses[d] = r <=> d \in {ConnectionOf(r), held[r].client}
  PROVE  Leaves(r)
<1> DEFINE c == ConnectionOf(r)
           h == held[r].client
           taken == [pool EXCEPT !.got[r] = None]
           given == Released(taken, c)
           free == Released(given, h)
<1>1. Borrows(Statement(r)) BY DEF Borrows
<1>2. /\ taken \in Pools /\ taken.queue = <<>> /\ taken.uses = pool.uses
      /\ taken.threw = pool.threw /\ taken.got = [pool.got EXCEPT ![r] = None]
      /\ Books(taken)
  BY CalmFacts DEF Pools, Books
<1>3. r # None /\ pool.uses[c] = r /\ pool.uses[h] = r BY CalmFacts, PoolAssumption
<1>4. Left(r, <<"client", "pre">>) = Freed(Freed(given, r, "client"), r, "pre")
  BY <1>1, <1>2, <1>3 DEF Left, QueryDone, FreedAll
<1> HIDE DEF taken
<1>5. /\ given.queue = <<>> /\ given.uses = [pool.uses EXCEPT ![c] = None]
      /\ given.got = [pool.got EXCEPT ![r] = None] /\ given.threw = pool.threw
  <2>1. c \in Connections /\ given = Released(taken, c) OBVIOUS
  <2> HIDE DEF given, c
  <2> QED BY <1>2, <2>1, ReleasedCalm
<1>6. given \in Pools /\ Books(given) BY <1>2, <1>3, ReleasedKeeps
<1> HIDE DEF given, c
<1>7. given.uses[h] = r BY <1>3, <1>5, CalmFacts DEF c
<1>8. Freed(given, r, "client") = free
  <2>1. given.uses[held[r]["client"]] \in Requests BY <1>7, CalmFacts
  <2> QED BY <1>6, <2>1, CalmFacts, FreedOnce
<1>9. /\ free.queue = <<>> /\ free.uses = [given.uses EXCEPT ![h] = None]
      /\ free.got = given.got /\ free.threw = given.threw
  BY <1>5, <1>6, ReleasedCalm
<1>10. free \in Pools BY <1>3, <1>6, <1>7, ReleasedKeeps
<1>11. free.uses[held[r]["pre"]] = None BY <1>5, <1>9, CalmFacts
<1> HIDE DEF free, h
<1>12. LET q == Freed(free, r, "pre")
       IN /\ q.queue = free.queue /\ q.uses = free.uses /\ q.got = free.got
          /\ q.threw = free.threw \cup {r}
  BY <1>10, <1>11, FreedTwice
<1>13. todo' = [todo EXCEPT ![r] = <<>>] /\ pool' = Freed(free, r, "pre")
  BY <1>4, <1>8, ProceedIs
<1>14. pool'.uses = [[pool.uses EXCEPT ![c] = None] EXCEPT ![h] = None]
  BY <1>5, <1>9, <1>12, <1>13
<1>15. \A d \in Connections : pool'.uses[d] = IF pool.uses[d] = r THEN None ELSE pool.uses[d]
  BY <1>14, CalmFacts DEF c, h
<1>16. pool'.queue = <<>> /\ pool'.got = [pool.got EXCEPT ![r] = None]
       /\ pool'.threw = pool.threw \cup {r}
  BY <1>5, <1>9, <1>12, <1>13
<1> QED BY <1>13, <1>15, <1>16, CalmFacts DEF Leaves

(***************************************************************************)
(* Who is alone stays alone                                                *)
(***************************************************************************)
\* What a step of request r leaves to the others.
OthersKeep(r) ==
  /\ \A q \in Requests \ {r} :
       /\ todo'[q] = todo[q] /\ held'[q] = held[q] /\ pool'.got[q] = pool.got[q]
       /\ q \in pool'.threw => q \in pool.threw
       /\ \A d \in Connections : pool'.uses[d] = q <=> pool.uses[d] = q
  /\ \A d \in Connections : pool.uses[d] # r => conn'[d] = conn[d]
  /\ visible \subseteq visible' /\ \A m \in visible' \ visible : \E do : m = <<r, do>>

LEMMA OtherTurn ==
  ASSUME NEW r, CalmStep(r), OthersKeep(r), NEW q \in Requests \ {r}
  PROVE  Turn(q)'
<1>1. Turn(q) BY DEF CalmStep, CalmInv
<1>2. /\ todo'[q] = todo[q] /\ held'[q] = held[q] /\ pool'.got[q] = pool.got[q]
      /\ q \in pool'.threw => q \in pool.threw
      /\ \A d \in Connections : pool'.uses[d] = q <=> pool.uses[d] = q
  BY DEF OthersKeep
<1>3. Committed(q)' = Committed(q)
  <2>1. \A m \in Marks(q, WritesOf(KindOf[q])) : \A do : m # <<r, do>> BY DEF Marks
  <2> QED BY <2>1 DEF OthersKeep, Committed
<1>4. /\ Underway(q)' = Underway(q) /\ Statement(q)' = Statement(q)
      /\ ConnectionOf(q)' = ConnectionOf(q)
  BY <1>2 DEF Underway, Statement, ConnectionOf
<1>5. CASE ~Underway(q)
  BY <1>1, <1>2, <1>3, <1>4, <1>5 DEF Turn
<1>6. CASE Underway(q)
  <2>1. Alone(q) /\ Stage(q) /\ q \notin pool.threw BY <1>1, <1>6 DEF Turn, Underway
  <2>2. q # r OBVIOUS
  <2>3. /\ ConnectionOf(q) \in Connections /\ pool.uses[ConnectionOf(q)] = q
        /\ Late(Statement(q)) /\ held[q].client \in Connections => pool.uses[held[q].client] = q
    BY <2>1 DEF Alone
  <2>4. conn'[ConnectionOf(q)] = conn[ConnectionOf(q)]
    BY <2>2, <2>3 DEF OthersKeep
  <2>5. Late(Statement(q)) => held[q].client \in Connections
    <3> SUFFICES ASSUME Late(Statement(q)) PROVE held[q].client \in Connections OBVIOUS
    <3>1. Statement(q).free # <<>> /\ InClient(Statement(q)) BY Shapes DEF Late, InClient
    <3>2. todo[q] # <<>> /\ BaseInv BY <1>6 DEF Underway, CalmStep
    <3>3. KindOf[q] = "reschedule" BY <3>1, <3>2, StatementFacts
    <3> QED BY <3>1, <3>2, <3>3 DEF BaseInv, Assigned
  <2>6. Late(Statement(q)) => conn'[held[q].client] = conn[held[q].client]
    BY <2>2, <2>3, <2>5 DEF OthersKeep
  <2>7. Alone(q)' BY <1>2, <1>4, <2>1, <2>6 DEF Alone
  <2>8. Stage(q)' BY <1>3, <1>4, <2>1, <2>4 DEF Stage
  <2> QED BY <1>2, <1>4, <1>6, <2>1, <2>7, <2>8 DEF Turn
<1> QED BY <1>5, <1>6

LEMMA CalmFrame ==
  ASSUME NEW r, CalmStep(r), OthersKeep(r), pool'.queue = <<>>, Turn(r)',
         \A d \in Connections : pool'.uses[d] = None /\ pool.uses[d] = r => conn'[d] = NoTransaction,
         \A d \in Connections : pool'.uses[d] = None => pool.uses[d] \in {None, r}
  PROVE  CalmInv'
<1>1. \A q \in Requests : Turn(q)' BY OtherTurn
<1>2. ASSUME NEW d \in Connections, pool'.uses[d] = None PROVE conn'[d] = NoTransaction
  <2>1. CASE pool.uses[d] = r BY <1>2, <2>1
  <2>2. CASE pool.uses[d] # r
    <3>1. pool.uses[d] = None /\ conn'[d] = conn[d] BY <1>2, <2>2 DEF OthersKeep
    <3> QED BY <3>1 DEF CalmStep, CalmInv
  <2> QED BY <2>1, <2>2
<1> QED BY <1>1, <1>2 DEF CalmInv

\* What a step does to the variables, the transactions and the committed writes.
OwnEffects(r) ==
  /\ \A q \in Requests \ {r} : held'[q] = held[q]
  /\ \A d \in Connections : pool.uses[d] # r => conn'[d] = conn[d]
  /\ visible \subseteq visible' /\ \A m \in visible' \ visible : \E do : m = <<r, do>>

LEMMA StaysCalm ==
  ASSUME NEW r, CalmStep(r), Underway(r), Alone(r), ~Late(Statement(r)),
         NEW rest, rest # <<>>, Head(rest).do # "arrive", ~Late(Head(rest)),
         todo' = [todo EXCEPT ![r] = rest], NEW g, Stays(r, g), OwnEffects(r),
         ConnectionOf(r)' = ConnectionOf(r),
         Moving(Head(rest)) => held'[r].pre = ConnectionOf(r),
         Stage(r)'
  PROVE  CalmInv'
<1>1. todo'[r] = rest /\ \A q \in Requests \ {r} : todo'[q] = todo[q]
  BY CalmFacts
<1>2. /\ pool'.queue = <<>> /\ pool'.uses = pool.uses /\ pool'.threw = pool.threw
      /\ \A q \in Requests \ {r} : pool'.got[q] = pool.got[q]
  BY CalmFacts DEF Stays
<1>3. OthersKeep(r) BY <1>1, <1>2 DEF OthersKeep, OwnEffects
<1>4. Underway(r)' /\ Statement(r)' = Head(rest) BY <1>1 DEF Underway, Statement
<1>5. /\ ConnectionOf(r) \in Connections
      /\ \A d \in Connections : pool.uses[d] = r <=> d = ConnectionOf(r)
  BY DEF Alone
<1>6. Alone(r)' BY <1>2, <1>4, <1>5 DEF Alone
<1>7. r \notin pool'.threw BY <1>2, CalmFacts
<1>8. Turn(r)' BY <1>4, <1>6, <1>7 DEF Turn
<1>9. r # None BY CalmFacts, PoolAssumption
<1> QED BY <1>2, <1>3, <1>8, <1>9, CalmFrame

LEMMA LeavesCalm ==
  ASSUME NEW r, CalmStep(r), Leaves(r), OwnEffects(r),
         \A d \in Connections : pool.uses[d] = r => conn'[d] = NoTransaction,
         Committed(r)' \in {{}, Marks(r, WritesOf(KindOf[r]))}
  PROVE  CalmInv'
<1>1. todo'[r] = <<>> /\ \A q \in Requests \ {r} : todo'[q] = todo[q]
  BY CalmFacts DEF Leaves
<1>2. r # None /\ r \in Requests /\ None \notin Requests BY CalmFacts, PoolAssumption
<1>3. OthersKeep(r) BY <1>1, <1>2 DEF OthersKeep, OwnEffects, Leaves
<1>4. ~Underway(r)' BY <1>1 DEF Underway
<1>5. \A d \in Connections : pool'.uses[d] # r BY <1>2 DEF Leaves
<1>6. Turn(r)' BY <1>1, <1>4, <1>5 DEF Turn
<1>7. \A d \in Connections : pool'.uses[d] = None => pool.uses[d] \in {None, r}
  BY DEF Leaves
<1> QED BY <1>3, <1>6, <1>7, CalmFrame DEF Leaves

LEMMA GetsCalm ==
  ASSUME NEW r, CalmStep(r), NEW d \in Connections, Gets(r, d),
         NEW rest, todo' = [todo EXCEPT ![r] = rest], OwnEffects(r), Turn(r)'
  PROVE  CalmInv'
<1>1. \A q \in Requests \ {r} : todo'[q] = todo[q] BY CalmFacts
<1>2. /\ pool'.queue = <<>> /\ pool.uses[d] = None /\ pool'.uses = [pool.uses EXCEPT ![d] = r]
      /\ pool'.threw = pool.threw /\ \A q \in Requests \ {r} : pool'.got[q] = pool.got[q]
  BY CalmFacts DEF Gets
<1>3. r # None /\ r \in Requests /\ None \notin Requests BY CalmFacts, PoolAssumption
<1>4. \A q \in Requests \ {r} : \A c \in Connections : pool'.uses[c] = q <=> pool.uses[c] = q
  BY <1>2, <1>3, CalmFacts
<1>5. OthersKeep(r) BY <1>1, <1>2, <1>4 DEF OthersKeep, OwnEffects
<1>6. \A c \in Connections : pool'.uses[c] = None => pool.uses[c] = None
  BY <1>2, <1>3, CalmFacts
<1> QED BY <1>2, <1>3, <1>5, <1>6, CalmFrame

(***************************************************************************)
(* Every action keeps what holds until somebody has waited                 *)
(***************************************************************************)
LEMMA UnderwayFacts ==
  ASSUME NEW r, CalmStep(r), Underway(r)
  PROVE  /\ BaseInv /\ r \in Requests /\ Alone(r) /\ Stage(r)
         /\ ConnectionOf(r) \in Connections /\ pool.uses[ConnectionOf(r)] = r
         /\ conn \in [Connections -> Transactions]
         /\ Program(KindOf[r], todo[r]) /\ KindOf[r] \in Kinds
         /\ held[r] \in HeldVariables /\ DOMAIN held = Requests
  BY StatementFacts DEF CalmStep, CalmInv, Turn, Alone, BaseInv, DataOK

\* The request goes on, on the connection it has; rest is what it will send.
LEMMA SameConnection ==
  ASSUME NEW r, CalmStep(r), Underway(r), ~Late(Statement(r)),
         NEW rest, rest # <<>>, NEW n, n = Head(rest), n.do # "arrive", ~Late(n),
         \/ /\ Statement(r).via = "pool" /\ Borrows(n) /\ Proceed(r, <<>>, rest)
         \/ /\ Statement(r).via # "pool" /\ ~Borrows(n) /\ Proceed(r, <<>>, rest)
            /\ held'[r][n.via] = ConnectionOf(r)
         \/ /\ Statement(r).via = "pre" /\ ~Borrows(Statement(r)) /\ Borrows(n)
            /\ Proceed(r, <<"pre">>, rest),
         OwnEffects(r), Moving(n) => held'[r].pre = ConnectionOf(r),
         Outside(n) => conn'[ConnectionOf(r)] = NoTransaction,
         Inside(n) => /\ conn'[ConnectionOf(r)].open
                      /\ conn'[ConnectionOf(r)].marks = Marks(r, DoneBefore(KindOf[r], n)),
         Committed(r)' = IF n.do = "read" THEN Marks(r, WritesOf(KindOf[r])) ELSE {}
  PROVE  CalmInv'
<1> DEFINE c == ConnectionOf(r)
<1>1. /\ Alone(r) /\ c \in Connections /\ pool.uses[c] = r
  BY UnderwayFacts
<1>2. \E g : /\ Stays(r, g) /\ todo' = [todo EXCEPT ![r] = rest]
             /\ IF Borrows(n) THEN g = c ELSE held'[r][n.via] = c
  <2>1. CASE /\ Statement(r).via = "pool" /\ Borrows(n) /\ Proceed(r, <<>>, rest)
    BY <1>1, <2>1, QueryAfterQuery
  <2>2. CASE /\ Statement(r).via # "pool" /\ ~Borrows(n) /\ Proceed(r, <<>>, rest)
             /\ held'[r][n.via] = ConnectionOf(r)
    BY <2>2, StatementAfterStatement
  <2>3. CASE /\ Statement(r).via = "pre" /\ ~Borrows(Statement(r)) /\ Borrows(n)
             /\ Proceed(r, <<"pre">>, rest)
    <3>1. held[r].pre = c BY <2>3 DEF ConnectionOf
    <3> QED BY <1>1, <2>3, <3>1, QueryAfterRelease
  <2> QED BY <2>1, <2>2, <2>3
<1>3. PICK g : /\ Stays(r, g) /\ todo' = [todo EXCEPT ![r] = rest]
               /\ IF Borrows(n) THEN g = c ELSE held'[r][n.via] = c
  BY <1>2
<1>4. todo'[r] = rest /\ Statement(r)' = n BY <1>3, CalmFacts DEF Statement
<1>5. pool'.got[r] = g BY <1>3, CalmFacts DEF Stays
<1>6. ConnectionOf(r)' = c BY <1>3, <1>4, <1>5 DEF ConnectionOf
<1> HIDE DEF c
<1>7. Stage(r)' BY <1>4, <1>6 DEF Stage, c
<1> QED BY <1>1, <1>3, <1>6, <1>7, StaysCalm DEF c

\* A statement of its own connection changes nothing of the others.
LEMMA OwnConn ==
  ASSUME NEW r, CalmStep(r), Underway(r), NEW t,
         conn' = [conn EXCEPT ![ConnectionOf(r)] = t],
         \A q \in Requests \ {r} : held'[q] = held[q],
         visible \subseteq visible', \A m \in visible' \ visible : \E do : m = <<r, do>>
  PROVE  OwnEffects(r) /\ conn'[ConnectionOf(r)] = t
  BY UnderwayFacts DEF OwnEffects

LEMMA NoEffects ==
  ASSUME NEW r, UNCHANGED <<held, conn, visible>>
  PROVE  OwnEffects(r) /\ Committed(r)' = Committed(r)
  BY DEF OwnEffects, Committed

\* The new head of a request that goes on.
LEMMA GoesOnIs ==
  ASSUME NEW r, GoesOn(r)
  PROVE  Proceed(r, Statement(r).free, Tail(todo[r]))
  BY DEF GoesOn

LEMMA BeginCalm ==
  ASSUME NEW r, CalmStep(r), Sent(r), Begin(r)
  PROVE  CalmInv'
<1> DEFINE c == ConnectionOf(r)
           k == KindOf[r]
           n == Head(Tail(todo[r]))
<1>1. Underway(r) BY DEF Sent
<1>2. /\ Statement(r).do = "begin" /\ GoesOn(r) /\ db' = db /\ visible' = visible
      /\ conn' = [conn EXCEPT ![c].open = TRUE]
      /\ held' = IF Statement(r).via = "pool" THEN held
                 ELSE [held EXCEPT ![r][Statement(r).via] = c]
  BY DEF Begin
<1>3. conn[c] = NoTransaction /\ Committed(r) = {}
  BY <1>1, <1>2, UnderwayFacts DEF Stage, Outside
<1>4. PICK t : t = [NoTransaction EXCEPT !.open = TRUE] OBVIOUS
<1>5. t.open /\ t.marks = {} BY <1>4 DEF NoTransaction
<1>6. conn' = [conn EXCEPT ![c] = t] BY <1>2, <1>3, <1>4
<1>7. \/ Then(k, todo[r], "create", Query("begin"), Query("take"))
      \/ Then(k, todo[r], "cancel", Query("begin"), Query("cancel"))
      \/ Then(k, todo[r], "reschedule", On("pre", "begin"), On("pre", "lock"))
      \/ Then(k, todo[r], "reschedule", On("client", "begin"), On("client", "lock"))
  <2>1. Program(k, todo[r]) /\ k \in Kinds BY <1>1, UnderwayFacts
  <2>2. todo[r] # <<>> /\ Head(todo[r]).do = "begin" BY <1>1, <1>2 DEF Underway, Statement
  <2> HIDE DEF k
  <2> QED BY <2>1, <2>2, AfterBegin
<1>8. Tail(todo[r]) # <<>> /\ Statement(r).free = <<>>
  BY <1>7, Shapes DEF Then, Statement
<1>9. \A q \in Requests \ {r} : held'[q] = held[q] BY <1>2, <1>1, UnderwayFacts
<1>10. OwnEffects(r) /\ conn'[c] = t
  <2> HIDE DEF c
  <2> QED BY <1>1, <1>2, <1>6, <1>9, OwnConn DEF c
<1>11. Committed(r)' = {} BY <1>2, <1>3 DEF Committed
<1>12. Proceed(r, <<>>, Tail(todo[r])) BY <1>2, <1>8, GoesOnIs
<1>13. /\ n.do # "arrive" /\ ~Late(n) /\ ~Late(Statement(r)) /\ n.do # "read" /\ ~Outside(n)
       /\ DoneBefore(k, n) = {}
  BY <1>7, Shapes DEF Then, Statement, Late, Outside, DoneBefore, WritesOf, Writes
<1>14. Marks(r, {}) = {} BY DEF Marks
<1>15. held[r] \in HeldVariables /\ r \in Requests BY <1>1, UnderwayFacts
<1>16. \/ Statement(r).via = "pool" /\ Borrows(n)
       \/ Statement(r).via # "pool" /\ ~Borrows(n) /\ held'[r][n.via] = c
  <2>1. CASE k # "reschedule" BY <1>7, <2>1, Shapes DEF Then, Statement, Borrows
  <2>2. CASE k = "reschedule"
    <3>1. /\ Statement(r).via \in {"pre", "client"} /\ n.via = Statement(r).via /\ ~Borrows(n)
      BY <1>7, <2>2, Shapes DEF Then, Statement, Borrows
    <3>2. held' = [held EXCEPT ![r][n.via] = c] BY <1>2, <3>1
    <3> QED BY <3>1, <3>2, <1>15, <1>1, UnderwayFacts DEF HeldVariables
  <2> QED BY <2>1, <2>2
<1>17. Moving(n) => held'[r].pre = c
  <2> SUFFICES ASSUME Moving(n) PROVE held'[r].pre = c OBVIOUS
  <2>1. Statement(r) = On("client", "begin") BY <1>7, Shapes DEF Then, Statement, Moving
  <2>2. Statement(r).via = "client" BY <2>1, Shapes
  <2>3. held[r].pre = c BY <1>1, <2>2, UnderwayFacts DEF Alone, Moving
  <2>4. held' = [held EXCEPT ![r]["client"] = c] BY <1>2, <2>2
  <2> QED BY <2>3, <2>4, <1>15, <1>1, UnderwayFacts DEF HeldVariables
<1> HIDE DEF c, n, k
<1> QED BY <1>1, <1>5, <1>8, <1>10, <1>11, <1>12, <1>13, <1>14, <1>16, <1>17, SameConnection
     DEF c, n, k


LEMMA CommitCalm ==
  ASSUME NEW r, CalmStep(r), Sent(r), Commit(r)
  PROVE  CalmInv'
<1> DEFINE c == ConnectionOf(r)
           k == KindOf[r]
           n == Head(Tail(todo[r]))
           s == Statement(r)
<1>1. Underway(r) BY DEF Sent
<1>2. /\ s.do = "commit" /\ GoesOn(r) /\ held' = held
      /\ visible' = visible \cup conn[c].marks
      /\ conn' = [conn EXCEPT ![c] = NoTransaction]
  BY DEF Commit
<1>3. conn[c].marks = Marks(r, DoneBefore(k, s)) /\ Committed(r) = {}
  BY <1>1, <1>2, UnderwayFacts DEF Stage, Inside
<1>4. /\ Program(k, todo[r]) /\ k \in Kinds /\ todo[r] # <<>> /\ Head(todo[r]).do = "commit"
      /\ r \in Requests
  BY <1>1, <1>2, UnderwayFacts DEF Underway, Statement
<1>5. \/ Then(k, todo[r], "create", Query("commit"), Query("read"))
      \/ EndsWith(k, todo[r], "cancel", Query("commit"))
      \/ Then(k, todo[r], "reschedule", PreCommit, Query("window"))
      \/ Then(k, todo[r], "reschedule", On("client", "commit"), LastRead)
  <2> HIDE DEF k
  <2> QED BY <1>4, AfterCommit
<1>6. OwnEffects(r) /\ conn'[c] = NoTransaction
  <2>1. \A m \in visible' \ visible : \E do : m = <<r, do>> BY <1>2, <1>3 DEF Marks
  <2> HIDE DEF c
  <2> QED BY <1>1, <1>2, <2>1, OwnConn DEF c
<1>7. DoneBefore(k, s) = IF s.via = "pre" THEN {} ELSE WritesOf(k)
  BY <1>2 DEF DoneBefore
<1>8. Committed(r)' = IF s.via = "pre" THEN {} ELSE Marks(r, WritesOf(k))
  <2>1. Marks(r, {}) = {} BY DEF Marks
  <2> QED BY <1>2, <1>3, <1>7, <2>1 DEF Committed
<1>9. ~Late(s) BY <1>2, Shapes DEF Late
<1>10. Proceed(r, s.free, Tail(todo[r])) BY <1>2, GoesOnIs
<1>11. CASE Then(k, todo[r], "create", Query("commit"), Query("read"))
  <2>1. /\ s.via = "pool" /\ s.free = <<>> /\ Tail(todo[r]) # <<>>
        /\ n.do = "read" /\ n.via = "pool" /\ ~Late(n) /\ ~Moving(n)
        /\ ~Inside(n) /\ Borrows(n)
    BY <1>11, Shapes DEF Then, Statement, Late, Moving, Inside, Borrows, Writes
  <2> HIDE DEF c, n, k, s
  <2> QED BY <1>1, <1>6, <1>8, <1>9, <1>10, <2>1, SameConnection DEF c, n, k, s
<1>12. CASE EndsWith(k, todo[r], "cancel", Query("commit"))
  <2>1. s.via = "pool" /\ s.free = <<>> /\ Tail(todo[r]) = <<>>
    BY <1>12, Shapes DEF EndsWith, Statement
  <2>2. \A d \in Connections : pool.uses[d] = r <=> d = c
    BY <1>1, <1>9, UnderwayFacts DEF Alone
  <2>3. Leaves(r) BY <1>1, <1>10, <2>1, <2>2, LastQuery, UnderwayFacts
  <2> HIDE DEF c, n, k, s
  <2> QED BY <1>6, <1>8, <2>1, <2>2, <2>3, LeavesCalm DEF c, k
<1>13. CASE Then(k, todo[r], "reschedule", PreCommit, Query("window"))
  <2>1. /\ s.via = "pre" /\ s.free = <<"pre">> /\ Tail(todo[r]) # <<>>
        /\ n.do = "window" /\ n.via = "pool" /\ ~Late(n)
        /\ ~Inside(n) /\ Borrows(n) /\ ~Borrows(s)
    BY <1>13, Shapes DEF Then, Statement, Late, Inside, Borrows, Writes
  <2>2. held'[r].pre = c BY <1>2, <2>1 DEF ConnectionOf
  <2> HIDE DEF c, n, k, s
  <2> QED BY <1>1, <1>6, <1>8, <1>9, <1>10, <2>1, <2>2, SameConnection DEF c, n, k, s
<1>14. CASE Then(k, todo[r], "reschedule", On("client", "commit"), LastRead)
  <2>1. /\ s.via = "client" /\ s.free = <<>> /\ Tail(todo[r]) # <<>>
        /\ n = LastRead /\ n.do = "read" /\ n.via = "pool"
        /\ ~Inside(n) /\ Borrows(n) /\ ~Borrows(s)
    BY <1>14, Shapes DEF Then, Statement, Inside, Borrows, Writes
  <2>2. /\ held[r].client = c /\ held[r].pre = c /\ c \in Connections /\ pool.uses[c] = r
        /\ \A d \in Connections : pool.uses[d] = r <=> d = c
    <3>1. c = held[r].client BY <2>1 DEF ConnectionOf
    <3> QED BY <1>1, <1>9, <2>1, <3>1, UnderwayFacts DEF Alone, Moving
  <2>3. /\ \E d \in Connections : Gets(r, d)
        /\ todo' = [todo EXCEPT ![r] = Tail(todo[r])]
    BY <1>10, <2>1, OneMore
  <2>4. PICK d \in Connections : Gets(r, d) BY <2>3
  <2>5. r # None BY <1>4, PoolAssumption
  <2>6. /\ d # c /\ pool.uses[d] = None /\ pool'.got[r] = d
        /\ \A e \in Connections : pool'.uses[e] = r <=> e \in {d, c}
        /\ pool'.threw = pool.threw
    BY <2>2, <2>4, <2>5, CalmFacts DEF Gets
  <2>7. conn'[d] = NoTransaction BY <1>6, <2>5, <2>6 DEF OwnEffects, CalmStep, CalmInv
  <2>8. Statement(r)' = n /\ todo'[r] = Tail(todo[r]) BY <2>3, CalmFacts DEF Statement
  <2>9. ConnectionOf(r)' = d BY <2>1, <2>6, <2>8 DEF ConnectionOf
  <2>10. ~Moving(n) BY <2>1 DEF Moving
  <2> HIDE DEF c, n, s
  <2>11. Alone(r)'
    BY <1>2, <1>6, <2>1, <2>2, <2>6, <2>8, <2>9, <2>10 DEF Alone, Late
  <2>12. Stage(r)' BY <1>8, <2>1, <2>7, <2>8, <2>9 DEF Stage
  <2>13. Turn(r)' BY <2>1, <2>6, <2>8, <2>11, <2>12, CalmFacts DEF Turn, Underway
  <2> QED BY <1>6, <2>3, <2>4, <2>13, GetsCalm
<1> QED BY <1>5, <1>11, <1>12, <1>13, <1>14

LEMMA RollbackCalm ==
  ASSUME NEW r, CalmStep(r), Sent(r), Rollback(r)
  PROVE  CalmInv'
<1> DEFINE c == ConnectionOf(r)
           k == KindOf[r]
           s == Statement(r)
<1>1. Underway(r) BY DEF Sent
<1>2. /\ s.do = "rollback" /\ GoesOn(r) /\ held' = held /\ visible' = visible
      /\ conn' = [conn EXCEPT ![c] = NoTransaction]
  BY DEF Rollback
<1>3. Committed(r) = {} BY <1>1, <1>2, UnderwayFacts DEF Stage
<1>4. /\ Program(k, todo[r]) /\ k \in Kinds /\ todo[r] # <<>> /\ Head(todo[r]).do = "rollback"
  BY <1>1, <1>2, UnderwayFacts DEF Underway, Statement
<1>5. \/ EndsWith(k, todo[r], "create", Query("rollback"))
      \/ EndsWith(k, todo[r], "reschedule", PreRollback)
      \/ EndsWith(k, todo[r], "reschedule", ClientRollback)
  <2> HIDE DEF k
  <2> QED BY <1>4, AfterRollback
<1>6. OwnEffects(r) /\ conn'[c] = NoTransaction
  <2> HIDE DEF c
  <2> QED BY <1>1, <1>2, OwnConn DEF c
<1>7. Committed(r)' = {} BY <1>2, <1>3 DEF Committed
<1>8. ~Late(s) BY <1>2, Shapes DEF Late
<1>9. Proceed(r, s.free, <<>>) BY <1>2, <1>5, GoesOnIs DEF EndsWith
<1>10. \A d \in Connections : pool.uses[d] = r <=> d = c
  BY <1>1, <1>8, UnderwayFacts DEF Alone
<1>11. c \in Connections BY <1>1, UnderwayFacts
<1>12. Leaves(r)
  <2>1. CASE s = Query("rollback")
    <3>1. s.via = "pool" /\ s.free = <<>> BY <2>1, Shapes
    <3> QED BY <1>9, <1>10, <1>11, <3>1, LastQuery
  <2>2. CASE s = PreRollback
    <3>1. s.via = "pre" /\ s.free = <<"pre", "pre">> /\ ~Borrows(s) BY <2>2, Shapes DEF Borrows
    <3>2. held[r]["pre"] = c BY <3>1 DEF ConnectionOf
    <3> QED BY <1>9, <1>10, <1>11, <3>1, <3>2, RollbackRelease DEF Names
  <2>3. CASE s = ClientRollback
    <3>1. s.via = "client" /\ s.free = <<"client", "pre">> /\ ~Borrows(s)
      BY <2>3, Shapes DEF Borrows
    <3>2. held[r]["client"] = c BY <3>1 DEF ConnectionOf
    <3>3. held[r].pre = c BY <1>1, <3>1, UnderwayFacts DEF Alone, Moving
    <3> QED BY <1>9, <1>10, <1>11, <3>1, <3>2, <3>3, RollbackRelease DEF Names
  <2> QED BY <1>5, <2>1, <2>2, <2>3 DEF EndsWith, Statement
<1> HIDE DEF c, k, s
<1> QED BY <1>6, <1>7, <1>10, <1>12, LeavesCalm

LEMMA CheckCalm ==
  ASSUME NEW r, CalmStep(r), Sent(r), Check(r)
  PROVE  CalmInv'
<1> DEFINE c == ConnectionOf(r)
           n == Head(Tail(todo[r]))
           s == Statement(r)
<1>1. Underway(r) BY DEF Sent
<1>2. /\ s.do = "check"
      /\ GoesOn(r) \/ Proceed(r, <<>>, <<>>)
      /\ UNCHANGED <<held, conn, visible>>
  BY DEF Check
<1>3. /\ conn[c] = NoTransaction /\ Committed(r) = {} /\ c \in Connections
  BY <1>1, <1>2, UnderwayFacts DEF Stage, Outside
<1>4. OwnEffects(r) /\ Committed(r)' = {} /\ conn' = conn BY <1>2, <1>3, NoEffects
<1>5. Then(KindOf[r], todo[r], "cancel", Query("check"), Query("begin"))
  <2>1. /\ Program(KindOf[r], todo[r]) /\ KindOf[r] \in Kinds /\ todo[r] # <<>>
        /\ Head(todo[r]).do = "check"
    BY <1>1, <1>2, UnderwayFacts DEF Underway, Statement
  <2> QED BY <2>1, AfterCheck
<1>6. /\ s.via = "pool" /\ s.free = <<>> /\ Tail(todo[r]) # <<>> /\ ~Late(s)
      /\ n.do = "begin" /\ n.via = "pool" /\ ~Late(n) /\ ~Moving(n)
      /\ ~Inside(n) /\ Borrows(n)
  BY <1>5, Shapes DEF Then, Statement, Late, Moving, Inside, Borrows, Writes
<1>7. CASE GoesOn(r)
  <2>1. Proceed(r, <<>>, Tail(todo[r])) BY <1>6, <1>7, GoesOnIs
  <2> HIDE DEF c, n, s
  <2> QED BY <1>1, <1>3, <1>4, <1>6, <2>1, SameConnection DEF c, n, s
<1>8. CASE Proceed(r, <<>>, <<>>)
  <2>1. \A d \in Connections : pool.uses[d] = r <=> d = c
    BY <1>1, <1>6, UnderwayFacts DEF Alone
  <2> HIDE DEF c, n, s
  <2>2. Leaves(r) BY <1>3, <1>6, <1>8, <2>1, LastQuery DEF c, s
  <2> QED BY <1>3, <1>4, <2>1, <2>2, LeavesCalm
<1> QED BY <1>2, <1>7, <1>8

LEMMA WindowCalm ==
  ASSUME NEW r, CalmStep(r), Sent(r), Window(r)
  PROVE  CalmInv'
<1> DEFINE c == ConnectionOf(r)
           n == Head(Tail(todo[r]))
           s == Statement(r)
<1>1. Underway(r) BY DEF Sent
<1>2. /\ s.do = "window"
      /\ GoesOn(r) \/ Proceed(r, <<"pre">>, <<>>)
      /\ UNCHANGED <<held, conn, visible>>
  BY DEF Window
<1>3. /\ conn[c] = NoTransaction /\ Committed(r) = {} /\ c \in Connections /\ held[r].pre = c
  BY <1>1, <1>2, UnderwayFacts DEF Stage, Outside, Alone, Moving
<1>4. OwnEffects(r) /\ Committed(r)' = {} /\ conn' = conn /\ held' = held
  BY <1>2, <1>3, NoEffects
<1>5. Then(KindOf[r], todo[r], "reschedule", Query("window"), On("client", "begin"))
  <2>1. /\ Program(KindOf[r], todo[r]) /\ KindOf[r] \in Kinds /\ todo[r] # <<>>
        /\ Head(todo[r]).do = "window"
    BY <1>1, <1>2, UnderwayFacts DEF Underway, Statement
  <2> QED BY <2>1, AfterWindow
<1>6. /\ s.via = "pool" /\ s.free = <<>> /\ Tail(todo[r]) # <<>> /\ ~Late(s)
      /\ n.do = "begin" /\ n.via = "client" /\ ~Late(n)
      /\ ~Inside(n) /\ Borrows(n)
  BY <1>5, Shapes DEF Then, Statement, Late, Inside, Borrows, Writes
<1>7. CASE GoesOn(r)
  <2>1. Proceed(r, <<>>, Tail(todo[r])) BY <1>6, <1>7, GoesOnIs
  <2> HIDE DEF c, n, s
  <2> QED BY <1>1, <1>3, <1>4, <1>6, <2>1, SameConnection DEF c, n, s
<1>8. CASE Proceed(r, <<"pre">>, <<>>)
  <2>1. \A d \in Connections : pool.uses[d] = r <=> d = c
    BY <1>1, <1>6, UnderwayFacts DEF Alone
  <2> HIDE DEF c, n, s
  <2>2. Leaves(r) BY <1>3, <1>6, <1>8, <2>1, WindowRelease DEF c, s
  <2> QED BY <1>3, <1>4, <2>1, <2>2, LeavesCalm
<1> QED BY <1>2, <1>7, <1>8

LEMMA ReadCalm ==
  ASSUME NEW r, CalmStep(r), Sent(r), Read(r)
  PROVE  CalmInv'
<1> DEFINE c == ConnectionOf(r)
           s == Statement(r)
<1>1. Underway(r) BY DEF Sent
<1>2. s.do = "read" /\ GoesOn(r) /\ UNCHANGED <<held, conn, visible>> BY DEF Read
<1>3. /\ conn[c] = NoTransaction /\ Committed(r) = Marks(r, WritesOf(KindOf[r]))
      /\ c \in Connections
  BY <1>1, <1>2, UnderwayFacts DEF Stage, Outside
<1>4. /\ OwnEffects(r) /\ Committed(r)' = Marks(r, WritesOf(KindOf[r])) /\ conn' = conn
  BY <1>2, <1>3, NoEffects
<1>5. \/ EndsWith(KindOf[r], todo[r], "create", Query("read"))
      \/ EndsWith(KindOf[r], todo[r], "reschedule", LastRead)
  <2>1. /\ Program(KindOf[r], todo[r]) /\ KindOf[r] \in Kinds /\ todo[r] # <<>>
        /\ Head(todo[r]).do = "read"
    BY <1>1, <1>2, UnderwayFacts DEF Underway, Statement
  <2> QED BY <2>1, AfterRead
<1>6. Proceed(r, s.free, <<>>) BY <1>2, <1>5, GoesOnIs DEF EndsWith
<1>7. CASE s = Query("read")
  <2>1. s.via = "pool" /\ s.free = <<>> /\ ~Late(s) BY <1>7, Shapes DEF Late
  <2>2. \A d \in Connections : pool.uses[d] = r <=> d = c
    BY <1>1, <2>1, UnderwayFacts DEF Alone
  <2> HIDE DEF c, s
  <2>3. Leaves(r) BY <1>3, <1>6, <2>1, <2>2, LastQuery DEF c, s
  <2> QED BY <1>3, <1>4, <2>2, <2>3, LeavesCalm
<1>8. CASE s = LastRead
  <2>1. s.via = "pool" /\ s.free = <<"client", "pre">> /\ s.free # <<>> /\ Late(s) /\ InClient(s)
    BY <1>8, Shapes DEF Late, InClient
  <2>2. held[r].client \in Connections
    <3>1. todo[r] # <<>> /\ BaseInv /\ r \in Requests BY <1>1, UnderwayFacts DEF Underway
    <3>2. KindOf[r] = "reschedule" BY <2>1, <3>1, StatementFacts
    <3> QED BY <2>1, <3>1, <3>2 DEF BaseInv, Assigned
  <2>3. /\ \A d \in Connections : pool.uses[d] = r <=> d \in {c, held[r].client}
        /\ held[r].client # c /\ held[r].pre = held[r].client
        /\ conn[held[r].client] = NoTransaction
    BY <1>1, <2>1, UnderwayFacts DEF Alone
  <2> HIDE DEF c, s
  <2>4. Leaves(r) BY <1>3, <1>6, <2>1, <2>2, <2>3, LastReadRelease DEF c, s
  <2> QED BY <1>3, <1>4, <2>3, <2>4, LeavesCalm
<1> QED BY <1>5, <1>7, <1>8 DEF EndsWith, Statement

LEMMA RollsBackCalm ==
  ASSUME NEW r, CalmStep(r), Underway(r), Statement(r).do \in RollbackDoes,
         KindOf[r] # "cancel", RollsBack(r), held' = held, OwnEffects(r), Committed(r)' = {}
  PROVE  CalmInv'
<1> DEFINE c == ConnectionOf(r)
           s == Statement(r)
           rest == RollbackOf(s.via)
           n == Head(rest)
<1>1. /\ Program(KindOf[r], todo[r]) /\ KindOf[r] \in {"create", "reschedule"} /\ todo[r] # <<>>
      /\ Head(todo[r]).do \in RollbackDoes /\ Head(todo[r]) = s
  BY UnderwayFacts DEF Kinds, Underway, Statement
<1>2. \/ s.via = "pool" /\ rest = <<Query("rollback")>>
      \/ s.via = "pre" /\ rest = <<PreRollback>>
      \/ s.via = "client" /\ rest = <<ClientRollback>>
  BY <1>1, RollbackShape
<1>3. /\ rest # <<>> /\ n.do = "rollback" /\ n.via = s.via
      /\ s.via \in {"pool", "pre", "client"}
  BY <1>2, Shapes
<1>4. s.do \notin {"begin", "read"} BY DEF RollbackDoes
<1>5. /\ ~Late(s) /\ ~Late(n) /\ ~Inside(n) /\ ~Outside(n)
      /\ Borrows(n) <=> s.via = "pool"
  BY <1>3, <1>4, Shapes DEF Late, Inside, Outside, Borrows, Writes
<1>6. Proceed(r, <<>>, rest) BY DEF RollsBack
<1>7. s.via # "pool" => held'[r][n.via] = c
  BY <1>3, <1>4 DEF ConnectionOf, Borrows
<1>8. Moving(n) => held'[r].pre = c
  BY <1>3, UnderwayFacts DEF Alone, Moving
<1> HIDE DEF c, s, n, rest
<1> QED BY <1>3, <1>5, <1>6, <1>7, <1>8, SameConnection DEF c, s, n

LEMMA LockCalm ==
  ASSUME NEW r, CalmStep(r), Sent(r), Lock(r)
  PROVE  CalmInv'
<1> DEFINE c == ConnectionOf(r)
           n == Head(Tail(todo[r]))
           s == Statement(r)
           k == KindOf[r]
<1>1. Underway(r) BY DEF Sent
<1>2. /\ s.do = "lock" /\ held' = held /\ visible' = visible
      /\ conn' = [conn EXCEPT ![c].locks = @ \cup {BookingOf[r]}]
      /\ GoesOn(r) \/ RollsBack(r)
  BY DEF Lock
<1>3. /\ conn[c].open /\ conn[c].marks = Marks(r, DoneBefore(k, s)) /\ Committed(r) = {}
      /\ conn[c] \in Transactions
  BY <1>1, <1>2, UnderwayFacts DEF Stage, Inside
<1>4. PICK t : t = [conn[c] EXCEPT !.locks = @ \cup {BookingOf[r]}] OBVIOUS
<1>5. t.open /\ t.marks = conn[c].marks BY <1>3, <1>4 DEF Transactions
<1>6. conn' = [conn EXCEPT ![c] = t] BY <1>2, <1>4
<1>7. OwnEffects(r) /\ conn'[c] = t
  <2> HIDE DEF c
  <2> QED BY <1>1, <1>2, <1>6, OwnConn DEF c
<1>8. Committed(r)' = {} BY <1>2, <1>3 DEF Committed
<1>9. \/ Then(k, todo[r], "reschedule", On("pre", "lock"), PreCommit)
      \/ Then(k, todo[r], "reschedule", On("client", "lock"), On("client", "take"))
  <2>1. /\ Program(k, todo[r]) /\ k \in Kinds /\ todo[r] # <<>> /\ Head(todo[r]).do = "lock"
    BY <1>1, <1>2, UnderwayFacts DEF Underway, Statement
  <2> HIDE DEF k
  <2> QED BY <2>1, AfterLock
<1>10. CASE RollsBack(r)
  <2>1. k # "cancel" BY <1>9 DEF Then
  <2>2. s.do \in RollbackDoes BY <1>2 DEF RollbackDoes
  <2> QED BY <1>1, <1>2, <1>7, <1>8, <1>10, <2>1, <2>2, RollsBackCalm
<1>11. CASE GoesOn(r)
  <2>1. /\ s.free = <<>> /\ Tail(todo[r]) # <<>> /\ ~Late(s) /\ s.via \in {"pre", "client"}
        /\ n.via = s.via /\ n.do \in {"commit", "take"} /\ ~Late(n) /\ ~Outside(n)
        /\ ~Borrows(n) /\ ~Borrows(s)
    BY <1>9, Shapes DEF Then, Statement, Late, Outside, Borrows
  <2>2. DoneBefore(k, s) = {} /\ DoneBefore(k, n) = {}
    BY <1>2, <1>9, Shapes DEF DoneBefore, Then, Statement
  <2>3. Proceed(r, <<>>, Tail(todo[r])) BY <1>11, <2>1, GoesOnIs
  <2>4. held'[r][n.via] = c BY <1>2, <2>1 DEF ConnectionOf
  <2>5. Moving(n) => held'[r].pre = c
    BY <1>1, <1>2, <2>1, UnderwayFacts DEF Alone, Moving
  <2> HIDE DEF c, n, s, k
  <2>6. n.do # "arrive" /\ n.do # "read" /\ s.via # "pool" BY <2>1
  <2> QED BY <1>1, <1>3, <1>5, <1>7, <1>8, <2>1, <2>2, <2>3, <2>4, <2>5, <2>6, SameConnection
          DEF c, n, s, k
<1> QED BY <1>2, <1>10, <1>11

\* One of the request's writes inside its transaction.
LEMMA WriteCalm ==
  ASSUME NEW r, CalmStep(r), Sent(r), Statement(r).do \in Writes, NEW row, NEW status,
         Write(r, row, status), GoesOn(r), held' = held
  PROVE  CalmInv'
<1> DEFINE c == ConnectionOf(r)
           n == Head(Tail(todo[r]))
           s == Statement(r)
           k == KindOf[r]
           mark == <<r, s.do>>
<1>1. Underway(r) BY DEF Sent
<1>2. /\ conn[c].open /\ conn[c].marks = Marks(r, DoneBefore(k, s)) /\ Committed(r) = {}
      /\ conn[c] \in Transactions
  <2>1. Inside(s) /\ s.do # "read" BY DEF Inside, Writes
  <2> QED BY <1>1, <2>1, UnderwayFacts DEF Stage
<1>3. PICK w : conn' = [conn EXCEPT ![c].writes = w, ![c].locks = @ \cup {row},
                                    ![c].marks = @ \cup {mark}]
               /\ visible' = visible
  BY <1>2 DEF Write
<1>4. PICK t : t = [conn[c] EXCEPT !.writes = w, !.locks = @ \cup {row}, !.marks = @ \cup {mark}]
  OBVIOUS
<1> HIDE DEF mark
<1>5. t.open /\ t.marks = conn[c].marks \cup {mark} BY <1>2, <1>4 DEF Transactions
<1>6. conn' = [conn EXCEPT ![c] = t] BY <1>2, <1>3, <1>4 DEF Transactions
<1>7. OwnEffects(r) /\ conn'[c] = t
  <2> HIDE DEF c
  <2> QED BY <1>1, <1>3, <1>6, OwnConn DEF c
<1>8. Committed(r)' = {} BY <1>2, <1>3 DEF Committed
<1>9. \/ Then(k, todo[r], "create", Query("take"), Query("insert"))
      \/ Then(k, todo[r], "reschedule", On("client", "take"), On("client", "cancel"))
      \/ Then(k, todo[r], "cancel", Query("cancel"), Query("open"))
      \/ Then(k, todo[r], "reschedule", On("client", "cancel"), On("client", "open"))
      \/ Then(k, todo[r], "cancel", Query("open"), Query("commit"))
      \/ Then(k, todo[r], "reschedule", On("client", "open"), On("client", "insert"))
      \/ Then(k, todo[r], "create", Query("insert"), Query("commit"))
      \/ Then(k, todo[r], "reschedule", On("client", "insert"), On("client", "commit"))
  <2>1. /\ Program(k, todo[r]) /\ k \in Kinds /\ todo[r] # <<>>
        /\ Head(todo[r]).do \in {"take", "open", "insert", "cancel"}
    BY <1>1, UnderwayFacts DEF Underway, Statement, Writes
  <2> HIDE DEF k
  <2>2. CASE Head(todo[r]).do = "take" BY <2>1, <2>2, AfterTake
  <2>3. CASE Head(todo[r]).do = "open" BY <2>1, <2>3, AfterOpen
  <2>4. CASE Head(todo[r]).do = "insert" BY <2>1, <2>4, AfterInsert
  <2>5. CASE Head(todo[r]).do = "cancel" BY <2>1, <2>5, AfterCancel
  <2> QED BY <2>1, <2>2, <2>3, <2>4, <2>5
<1>10. /\ s.free = <<>> /\ Tail(todo[r]) # <<>> /\ ~Late(s) /\ s.via \in {"pool", "client"}
       /\ n.via = s.via /\ n.do \in Writes \cup {"commit"} /\ ~Late(n)
       /\ s.do # "begin" /\ n.do # "begin"
  BY <1>9, Shapes DEF Then, Statement, Late, Writes
<1>11. DoneBefore(k, n) = DoneBefore(k, s) \cup {s.do}
  BY <1>9, Shapes DEF DoneBefore, WritesOf, Writes, Then, Statement
<1>12. t.marks = Marks(r, DoneBefore(k, n)) BY <1>2, <1>5, <1>11 DEF Marks, mark
<1>13. Proceed(r, <<>>, Tail(todo[r])) BY <1>10, GoesOnIs
<1>14. s.via # "pool" => held'[r][n.via] = c BY <1>10 DEF ConnectionOf, Borrows
<1>15. Moving(n) => held'[r].pre = c
  <2>1. Moving(n) => Moving(s) BY <1>10 DEF Moving, Writes
  <2> QED BY <1>1, <2>1, UnderwayFacts DEF Alone
<1>16. /\ n.do # "arrive" /\ n.do # "read" /\ ~Outside(n)
       /\ Borrows(n) <=> s.via = "pool"
  BY <1>10 DEF Writes, Outside, Borrows
<1> HIDE DEF c, n, s, k
<1> QED BY <1>1, <1>5, <1>7, <1>8, <1>10, <1>2, <1>12, <1>13, <1>14, <1>15, <1>16, SameConnection
        DEF c, n, s, k

LEMMA TakeCalm ==
  ASSUME NEW r, CalmStep(r), Sent(r), Take(r)
  PROVE  CalmInv'
<1>1. Underway(r) BY DEF Sent
<1>2. Statement(r).do = "take" /\ held' = held BY DEF Take
<1>3. CASE Write(r, TargetOf[r], "booked") /\ GoesOn(r)
  BY <1>2, <1>3, WriteCalm DEF Writes
<1>4. CASE RollsBack(r) /\ UNCHANGED <<conn, db, visible>>
  <2>1. Committed(r) = {} BY <1>1, <1>2, UnderwayFacts DEF Stage
  <2>2. OwnEffects(r) /\ Committed(r)' = {} BY <1>2, <1>4, <2>1, NoEffects
  <2>3. KindOf[r] # "cancel"
    <3>1. /\ Program(KindOf[r], todo[r]) /\ KindOf[r] \in Kinds /\ todo[r] # <<>>
          /\ Head(todo[r]).do = "take"
      BY <1>1, <1>2, UnderwayFacts DEF Underway, Statement
    <3> QED BY <3>1, AfterTake DEF Then
  <2> QED BY <1>1, <1>2, <1>4, <2>2, <2>3, RollsBackCalm DEF RollbackDoes
<1> QED BY <1>3, <1>4 DEF Take

LEMMA FailsCalm ==
  ASSUME NEW r, CalmStep(r), Sent(r), Statement(r).do \in RollbackDoes, Fails(r)
  PROVE  CalmInv'
<1> DEFINE c == ConnectionOf(r)
           t == [NoTransaction EXCEPT !.open = Statement(r).via # "pool"]
<1>1. Underway(r) BY DEF Sent
<1>2. held' = held /\ visible' = visible /\ conn' = [conn EXCEPT ![c] = t] BY DEF Fails
<1>3. OwnEffects(r) /\ conn'[c] = t
  <2> HIDE DEF c, t
  <2> QED BY <1>1, <1>2, OwnConn DEF c
<1>4. Statement(r).do # "read" BY DEF RollbackDoes
<1>5. Committed(r)' = {} BY <1>1, <1>2, <1>4, UnderwayFacts DEF Stage, Committed
<1>6. CASE KindOf[r] # "cancel"
  <2>1. RollsBack(r) BY <1>6 DEF Fails
  <2> QED BY <1>1, <1>2, <1>3, <1>5, <1>6, <2>1, RollsBackCalm
<1>7. CASE KindOf[r] = "cancel"
  <2>1. Proceed(r, <<>>, <<>>) BY <1>7 DEF Fails
  <2>2. Statement(r).via = "pool" /\ ~Late(Statement(r))
    <3>1. /\ Statement(r).via \in {"none", "pool"} /\ Statement(r).free = <<>>
          /\ Statement(r).via # "none"
      BY <1>1, <1>7, StatementFacts, UnderwayFacts DEF Underway
    <3> QED BY <3>1, Shapes DEF Late
  <2>3. t = NoTransaction
    <3>1. t = [NoTransaction EXCEPT !.open = FALSE] BY <2>2
    <3>2. /\ NoTransaction = [x \in DOMAIN NoTransaction |-> NoTransaction[x]]
          /\ NoTransaction.open = FALSE
      BY DEF NoTransaction
    <3>3. [NoTransaction EXCEPT !.open = FALSE] = NoTransaction BY <3>2
    <3> QED BY <3>1, <3>3
  <2>4. c \in Connections /\ \A d \in Connections : pool.uses[d] = r <=> d = c
    BY <1>1, <2>2, UnderwayFacts DEF Alone
  <2> HIDE DEF c, t
  <2>5. Leaves(r) BY <2>1, <2>2, <2>4, LastQuery DEF c
  <2> QED BY <1>3, <1>5, <2>3, <2>4, <2>5, LeavesCalm
<1> QED BY <1>6, <1>7

LEMMA InsertCalm ==
  ASSUME NEW r, CalmStep(r), Sent(r), Insert(r)
  PROVE  CalmInv'
<1>1. Statement(r).do = "insert" BY DEF Insert
<1>2. CASE Write(r, Inserted(r), "booked") /\ GoesOn(r) /\ held' = held
  BY <1>1, <1>2, WriteCalm DEF Writes
<1>3. CASE Fails(r) BY <1>1, <1>3, FailsCalm DEF RollbackDoes
<1> QED BY <1>2, <1>3 DEF Insert

LEMMA ArriveCalm ==
  ASSUME NEW r, CalmStep(r), Arrive(r)
  PROVE  CalmInv'
<1> DEFINE n == Head(Tail(todo[r]))
           s == Statement(r)
           k == KindOf[r]
<1>1. /\ todo[r] # <<>> /\ s.do = "arrive" /\ GoesOn(r) /\ UNCHANGED <<held, conn, visible>>
  BY DEF Arrive
<1>2. /\ r \in Requests /\ BaseInv /\ Turn(r) /\ ~Underway(r)
  BY <1>1 DEF CalmStep, CalmInv, Underway
<1>3. Committed(r) = {} /\ \A d \in Connections : pool.uses[d] # r
  BY <1>1, <1>2 DEF Turn
<1>4. OwnEffects(r) /\ Committed(r)' = {} /\ conn' = conn BY <1>1, <1>3, NoEffects
<1>5. \/ Then(k, todo[r], "create", Arriving, Query("begin"))
      \/ Then(k, todo[r], "cancel", Arriving, Query("check"))
      \/ Then(k, todo[r], "reschedule", Arriving, On("pre", "begin"))
  <2>1. /\ Program(k, todo[r]) /\ k \in Kinds /\ Head(todo[r]).do = "arrive"
    BY <1>1, <1>2, StatementFacts DEF Statement
  <2> HIDE DEF k
  <2> QED BY <1>1, <2>1, AfterArrive
<1>6. /\ s.via # "pool" /\ ~Borrows(s) /\ s.free = <<>> /\ Tail(todo[r]) # <<>>
      /\ n.do \in {"begin", "check"} /\ Borrows(n) /\ ~Late(n) /\ ~Moving(n)
  BY <1>5, Shapes DEF Then, Statement, Late, Moving, Borrows
<1>7. Proceed(r, <<>>, Tail(todo[r])) BY <1>1, <1>6, GoesOnIs
<1>8. /\ \E d \in Connections : Gets(r, d)
      /\ todo' = [todo EXCEPT ![r] = Tail(todo[r])]
  BY <1>6, <1>7, OneMore
<1>9. PICK d \in Connections : Gets(r, d) BY <1>8
<1>10. r # None BY <1>2, PoolAssumption
<1>11. /\ pool.uses[d] = None /\ pool'.got[r] = d
       /\ \A e \in Connections : pool'.uses[e] = r <=> e = d
       /\ pool'.threw = pool.threw
  BY <1>3, <1>9, <1>10, CalmFacts DEF Gets
<1>12. conn'[d] = NoTransaction BY <1>4, <1>11 DEF CalmStep, CalmInv
<1>13. Statement(r)' = n /\ todo'[r] = Tail(todo[r]) BY <1>8, CalmFacts DEF Statement
<1>14. ConnectionOf(r)' = d BY <1>6, <1>11, <1>13 DEF ConnectionOf
<1> HIDE DEF n, s
<1>15. Alone(r)' BY <1>6, <1>11, <1>13, <1>14 DEF Alone
<1>16. Stage(r)' BY <1>4, <1>6, <1>12, <1>13, <1>14 DEF Stage, Outside, Inside, Writes
<1>17. Turn(r)' BY <1>6, <1>11, <1>13, <1>15, <1>16, CalmFacts DEF Turn, Underway
<1> QED BY <1>4, <1>8, <1>9, <1>17, GetsCalm

LEMMA CalmNext ==
  ASSUME PoolInv, [Next]_vars
  PROVE  PoolInv'
<1>1. BaseInv' BY BaseNext DEF PoolInv
<1>2. ASSUME ~saturated' PROVE CalmInv'
  <2>1. CASE UNCHANGED vars
    <3>1. BaseInv /\ CalmInv BY <1>2, <2>1 DEF PoolInv, vars
    <3> QED BY <2>1, <3>1 DEF vars, CalmInv, Turn, Alone, Stage, Underway, Statement, ConnectionOf,
                             Committed
  <2>2. ASSUME NEW r \in Requests, NEW names, NEW rest, todo[r] # <<>>, Proceed(r, names, rest)
        PROVE  CalmStep(r)
    <3>1. ~saturated BY <1>2, <2>2 DEF Proceed
    <3> QED BY <1>2, <2>2, <3>1 DEF PoolInv, CalmStep
  <2>3. ASSUME NEW r \in Requests, Arrive(r) PROVE CalmInv'
    <3>1. todo[r] # <<>> /\ Proceed(r, Statement(r).free, Tail(todo[r]))
      BY <2>3 DEF Arrive, GoesOn
    <3> QED BY <2>2, <2>3, <3>1, ArriveCalm
  <2>4. ASSUME NEW r \in Requests, Execute(r) PROVE CalmInv'
    <3>1. Sent(r) /\ todo[r] # <<>> BY <2>4 DEF Execute, Sent, Underway
    <3>2. \E names, rest : Proceed(r, names, rest)
      BY <2>4 DEF Execute, Begin, Commit, Rollback, Check, Window, Read, Lock, Take, Insert, Update,
                  Fails, GoesOn, RollsBack
    <3>3. CalmStep(r) BY <2>2, <3>1, <3>2
    <3>4. CASE Begin(r) BY <3>1, <3>3, <3>4, BeginCalm
    <3>5. CASE Commit(r) BY <3>1, <3>3, <3>5, CommitCalm
    <3>6. CASE Rollback(r) BY <3>1, <3>3, <3>6, RollbackCalm
    <3>7. CASE Check(r) BY <3>1, <3>3, <3>7, CheckCalm
    <3>8. CASE Window(r) BY <3>1, <3>3, <3>8, WindowCalm
    <3>9. CASE Read(r) BY <3>1, <3>3, <3>9, ReadCalm
    <3>10. CASE Lock(r) BY <3>1, <3>3, <3>10, LockCalm
    <3>11. CASE Take(r) BY <3>1, <3>3, <3>11, TakeCalm
    <3>12. CASE Insert(r) BY <3>1, <3>3, <3>12, InsertCalm
    <3>13. CASE Update(r, "cancel", BookingOf[r], "cancelled")
      BY <3>1, <3>3, <3>13, WriteCalm DEF Update, Writes
    <3>14. CASE Update(r, "open", PlaceOf[BookingOf[r]], "open")
      BY <3>1, <3>3, <3>14, WriteCalm DEF Update, Writes
    <3> QED BY <2>4, <3>4, <3>5, <3>6, <3>7, <3>8, <3>9, <3>10, <3>11, <3>12, <3>13, <3>14
            DEF Execute
  <2>5. ASSUME NEW r \in Requests, EndDeadlock(r) PROVE CalmInv'
    <3>1. /\ Sent(r) /\ WaitsFor(r) # {} /\ Fails(r) /\ todo[r] # <<>>
      BY <2>5 DEF EndDeadlock, Sent, Underway
    <3>2. \E names, rest : Proceed(r, names, rest) BY <3>1 DEF Fails, RollsBack
    <3>3. CalmStep(r) BY <2>2, <3>1, <3>2
    <3> QED BY <3>1, <3>3, WaitingDoes, FailsCalm
  <2> QED BY <2>1, <2>3, <2>4, <2>5 DEF Next
<1> QED BY <1>1, <1>2 DEF PoolInv

LEMMA PoolInit ==
  ASSUME Init
  PROVE  PoolInv
<1>1. BaseInv BY BaseInit
<1>2. pool.queue = <<>> /\ pool.threw = {} /\ (\A c \in Connections : conn[c] = NoTransaction)
      /\ visible = {} /\ \A c \in Connections : pool.uses[c] = None
  BY DEF Init
<1>3. ASSUME NEW r \in Requests PROVE Turn(r)
  <2>1. todo[r] = <<Arriving>> \o Statements(KindOf[r]) BY DEF Init, Arriving
  <2>2. todo[r] # <<>> /\ Statement(r) = Arriving
    BY <2>1, KindInKinds, Whole DEF Statement
  <2>3. ~Underway(r) BY <2>2, Shapes DEF Underway
  <2>4. Committed(r) = {} BY <1>2 DEF Committed
  <2>5. r # None BY PoolAssumption
  <2> QED BY <1>2, <2>3, <2>4, <2>5 DEF Turn
<1> QED BY <1>1, <1>2, <1>3 DEF PoolInv, CalmInv

LEMMA PoolInvHolds == Spec => []PoolInv
<1>1. Init => PoolInv BY PoolInit
<1>2. PoolInv /\ [Next]_vars => PoolInv' BY CalmNext
<1> QED BY <1>1, <1>2, PTL DEF Spec

\* Until somebody has waited for a connection, nobody else has the one a request sends its
\* next statement on, although reschedule.service.ts:132 releases clientPre again.
THEOREM PoolConnectionIsItsOwn == Spec => []ConnectionIsItsOwn
<1>1. PoolInv => ConnectionIsItsOwn
  BY DEF PoolInv, CalmInv, Turn, Alone, ConnectionIsItsOwn
<1> QED BY <1>1, PoolInvHolds, PTL

\* Until then the statements of createBooking and cancelBooking are one transaction, as
\* those of reschedule are: of each request all writes are committed, or none.
THEOREM PoolAllOrNothing == Spec => []AllOrNothing
<1>1. ASSUME PoolInv, ~saturated, NEW r \in Requests
      PROVE  LET all == {<<r, do>> : do \in {s.do : s \in Range(Statements(KindOf[r]))} \cap Writes}
             IN visible \cap all \in {{}, all}
  <2> DEFINE dos == {s.do : s \in Range(Statements(KindOf[r]))} \cap Writes
  <2>1. dos = WritesOf(KindOf[r])
    <3>1. CASE KindOf[r] = "create"
      <4>1. Statements(KindOf[r]) = CreateStatements BY <3>1 DEF Statements
      <4>2. Range(CreateStatements) =
              {Query("begin"), Query("take"), Query("insert"), Query("commit"), Query("read")}
        BY DEF Range, CreateStatements
      <4> QED BY <3>1, <4>1, <4>2, Shapes DEF WritesOf, Writes
    <3>2. CASE KindOf[r] = "cancel"
      <4>1. Statements(KindOf[r]) = CancelStatements BY <3>2 DEF Statements
      <4>2. Range(CancelStatements) =
              {Query("check"), Query("begin"), Query("cancel"), Query("open"), Query("commit")}
        BY DEF Range, CancelStatements
      <4> QED BY <3>2, <4>1, <4>2, Shapes DEF WritesOf, Writes
    <3>3. CASE KindOf[r] = "reschedule"
      <4>1. Statements(KindOf[r]) = RescheduleStatements BY <3>3 DEF Statements
      <4> DEFINE t == <<On("pre", "begin"), On("pre", "lock"), PreCommit, Query("window"),
                  On("client", "begin"), On("client", "lock"), On("client", "take"),
                  On("client", "cancel"), On("client", "open"), On("client", "insert"),
                  On("client", "commit"), LastRead>>
      <4>2. t = RescheduleStatements
        BY DEF RescheduleStatements, MoveStatements, PreCommit, LastRead
      <4>4. /\ DOMAIN t = 1 .. 12 /\ t[7] = On("client", "take") /\ t[8] = On("client", "cancel")
            /\ t[9] = On("client", "open") /\ t[10] = On("client", "insert")
        OBVIOUS
      <4> HIDE DEF t
      <4>5. \A do \in Writes : \E i \in DOMAIN t : t[i].do = do
        BY <4>4, Shapes DEF Writes
      <4>6. Writes \subseteq {s.do : s \in Range(t)} BY <4>5 DEF Range
      <4> QED BY <3>3, <4>1, <4>2, <4>6 DEF WritesOf
    <3> QED BY <3>1, <3>2, <3>3, KindInKinds DEF Kinds
  <2>2. Turn(r) BY <1>1 DEF PoolInv, CalmInv
  <2>3. Committed(r) \in {{}, Marks(r, WritesOf(KindOf[r]))}
    BY <2>2 DEF Turn, Stage
  <2> HIDE DEF dos
  <2>4. {<<r, do>> : do \in dos} = Marks(r, WritesOf(KindOf[r])) BY <2>1 DEF Marks
  <2> QED BY <2>3, <2>4 DEF Committed, dos
<1>2. PoolInv => AllOrNothing BY <1>1 DEF AllOrNothing
<1> QED BY <1>2, PoolInvHolds, PTL

\* Until then, and between requests, the pool has all its connections and none of them is
\* inside a transaction.
THEOREM PoolWholeAtRest == Spec => []PoolIsWholeAtRest
<1>1. ASSUME PoolInv, AtRest, ~saturated
      PROVE  /\ Range(pool.idle) = Connections
             /\ \A c \in Connections : conn[c] = NoTransaction
  <2>1. \A c \in Connections : pool.uses[c] = None
    <3>1. \A c \in Connections : pool.uses[c] \in Requests \cup {None}
      BY <1>1, PoolFields DEF PoolInv, BaseInv
    <3>2. \A r \in Requests : \A c \in Connections : pool.uses[c] # r
      BY <1>1 DEF AtRest, PoolInv, CalmInv, Turn
    <3> QED BY <3>1, <3>2
  <2>2. \A c \in Connections : conn[c] = NoTransaction
    BY <1>1, <2>1 DEF PoolInv, CalmInv
  <2>3. \A c \in Connections : \E i \in 1 .. Len(pool.idle) : pool.idle[i] = c
    BY <1>1, <2>1 DEF PoolInv, BaseInv, Books
  <2>4. DOMAIN pool.idle = 1 .. Len(pool.idle) /\ pool.idle \in [1 .. Len(pool.idle) -> Connections]
    BY <1>1, PoolFields, LenProperties DEF PoolInv, BaseInv
  <2> QED BY <2>2, <2>3, <2>4 DEF Range
<1>2. PoolInv => PoolIsWholeAtRest BY <1>1 DEF PoolIsWholeAtRest
<1> QED BY <1>2, PoolInvHolds, PTL
=============================================================================
