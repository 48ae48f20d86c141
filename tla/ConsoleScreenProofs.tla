------------------------- MODULE ConsoleScreenProofs -------------------------
(***************************************************************************)
(* Proofs about ProviderConsole: its types, that a page which says it is   *)
(* loading waits for a request, and that an action a page was told of is   *)
(* shown.                                                                  *)
(*                                                                         *)
(* Why: behind every list that is out of date there is a load that was     *)
(* sent later, which replaces it or marks it as overtaken.                 *)
(***************************************************************************)
EXTENDS ProviderConsoleProofs, SequenceTheorems, FiniteSetTheorems

(***************************************************************************)
(* The inductive invariant: types                                          *)
(***************************************************************************)
Kinds == {"list", "find", "profile", "act", "save"}
Active == {"booked", "confirmed", "upcoming"}

\* What a page keeps of bookings or clients.
ItemsOf(p) == IF p = "clients" THEN Clients ELSE Bookings

ViewOK(v, p) ==
  /\ v = [loading |-> v.loading, error |-> v.error, items |-> v.items, search |-> v.search,
          filter |-> v.filter, drawer |-> v.drawer, note |-> v.note, timer |-> v.timer,
          slug |-> v.slug, notice |-> v.notice, late |-> v.late]
  /\ DOMAIN v.items \subseteq ItemsOf(p)
  /\ v.drawer # None => v.drawer.id \in Bookings
  /\ v.notice \in Notices
  /\ v.timer => p = "search"
  /\ p = "search" => v.items = Nothing

AnswerOK(m) ==
  /\ m.answer.result \in Results
  /\ DOMAIN m.answer.items \subseteq ItemsOf(m.from)
  /\ m.kind # "list" => m.answer.items = Nothing
  /\ m.kind = "profile" /\ m.answer.result = "ok" => m.answer.notice \in Notices

AskOK(m) ==
  /\ m.kind = "act" => m.ask.id \in Bookings
  /\ m.kind = "save" => m.ask.notice \in Notices \cup {None}

\* A load is one of the page on the screen, and so is what a page waits for.
SentFrom(m, p) ==
  /\ m.kind \in Kinds
  /\ m.kind \in Loads => m.from = p
  /\ m.kind = "list" => p \in Lists
  /\ m.live = "page" => m.from = p

RequestShape(m) ==
  m = [kind |-> m.kind, from |-> m.from, ask |-> m.ask, cookie |-> m.cookie,
       phase |-> m.phase, who |-> m.who, live |-> m.live, late |-> m.late, answer |-> m.answer]

RequestOK(m, p) ==
  /\ RequestShape(m) /\ SentFrom(m, p) /\ AskOK(m) /\ AnswerOK(m)
  /\ m.phase \in {"sent", "admitted", "answered"}
  /\ m.who \in Providers \cup {None}
  /\ m.phase = "admitted" => m.who \in Providers /\ m.kind = "save"

\* Requests in the order they were sent.
IsNet(s) == s \in Seq({s[i] : i \in DOMAIN s})
NetOK == IsNet(net) /\ \A i \in DOMAIN net : RequestOK(net[i], page)

BookingsOK ==
  /\ bookings = [b \in Bookings |-> bookings[b]]
  /\ \A b \in Bookings : /\ bookings[b] = [status |-> bookings[b].status,
                                           version |-> bookings[b].version]
                         /\ bookings[b].version \in Nat
                         /\ bookings[b].version >= FirstVersion[b]

SessionTypes ==
  /\ now \in 0 .. MaxNow /\ issued \in 0 .. MaxIssued
  /\ \A l \in logins : l.provider \in Providers

RowTypes == \A p \in Providers : rows[p].notice \in Notices

ScreenTypes ==
  page \in Pages /\ ViewOK(view, page) /\ NetOK /\ BookingsOK /\ mine \subseteq Bookings

(***************************************************************************)
(* The inductive invariant: what is done and what is shown                 *)
(***************************************************************************)
\* An action that was carried out, whether or not its page has been told.
DoneBy(m) == m.kind = "act" /\ m.answer.result = "done"
DoneIsDone ==
  \A b \in Bookings \ reopened :
    (b \in mine \/ \E i \in DOMAIN net : DoneBy(net[i]) /\ net[i].ask.id = b) =>
      bookings[b].status \notin Active

\* A list that shows a booking as active whose action the page was told of.
Stale(items) == \E b \in mine \ reopened : b \in DOMAIN items /\ items[b] \in Active

\* A load that is not going to put a stale list on the screen.
FreshLoad(m) == m.kind = "list" /\ (m.answer.result = "ok" => ~Stale(m.answer.items))

\* Behind a stale list there is a load that overtakes it or replaces it.
StaleIsOvertaken ==
  /\ \A i \in DOMAIN net :
       net[i].kind = "list" /\ ~net[i].late /\ ~FreshLoad(net[i]) =>
         \E j \in DOMAIN net : j > i /\ FreshLoad(net[j])
  /\ Stale(view.items) =>
       view.late \/ view.error \/ \E j \in DOMAIN net : FreshLoad(net[j])

\* What pages and requests change, and what is behind it.
ScreenInv == ScreenTypes /\ LoadingHasRequest /\ DoneIsDone /\ StaleIsOvertaken
ConsoleInv == SessionInv /\ SessionTypes /\ RowsOK /\ RowTypes /\ ScreenInv

(***************************************************************************)
(* Requests under way                                                      *)
(***************************************************************************)
LEMMA NetLength ==
  ASSUME NEW s, IsNet(s)
  PROVE  Len(s) \in Nat /\ DOMAIN s = 1 .. Len(s)
  BY LenProperties DEF IsNet

LEMMA NetIs ==
  ASSUME NEW s, NEW n \in Nat, DOMAIN s = 1 .. n, s = [i \in 1 .. n |-> s[i]]
  PROVE  IsNet(s) /\ Len(s) = n
<1> DEFINE S == {s[i] : i \in DOMAIN s}
<1>1. \A i \in 1 .. n : s[i] \in S OBVIOUS
<1> HIDE DEF S
<1>2. s \in [1 .. n -> S] BY <1>1
<1>3. s \in Seq(S) BY <1>2, SeqDef
<1>4. Len(s) = n BY <1>2, <1>3, LenProperties
<1> QED BY <1>3, <1>4 DEF IsNet, S

LEMMA SeqIsNet ==
  ASSUME NEW S, NEW s \in Seq(S)
  PROVE  IsNet(s)
<1>1. Len(s) \in Nat /\ DOMAIN s = 1 .. Len(s) /\ s = [i \in 1 .. Len(s) |-> s[i]]
  BY LenProperties
<1>2. PICK n \in Nat : n = Len(s) BY <1>1
<1> QED BY <1>1, <1>2, NetIs

LEMMA AppendIs ==
  ASSUME NEW s, IsNet(s), NEW m
  PROVE  LET t == Append(s, m)
         IN /\ IsNet(t) /\ Len(t) = Len(s) + 1 /\ t[Len(t)] = m
            /\ \A i \in DOMAIN s : t[i] = s[i]
<1> DEFINE S == {s[i] : i \in DOMAIN s} \cup {m}
           t == Append(s, m)
<1>1. s \in Seq(S)
  <2>1. s \in Seq({s[i] : i \in DOMAIN s}) BY DEF IsNet
  <2> QED BY <2>1, SeqMonotonic
<1>2. /\ t \in Seq(S) /\ Len(t) = Len(s) + 1 /\ Len(s) \in Nat
      /\ \A i \in 1 .. Len(s) : t[i] = s[i]
      /\ t[Len(s) + 1] = m
  <2> HIDE DEF S
  <2>1. m \in S BY DEF S
  <2> QED BY <1>1, <2>1, AppendProperties, LenProperties
<1> HIDE DEF t
<1>4. IsNet(t) BY <1>2, SeqIsNet
<1> QED BY <1>2, <1>4, NetLength DEF t

LEMMA RemoveIs ==
  ASSUME NEW s, IsNet(s), NEW i \in DOMAIN s
  PROVE  LET t == RemoveAt(s, i)
         IN /\ IsNet(t) /\ Len(t) = Len(s) - 1
            /\ \A k \in 1 .. Len(t) : t[k] = s[IF k < i THEN k ELSE k + 1]
<1> DEFINE S == {s[k] : k \in DOMAIN s}
<1>1. s \in Seq(S) /\ Len(s) \in Nat /\ DOMAIN s = 1 .. Len(s) BY NetLength DEF IsNet
<1>2. PICK a : a = SubSeq(s, 1, i - 1) OBVIOUS
<1>3. PICK b : b = SubSeq(s, i + 1, Len(s)) OBVIOUS
<1> HIDE DEF S
<1>4. /\ a \in Seq(S) /\ Len(a) = i - 1 /\ \A k \in 1 .. i - 1 : a[k] = s[k]
  BY <1>1, <1>2, SubSeqProperties
<1>5. /\ b \in Seq(S) /\ Len(b) = Len(s) - i /\ \A k \in 1 .. Len(s) - i : b[k] = s[i + k]
  BY <1>1, <1>3, SubSeqProperties
<1>6. PICK t : t = a \o b OBVIOUS
<1>7. t = RemoveAt(s, i) BY <1>2, <1>3, <1>6 DEF RemoveAt
<1>8. /\ t \in Seq(S) /\ Len(t) = Len(s) - 1
      /\ \A k \in 1 .. i - 1 : t[k] = a[k]
      /\ \A k \in i .. Len(s) - 1 : t[k] = b[k - (i - 1)]
  <2>1. /\ t \in Seq(S) /\ Len(t) = Len(a) + Len(b)
        /\ \A k \in 1 .. Len(a) + Len(b) : t[k] = IF k <= Len(a) THEN a[k] ELSE b[k - Len(a)]
    BY <1>4, <1>5, <1>6, ConcatProperties
  <2>2. Len(a) = i - 1 /\ Len(a) + Len(b) = Len(s) - 1 /\ i \in 1 .. Len(s)
    BY <1>1, <1>4, <1>5
  <2> QED BY <1>1, <2>1, <2>2
<1>9. \A k \in i .. Len(s) - 1 : t[k] = s[k + 1]
  <2> TAKE k \in i .. Len(s) - 1
  <2>1. k - (i - 1) \in 1 .. Len(s) - i /\ i + (k - (i - 1)) = k + 1 BY <1>1
  <2> QED BY <1>5, <1>8, <2>1
<1>11. IsNet(t) BY <1>8, SeqIsNet
<1>12. \A k \in 1 .. Len(t) : t[k] = s[IF k < i THEN k ELSE k + 1]
  BY <1>1, <1>4, <1>8, <1>9
<1> QED BY <1>7, <1>8, <1>11, <1>12

LEMMA ReplaceIs ==
  ASSUME NEW s, IsNet(s), NEW i \in DOMAIN s, NEW m
  PROVE  LET t == [s EXCEPT ![i] = m]
         IN /\ IsNet(t) /\ Len(t) = Len(s) /\ DOMAIN t = DOMAIN s
            /\ \A k \in DOMAIN s : t[k] = IF k = i THEN m ELSE s[k]
<1>1. Len(s) \in Nat /\ DOMAIN s = 1 .. Len(s) /\ s = [k \in DOMAIN s |-> s[k]]
  BY NetLength, LenProperties DEF IsNet
<1> QED BY <1>1, NetIs

\* What outlives a page: positions of requests that are no loads, in some order.
LEMMA SetToSeqIs ==
  ASSUME NEW n \in Nat, NEW S \in SUBSET (1 .. n)
  PROVE  Cardinality(S) \in Nat /\ \A k \in 1 .. Cardinality(S) : SetToSeq(S)[k] \in S
<1>1. IsFiniteSet(1 .. n) BY FS_Interval
<1>2. IsFiniteSet(S) BY <1>1, FS_Subset
<1>3. Cardinality(S) \in Nat /\ ExistsBijection(1 .. Cardinality(S), S)
  BY <1>2, FS_CardinalityType
<1>4. PICK f \in [1 .. Cardinality(S) -> S] : IsInjective(f)
  BY <1>3 DEF ExistsBijection, Bijection, Injection, IsInjective
<1>5. SetToSeq(S) \in [1 .. Cardinality(S) -> S] BY <1>4 DEF SetToSeq
<1> QED BY <1>3, <1>5

Outliving(m, by) == [m EXCEPT !.live = IF @ = "gone" THEN @ ELSE by]

LEMMA OutlivedIs ==
  ASSUME IsNet(net), NEW by
  PROVE  LET t == Outlived(by)
         IN /\ IsNet(t)
            /\ \A k \in 1 .. Len(t) :
                 \E i \in DOMAIN net : net[i].kind \notin Loads /\ t[k] = Outliving(net[i], by)
<1> DEFINE left == {i \in DOMAIN net : /\ net[i].kind \notin Loads
                                       /\ by = "document" \/ net[i].phase # "answered"}
           at(k) == SetToSeq(left)[k]
           t == [k \in 1 .. Cardinality(left) |-> Outliving(net[at(k)], by)]
<1>1. t = Outlived(by) BY DEF Outlived, Outliving
<1>2. left \in SUBSET (1 .. Len(net)) /\ Len(net) \in Nat BY NetLength
<1>3. Cardinality(left) \in Nat /\ \A k \in 1 .. Cardinality(left) : at(k) \in left
  <2> HIDE DEF left
  <2> QED BY <1>2, SetToSeqIs
<1>4. PICK n \in Nat : n = Cardinality(left) BY <1>3
<1>5. IsNet(t) /\ Len(t) = n
  <2>1. DOMAIN t = 1 .. n /\ t = [k \in 1 .. n |-> t[k]] BY <1>4
  <2> HIDE DEF t
  <2> QED BY <2>1, NetIs
<1>6. ASSUME NEW k \in 1 .. Len(t)
      PROVE  \E i \in DOMAIN net : net[i].kind \notin Loads /\ t[k] = Outliving(net[i], by)
  <2>1. k \in 1 .. Cardinality(left) BY <1>4, <1>5, <1>6
  <2>2. at(k) \in left BY <1>3, <2>1
  <2>3. t[k] = Outliving(net[at(k)], by) BY <2>1
  <2> HIDE DEF t, at
  <2> QED BY <2>2, <2>3
<1> HIDE DEF t
<1> QED BY <1>1, <1>5, <1>6

\* A page that is mounted has its load behind it, and no other.
LEMMA MountIs ==
  ASSUME IsNet(net), NEW p, NEW by, net' = Outlived(by) \o FirstRequests(p)
  PROVE  /\ IsNet(net')
         /\ \A k \in DOMAIN net' :
              \/ \E i \in DOMAIN net :
                   net[i].kind \notin Loads /\ net'[k] = Outliving(net[i], by)
              \/ FirstRequests(p) # <<>> /\ k = Len(net') /\ net'[k] = FirstRequests(p)[1]
         /\ FirstRequests(p) # <<>> =>
              Len(net') \in DOMAIN net' /\ net'[Len(net')] = FirstRequests(p)[1]
<1> DEFINE o == Outlived(by)
           f == FirstRequests(p)
<1>1. IsNet(o) /\ \A k \in 1 .. Len(o) :
        \E i \in DOMAIN net : net[i].kind \notin Loads /\ o[k] = Outliving(net[i], by)
  BY OutlivedIs
<1>2. f = <<>> \/ \E m : f = <<m>> BY DEF FirstRequests
<1> HIDE DEF o, f
<1>3. net' = o \o f BY DEF o, f
<1>4. CASE f = <<>>
  <2>1. net' = o BY <1>1, <1>3, <1>4, ConcatEmptySeq DEF IsNet
  <2> QED BY <1>1, <1>4, <2>1, NetLength DEF f
<1>5. ASSUME NEW m, f = <<m>>
      PROVE  /\ IsNet(net') /\ f # <<>> /\ f[1] = m /\ Len(net') = Len(o) + 1
             /\ net'[Len(net')] = m /\ \A k \in 1 .. Len(o) : net'[k] = o[k]
  <2> DEFINE S == {o[k] : k \in DOMAIN o} \cup {m}
  <2>1. o \in Seq(S) /\ f \in Seq(S) /\ Len(f) = 1 /\ f # <<>> /\ f[1] = m /\ Len(o) \in Nat
    <3>1. o \in Seq({o[k] : k \in DOMAIN o}) BY <1>1 DEF IsNet
    <3>2. o \in Seq(S) BY <3>1, SeqMonotonic
    <3> QED BY <1>1, <1>5, <3>2, NetLength
  <2> HIDE DEF S
  <2>2. /\ net' \in Seq(S) /\ Len(net') = Len(o) + 1
        /\ \A k \in 1 .. Len(o) + 1 : net'[k] = IF k <= Len(o) THEN o[k] ELSE f[k - Len(o)]
    <3>1. PICK a : a = o OBVIOUS
    <3>2. PICK b : b = f OBVIOUS
    <3>3. a \in Seq(S) /\ b \in Seq(S) /\ Len(b) = 1 BY <2>1, <3>1, <3>2
    <3>4. PICK c : c = a \o b OBVIOUS
    <3>5. /\ c \in Seq(S) /\ Len(c) = Len(a) + Len(b)
          /\ \A k \in 1 .. Len(a) + Len(b) : c[k] = IF k <= Len(a) THEN a[k] ELSE b[k - Len(a)]
      BY <3>3, <3>4, ConcatProperties
    <3>6. net' = c BY <1>3, <3>1, <3>2, <3>4
    <3>7. Len(a) + Len(b) = Len(a) + 1 BY <3>3
    <3> QED BY <3>1, <3>2, <3>5, <3>6, <3>7
  <2>3. IsNet(net') BY <2>2, SeqIsNet
  <2> QED BY <2>1, <2>2, <2>3
<1>6. CASE f # <<>>
  <2>1. PICK m : f = <<m>> BY <1>2, <1>6
  <2>2. /\ IsNet(net') /\ f[1] = m /\ Len(net') = Len(o) + 1
        /\ net'[Len(net')] = m /\ \A k \in 1 .. Len(o) : net'[k] = o[k]
    BY <1>5, <2>1
  <2>3. Len(o) \in Nat /\ DOMAIN net' = 1 .. Len(o) + 1 BY <1>1, <2>2, NetLength
  <2> QED BY <1>1, <1>6, <2>2, <2>3 DEF f
<1> QED BY <1>4, <1>6 DEF f

(***************************************************************************)
(* What a step does to the invariant, by what it does to the requests      *)
(***************************************************************************)
LEMMA NothingIsNotStale == ~Stale(Nothing)
<1>1. DOMAIN Nothing = {} BY DEF Nothing
<1> QED BY <1>1 DEF Stale

\* A new request has no answer yet.
LEMMA RequestIs ==
  ASSUME NEW kind, NEW ask
  PROVE  LET m == Request(kind, ask)
         IN /\ RequestShape(m) /\ m.kind = kind /\ m.from = page /\ m.ask = ask
            /\ m.phase = "sent" /\ m.who = None /\ m.live = "page" /\ m.answer = NoAnswer
            /\ ~m.late
  BY DEF Request, RequestShape

LEMMA NoAnswerIs ==
  NoAnswer.result = "none" /\ NoAnswer.items = Nothing /\ DOMAIN NoAnswer.items = {}
  BY DEF NoAnswer, Nothing

\* Nothing is done but what had been done, and the screen is as late as before.
Unheard == bookings' = bookings /\ mine' = mine /\ reopened' = reopened /\ page' = page
SameItems(v) ==
  \/ v.items = Nothing
  \/ v.items = view.items /\ v.late = view.late /\ v.error = view.error

LEMMA AppendKeeps ==
  ASSUME ScreenInv, NEW m, RequestOK(m, page), m.answer = NoAnswer, net' = Append(net, m),
         Unheard, ViewOK(view', page), view'.items \in {view.items, Nothing},
         view'.loading => view.loading \/ m.kind \in {"list", "find"},
         m.kind = "list" \/ SameItems(view')
  PROVE  ScreenInv'
<1> DEFINE n == Len(net')
<1>1. /\ IsNet(net') /\ n = Len(net) + 1 /\ n \in DOMAIN net' /\ net'[n] = m
      /\ DOMAIN net = 1 .. Len(net) /\ DOMAIN net' = 1 .. Len(net) + 1 /\ Len(net) \in Nat
      /\ \A i \in DOMAIN net : i \in DOMAIN net' /\ net'[i] = net[i] /\ i < n
  <2>1. IsNet(net) BY DEF ScreenInv, ScreenTypes, NetOK
  <2>2. /\ IsNet(net') /\ n = Len(net) + 1 /\ net'[n] = m
        /\ \A i \in DOMAIN net : net'[i] = net[i]
    BY <2>1, AppendIs
  <2>3. /\ Len(net) \in Nat /\ DOMAIN net = 1 .. Len(net) /\ DOMAIN net' = 1 .. Len(net')
    BY <2>1, <2>2, NetLength
  <2> QED BY <2>2, <2>3
<1> HIDE DEF n
<1>2. \A k \in DOMAIN net' : k = n \/ k \in DOMAIN net BY <1>1
<1>3. ScreenTypes'
  BY <1>1, <1>2 DEF ScreenInv, ScreenTypes, NetOK, BookingsOK, Unheard
<1>4. LoadingHasRequest'
  BY <1>1 DEF ScreenInv, LoadingHasRequest
<1>5. DoneIsDone'
  <2>1. ~DoneBy(m) BY NoAnswerIs DEF DoneBy
  <2> QED BY <1>1, <1>2, <2>1 DEF ScreenInv, DoneIsDone, DoneBy, Unheard
<1>6. \A items : Stale(items)' = Stale(items) BY DEF Stale, Unheard
<1>7. \A q : FreshLoad(q)' = FreshLoad(q) BY <1>6 DEF FreshLoad
<1>8. m.kind = "list" => FreshLoad(m) BY NoAnswerIs DEF FreshLoad
<1>9. StaleIsOvertaken'
  <2>1. ASSUME NEW i \in DOMAIN net', net'[i].kind = "list", ~net'[i].late, ~FreshLoad(net'[i])
        PROVE  \E j \in DOMAIN net' : j > i /\ FreshLoad(net'[j])
    <3>1. i \in DOMAIN net BY <1>1, <1>2, <1>8, <2>1
    <3>2. PICK j \in DOMAIN net : j > i /\ FreshLoad(net[j])
      BY <1>1, <2>1, <3>1 DEF ScreenInv, StaleIsOvertaken
    <3> QED BY <1>1, <3>2
  <2>2. ASSUME Stale(view'.items)
        PROVE  view'.late \/ view'.error \/ \E j \in DOMAIN net' : FreshLoad(net'[j])
    <3>1. CASE m.kind = "list" BY <1>1, <1>8, <3>1
    <3>2. CASE SameItems(view')
      <4>1. view'.items = view.items /\ view'.late = view.late /\ view'.error = view.error
        BY <2>2, <3>2, NothingIsNotStale DEF SameItems
      <4> QED BY <1>1, <2>2, <4>1 DEF ScreenInv, StaleIsOvertaken
    <3> QED BY <3>1, <3>2
  <2> QED BY <1>6, <1>7, <2>1, <2>2 DEF StaleIsOvertaken
<1> QED BY <1>3, <1>4, <1>5, <1>9 DEF ScreenInv

\* Only the view changes.
LEMMA ViewKeeps ==
  ASSUME ScreenInv, net' = net, Unheard, ViewOK(view', page), SameItems(view'),
         view'.loading => view.loading
  PROVE  ScreenInv'
<1>1. ScreenTypes' BY DEF ScreenInv, ScreenTypes, NetOK, BookingsOK, Unheard
<1>2. LoadingHasRequest' BY DEF ScreenInv, LoadingHasRequest
<1>3. DoneIsDone' BY DEF ScreenInv, DoneIsDone, DoneBy, Unheard
<1>4. \A items : Stale(items)' = Stale(items) BY DEF Stale, Unheard
<1>5. \A q : FreshLoad(q)' = FreshLoad(q) BY <1>4 DEF FreshLoad
<1>6. StaleIsOvertaken'
  BY <1>4, <1>5, NothingIsNotStale DEF ScreenInv, StaleIsOvertaken, SameItems
<1> QED BY <1>1, <1>2, <1>3, <1>6 DEF ScreenInv

\* The API answers request i, or lets it in.
LEMMA ReplyKeeps ==
  ASSUME ScreenInv, NEW i \in DOMAIN net, NEW m, RequestOK(m, page), net' = [net EXCEPT ![i] = m],
         m.kind = net[i].kind, m.ask = net[i].ask, m.late = net[i].late,
         mine' = mine, reopened' = reopened, page' = page, view' = view, BookingsOK',
         \A b \in Bookings : bookings[b].status \notin Active => bookings'[b].status \notin Active,
         DoneBy(m) => bookings'[m.ask.id].status \notin Active \/ DoneBy(net[i]),
         m.kind = "list" => FreshLoad(m)
  PROVE  ScreenInv'
<1>1. /\ IsNet(net') /\ DOMAIN net' = DOMAIN net /\ DOMAIN net = 1 .. Len(net) /\ Len(net) \in Nat
      /\ \A k \in DOMAIN net : net'[k] = IF k = i THEN m ELSE net[k]
  BY ReplaceIs, NetLength DEF ScreenInv, ScreenTypes, NetOK
<1>2. ScreenTypes' BY <1>1 DEF ScreenInv, ScreenTypes, NetOK
<1>3. LoadingHasRequest' BY <1>1 DEF ScreenInv, LoadingHasRequest
<1>4. DoneIsDone'
  <2> SUFFICES ASSUME NEW b \in Bookings \ reopened,
                      b \in mine \/ \E k \in DOMAIN net : DoneBy(net'[k]) /\ net'[k].ask.id = b
               PROVE  bookings'[b].status \notin Active
    BY <1>1 DEF DoneIsDone, DoneBy
  <2>1. CASE b \in mine BY <2>1 DEF ScreenInv, DoneIsDone
  <2>2. ASSUME NEW k \in DOMAIN net, DoneBy(net'[k]), net'[k].ask.id = b
        PROVE  bookings'[b].status \notin Active
    <3>1. bookings'[b].status \notin Active \/ (DoneBy(net[k]) /\ net[k].ask.id = b)
      BY <1>1, <2>2
    <3> QED BY <3>1 DEF ScreenInv, DoneIsDone
  <2> QED BY <2>1, <2>2
<1>5. \A items : Stale(items)' = Stale(items) BY DEF Stale
<1>6. \A q : FreshLoad(q)' = FreshLoad(q) BY <1>5 DEF FreshLoad
<1>7. \A k \in DOMAIN net : /\ net'[k].kind = net[k].kind /\ net'[k].late = net[k].late
                            /\ FreshLoad(net[k]) => FreshLoad(net'[k])
  BY <1>1 DEF FreshLoad
<1>8. StaleIsOvertaken'
  BY <1>1, <1>5, <1>6, <1>7 DEF ScreenInv, StaleIsOvertaken
<1> QED BY <1>2, <1>3, <1>4, <1>8 DEF ScreenInv

\* Where the k-th of the remaining requests was before the i-th was taken out.
Before(k, i) == IF k < i THEN k ELSE k + 1

LEMMA RemovedNet ==
  ASSUME NetOK, NEW s, IsNet(s), DOMAIN s = DOMAIN net, NEW i \in DOMAIN s
  PROVE  LET t == RemoveAt(s, i)
         IN /\ IsNet(t) /\ DOMAIN t = 1 .. Len(t) /\ Len(t) \in Nat
            /\ \A k \in DOMAIN t : Before(k, i) \in DOMAIN s \ {i} /\ t[k] = s[Before(k, i)]
            /\ \A j \in DOMAIN s \ {i} : \E k \in DOMAIN t : Before(k, i) = j
            /\ \A k, l \in DOMAIN t : Before(k, i) < Before(l, i) => k < l
<1> DEFINE t == RemoveAt(s, i)
<1>1. /\ IsNet(t) /\ Len(t) = Len(s) - 1
      /\ \A k \in 1 .. Len(t) : t[k] = s[Before(k, i)]
  BY RemoveIs DEF Before
<1>2. DOMAIN t = 1 .. Len(t) /\ Len(t) \in Nat /\ DOMAIN s = 1 .. Len(s) /\ Len(s) \in Nat
  BY <1>1, NetLength
<1> HIDE DEF t
<1>3. ASSUME NEW j \in DOMAIN s \ {i}
      PROVE  \E k \in DOMAIN t : Before(k, i) = j
  <2>1. CASE j < i BY <1>1, <1>2, <2>1 DEF Before
  <2>2. CASE j > i
    <3>1. j - 1 \in DOMAIN t /\ ~(j - 1 < i) /\ (j - 1) + 1 = j BY <1>1, <1>2, <2>2
    <3> QED BY <3>1 DEF Before
  <2> QED BY <1>2, <2>1, <2>2
<1> QED BY <1>1, <1>2, <1>3 DEF t, Before

\* A request is done with that no list is waited for from.
LEMMA RemoveKeeps ==
  ASSUME ScreenInv, NEW i \in DOMAIN net, net[i].kind \notin {"list", "find"},
         net' = RemoveAt(net, i), Unheard, ViewOK(view', page), SameItems(view'),
         view'.loading => view.loading
  PROVE  ScreenInv'
<1>1. /\ IsNet(net')
      /\ \A k \in DOMAIN net' : k \in Nat /\ Before(k, i) \in DOMAIN net \ {i} /\ net'[k] = net[Before(k, i)]
      /\ \A j \in DOMAIN net \ {i} : \E k \in DOMAIN net' : Before(k, i) = j
      /\ \A k, l \in DOMAIN net' : Before(l, i) > Before(k, i) => l > k
  <2>1. NetOK /\ IsNet(net) BY DEF ScreenInv, ScreenTypes, NetOK
  <2>2. PICK t : t = RemoveAt(net, i) OBVIOUS
  <2>3. /\ IsNet(t) /\ DOMAIN t = 1 .. Len(t) /\ Len(t) \in Nat
        /\ \A k \in DOMAIN t : Before(k, i) \in DOMAIN net \ {i} /\ t[k] = net[Before(k, i)]
        /\ \A j \in DOMAIN net \ {i} : \E k \in DOMAIN t : Before(k, i) = j
        /\ \A k, l \in DOMAIN t : Before(k, i) < Before(l, i) => k < l
    BY <2>1, <2>2, RemovedNet
  <2>4. net' = t BY <2>2
  <2> QED BY <2>1, <2>3, <2>4, NetLength
<1>2. ScreenTypes' BY <1>1 DEF ScreenInv, ScreenTypes, NetOK, BookingsOK, Unheard
<1>3. LoadingHasRequest'
  <2> SUFFICES ASSUME view'.loading
               PROVE  \E k \in DOMAIN net' : net'[k].kind \in {"list", "find"}
    BY DEF LoadingHasRequest
  <2>1. PICK j \in DOMAIN net : net[j].kind \in {"list", "find"}
    BY DEF ScreenInv, LoadingHasRequest
  <2> QED BY <1>1, <2>1
<1>4. DoneIsDone' BY <1>1 DEF ScreenInv, DoneIsDone, DoneBy, Unheard
<1>5. \A items : Stale(items)' = Stale(items) BY DEF Stale, Unheard
<1>6. \A q : FreshLoad(q)' = FreshLoad(q) BY <1>5 DEF FreshLoad
<1>7. ASSUME NEW j \in DOMAIN net, FreshLoad(net[j])
      PROVE  \E k \in DOMAIN net' : Before(k, i) = j /\ FreshLoad(net'[k])
  <2>1. j # i BY <1>7 DEF FreshLoad
  <2> QED BY <1>1, <1>7, <2>1
<1>8. StaleIsOvertaken'
  <2>1. ASSUME NEW k \in DOMAIN net', net'[k].kind = "list", ~net'[k].late, ~FreshLoad(net'[k])
        PROVE  \E l \in DOMAIN net' : l > k /\ FreshLoad(net'[l])
    <3>1. PICK j \in DOMAIN net : j > Before(k, i) /\ FreshLoad(net[j])
      BY <1>1, <2>1 DEF ScreenInv, StaleIsOvertaken
    <3>2. PICK l \in DOMAIN net' : Before(l, i) = j /\ FreshLoad(net'[l]) BY <1>7, <3>1
    <3> QED BY <1>1, <3>1, <3>2
  <2>2. ASSUME Stale(view'.items)
        PROVE  view'.late \/ view'.error \/ \E l \in DOMAIN net' : FreshLoad(net'[l])
    <3>1. view'.items = view.items /\ view'.late = view.late /\ view'.error = view.error
      BY <2>2, NothingIsNotStale DEF SameItems
    <3>2. view.late \/ view.error \/ \E j \in DOMAIN net : FreshLoad(net[j])
      BY <2>2, <3>1 DEF ScreenInv, StaleIsOvertaken
    <3> QED BY <1>7, <3>1, <3>2
  <2> QED BY <1>5, <1>6, <2>1, <2>2 DEF StaleIsOvertaken
<1> QED BY <1>2, <1>3, <1>4, <1>8 DEF ScreenInv

\* A load's answer replaces the list, and the loads before it are late.
LEMMA LoadKeeps ==
  ASSUME ScreenInv, NEW i \in DOMAIN net, net[i].kind \in {"list", "find"},
         view' = Loaded(view, net[i]), net' = RemoveAt(Overtaken(i), i), Unheard
  PROVE  ScreenInv'
<1> DEFINE s == Overtaken(i)
           m == net[i]
           over(j) == j < i /\ net[j].kind = m.kind
<1>1. NetOK /\ IsNet(net) /\ DOMAIN net = 1 .. Len(net) /\ Len(net) \in Nat
  BY NetLength DEF ScreenInv, ScreenTypes, NetOK
<1>2. /\ DOMAIN s = DOMAIN net
      /\ \A j \in DOMAIN net : s[j] = IF over(j) THEN [net[j] EXCEPT !.late = TRUE] ELSE net[j]
  BY DEF Overtaken
<1>3. IsNet(s)
  <2>1. PICK n \in Nat : n = Len(net) BY <1>1
  <2>2. s = [j \in 1 .. n |-> s[j]] /\ DOMAIN s = 1 .. n BY <1>1, <2>1 DEF Overtaken
  <2> QED BY <2>2, NetIs
<1>4. \A j \in DOMAIN net :
        /\ RequestOK(s[j], page) /\ s[j].kind = net[j].kind /\ s[j].answer = net[j].answer
        /\ s[j].ask = net[j].ask
        /\ s[j].late = IF over(j) THEN TRUE ELSE net[j].late
  <2> TAKE j \in DOMAIN net
  <2>1. RequestOK(net[j], page) BY <1>1 DEF NetOK
  <2>2. CASE ~over(j) BY <1>2, <2>1, <2>2
  <2>3. CASE over(j)
    <3>1. PICK q : q = net[j] OBVIOUS
    <3>2. q = [kind |-> q.kind, from |-> q.from, ask |-> q.ask, cookie |-> q.cookie,
               phase |-> q.phase, who |-> q.who, live |-> q.live, late |-> q.late,
               answer |-> q.answer]
      BY <2>1, <3>1 DEF RequestOK, RequestShape
    <3>3. s[j] = [q EXCEPT !.late = TRUE] BY <1>2, <2>3, <3>1
    <3>4. s[j] = [kind |-> q.kind, from |-> q.from, ask |-> q.ask, cookie |-> q.cookie,
                  phase |-> q.phase, who |-> q.who, live |-> q.live, late |-> TRUE,
                  answer |-> q.answer]
      BY <3>2, <3>3
    <3> HIDE DEF s
    <3> QED BY <2>1, <2>3, <3>1, <3>4 DEF RequestOK, RequestShape, SentFrom, AskOK, AnswerOK
  <2> QED BY <2>2, <2>3
<1>5. /\ IsNet(net')
      /\ \A k \in DOMAIN net' : k \in Nat /\ Before(k, i) \in DOMAIN net \ {i} /\ net'[k] = s[Before(k, i)]
      /\ \A j \in DOMAIN net \ {i} : \E k \in DOMAIN net' : Before(k, i) = j
      /\ \A k, l \in DOMAIN net' : Before(l, i) > Before(k, i) => l > k
  <2>1. PICK r : r = s OBVIOUS
  <2>2. PICK t : t = RemoveAt(r, i) OBVIOUS
  <2>3. net' = t BY <2>1, <2>2
  <2> HIDE DEF s
  <2>4. IsNet(r) /\ DOMAIN r = DOMAIN net /\ i \in DOMAIN r BY <1>2, <1>3, <2>1
  <2>5. /\ IsNet(t) /\ DOMAIN t = 1 .. Len(t) /\ Len(t) \in Nat
        /\ \A k \in DOMAIN t : Before(k, i) \in DOMAIN r \ {i} /\ t[k] = r[Before(k, i)]
        /\ \A j \in DOMAIN r \ {i} : \E k \in DOMAIN t : Before(k, i) = j
        /\ \A k, l \in DOMAIN t : Before(k, i) < Before(l, i) => k < l
    BY <1>1, <2>2, <2>4, RemovedNet
  <2> QED BY <2>1, <2>3, <2>4, <2>5
<1> HIDE DEF s
<1>6. /\ view'.loading = FALSE /\ view'.late = m.late
      /\ view'.error = (view.error \/ m.answer.result # "ok")
      /\ view'.items = IF m.answer.result = "ok" THEN m.answer.items
                       ELSE IF m.kind = "find" THEN Nothing ELSE view.items
      /\ ViewOK(view', page)
  <2>1. RequestOK(m, page) BY <1>1 DEF NetOK
  <2>2. ViewOK(view, page) BY DEF ScreenInv, ScreenTypes
  <2>3. /\ DOMAIN m.answer.items \subseteq ItemsOf(page)
        /\ page = "search" => m.answer.items = Nothing
    BY <2>1 DEF RequestOK, SentFrom, AnswerOK, Loads, Lists
  <2>4. view' = [loading |-> FALSE, error |-> view.error \/ m.answer.result # "ok",
                 items |-> IF m.answer.result = "ok" THEN m.answer.items
                           ELSE IF m.kind = "find" THEN Nothing ELSE view.items,
                 search |-> view.search, filter |-> view.filter, drawer |-> view.drawer,
                 note |-> view.note, timer |-> view.timer, slug |-> view.slug,
                 notice |-> view.notice, late |-> m.late]
    BY <2>2 DEF ViewOK, Loaded
  <2>5. DOMAIN Nothing = {} BY DEF Nothing
  <2> HIDE DEF m
  <2> QED BY <2>2, <2>3, <2>4, <2>5 DEF ViewOK
<1>7. ScreenTypes' BY <1>4, <1>5, <1>6 DEF ScreenInv, ScreenTypes, NetOK, BookingsOK, Unheard
<1>8. LoadingHasRequest' BY <1>6 DEF LoadingHasRequest
<1>9. DoneIsDone'
  <2>1. ASSUME NEW k \in DOMAIN net', DoneBy(net'[k])
        PROVE  \E j \in DOMAIN net : DoneBy(net[j]) /\ net[j].ask = net'[k].ask
    <3>1. PICK j \in DOMAIN net : j = Before(k, i) BY <1>5
    <3>2. net'[k] = s[j] BY <1>5, <3>1
    <3>3. s[j].kind = net[j].kind /\ s[j].answer = net[j].answer /\ s[j].ask = net[j].ask
      BY <1>4
    <3> QED BY <2>1, <3>2, <3>3 DEF DoneBy
  <2>2. SUFFICES ASSUME NEW b \in Bookings \ reopened,
                        b \in mine \/ \E k \in DOMAIN net' : DoneBy(net'[k]) /\ net'[k].ask.id = b
                 PROVE  bookings[b].status \notin Active
    BY DEF DoneIsDone, DoneBy, Unheard
  <2>3. b \in mine \/ \E j \in DOMAIN net : DoneBy(net[j]) /\ net[j].ask.id = b BY <2>1, <2>2
  <2> QED BY <2>3 DEF ScreenInv, DoneIsDone
<1>10. \A items : Stale(items)' = Stale(items) BY DEF Stale, Unheard
<1>11. \A q : FreshLoad(q)' = FreshLoad(q) BY <1>10 DEF FreshLoad
<1>12. \A j \in DOMAIN net : FreshLoad(s[j]) = FreshLoad(net[j]) BY <1>4 DEF FreshLoad
<1>13. ASSUME NEW j \in DOMAIN net \ {i}, FreshLoad(net[j])
       PROVE  \E k \in DOMAIN net' : Before(k, i) = j /\ FreshLoad(net'[k])
  BY <1>5, <1>12, <1>13
<1>14. ASSUME NEW k \in DOMAIN net', net'[k].kind = "list", ~net'[k].late, ~FreshLoad(net'[k])
       PROVE  \E l \in DOMAIN net' : l > k /\ FreshLoad(net'[l])
  <2>1. PICK h \in DOMAIN net \ {i} : h = Before(k, i) BY <1>5
  <2>2. /\ net'[k] = s[h] /\ net[h].kind = "list" /\ ~over(h) /\ ~net[h].late
        /\ ~FreshLoad(net[h])
    BY <1>4, <1>5, <1>12, <1>14, <2>1
  <2>3. PICK j \in DOMAIN net : j > h /\ FreshLoad(net[j])
    BY <2>2 DEF ScreenInv, StaleIsOvertaken
  <2>4. j # i
    <3>1. SUFFICES ASSUME j = i PROVE FALSE OBVIOUS
    <3>2. m.kind = "list" BY <2>3, <3>1 DEF FreshLoad
    <3> QED BY <2>2, <2>3, <3>1, <3>2
  <2>5. PICK l \in DOMAIN net' : Before(l, i) = j /\ FreshLoad(net'[l]) BY <1>13, <2>3, <2>4
  <2> QED BY <1>5, <2>1, <2>3, <2>5
<1>15. ASSUME Stale(view'.items)
       PROVE  view'.late \/ view'.error \/ \E l \in DOMAIN net' : FreshLoad(net'[l])
  <2>1. CASE m.answer.result # "ok" BY <1>6, <2>1
  <2>2. CASE m.answer.result = "ok" /\ ~m.late
    <3>1. Stale(m.answer.items) BY <1>6, <1>15, <2>2
    <3>2. m.kind = "list"
      <4>1. RequestOK(m, page) BY <1>1 DEF NetOK
      <4> QED BY <3>1, <4>1, NothingIsNotStale DEF RequestOK, AnswerOK
    <3>3. ~FreshLoad(m) BY <2>2, <3>1 DEF FreshLoad
    <3>4. PICK j \in DOMAIN net : j > i /\ FreshLoad(net[j])
      BY <2>2, <3>2, <3>3 DEF ScreenInv, StaleIsOvertaken
    <3>5. j # i BY <1>1, <3>4
    <3> QED BY <1>13, <3>4, <3>5
  <2> QED BY <1>6, <2>1, <2>2
<1>16. StaleIsOvertaken' BY <1>10, <1>11, <1>14, <1>15 DEF StaleIsOvertaken
<1> QED BY <1>7, <1>8, <1>9, <1>16 DEF ScreenInv

\* The requests that outlive a page are those of an older page from now on.
LEMMA OutlivingIs ==
  ASSUME NEW m, NEW p, NEW q, NEW by \in {"document", "gone"}, RequestOK(m, p),
         m.kind \notin Loads
  PROVE  LET o == Outliving(m, by)
         IN /\ RequestOK(o, q) /\ o.kind = m.kind /\ o.ask = m.ask /\ o.answer = m.answer
            /\ DoneBy(o) = DoneBy(m)
<1> DEFINE live == IF m.live = "gone" THEN m.live ELSE by
<1>1. m = [kind |-> m.kind, from |-> m.from, ask |-> m.ask, cookie |-> m.cookie,
           phase |-> m.phase, who |-> m.who, live |-> m.live, late |-> m.late,
           answer |-> m.answer]
  BY DEF RequestOK, RequestShape
<1>2. PICK o : o = Outliving(m, by) OBVIOUS
<1>3. o = [m EXCEPT !.live = live] BY <1>2 DEF Outliving
<1>4. live \in {"document", "gone"} OBVIOUS
<1> HIDE DEF live
<1>5. o = [kind |-> m.kind, from |-> m.from, ask |-> m.ask, cookie |-> m.cookie,
           phase |-> m.phase, who |-> m.who, live |-> live, late |-> m.late,
           answer |-> m.answer]
  BY <1>1, <1>3
<1>6. /\ o.kind = m.kind /\ o.from = m.from /\ o.ask = m.ask /\ o.answer = m.answer
      /\ o.live = live /\ o.phase = m.phase /\ o.who = m.who /\ RequestShape(o)
  BY <1>5 DEF RequestShape
<1>7. m.kind # "list" BY DEF Loads
<1> QED BY <1>2, <1>4, <1>6, <1>7 DEF RequestOK, SentFrom, AskOK, AnswerOK, DoneBy

LEMMA FirstIs ==
  ASSUME NEW p \in Pages
  PROVE  /\ p \in Lists => FirstRequests(p) # <<>>
         /\ FirstRequests(p) # <<>> =>
              LET m == FirstRequests(p)[1]
              IN /\ RequestOK(m, p) /\ m.answer = NoAnswer /\ ~m.late
                 /\ m.kind \in {"list", "profile"} /\ (p \in Lists <=> m.kind = "list")
<1>1. ASSUME NEW kind \in {"list", "profile"}, NEW ask, kind = "list" <=> p \in Lists
      PROVE  LET m == [Request(kind, ask) EXCEPT !.from = p]
             IN RequestOK(m, p) /\ m.answer = NoAnswer /\ ~m.late /\ m.kind = kind
  <2>1. PICK r : r = Request(kind, ask) OBVIOUS
  <2>2. /\ RequestShape(r) /\ r.kind = kind /\ r.phase = "sent" /\ r.who = None
        /\ r.live = "page" /\ r.answer = NoAnswer /\ ~r.late
    BY <2>1, RequestIs
  <2>3. PICK m : m = [r EXCEPT !.from = p] OBVIOUS
  <2>4. m = [kind |-> r.kind, from |-> p, ask |-> r.ask, cookie |-> r.cookie,
             phase |-> r.phase, who |-> r.who, live |-> r.live, late |-> r.late,
             answer |-> r.answer]
    BY <2>2, <2>3 DEF RequestShape
  <2>5. /\ RequestShape(m) /\ m.kind = kind /\ m.from = p /\ m.phase = "sent" /\ m.who = None
        /\ m.live = "page" /\ m.answer = NoAnswer /\ ~m.late
    BY <2>2, <2>4 DEF RequestShape
  <2>6. SentFrom(m, p) BY <1>1, <2>5 DEF SentFrom, Kinds
  <2>7. AskOK(m) BY <2>5 DEF AskOK
  <2>8. AnswerOK(m) BY <2>5, NoAnswerIs DEF AnswerOK, Results
  <2> QED BY <2>1, <2>3, <2>5, <2>6, <2>7, <2>8 DEF RequestOK
<1>2. CASE p \in Lists
  <2>1. PICK m : m = [Request("list", Listing(None, "all")) EXCEPT !.from = p] OBVIOUS
  <2>2. FirstRequests(p) = <<m>> BY <1>2, <2>1 DEF FirstRequests
  <2>3. RequestOK(m, p) /\ m.answer = NoAnswer /\ ~m.late /\ m.kind = "list" BY <1>1, <1>2, <2>1
  <2> QED BY <1>2, <2>2, <2>3
<1>3. CASE p = "availability"
  <2>1. PICK m : m = [Request("profile", None) EXCEPT !.from = p] OBVIOUS
  <2>2. FirstRequests(p) = <<m>> /\ p \notin Lists BY <1>3, <2>1 DEF FirstRequests, Lists
  <2>3. RequestOK(m, p) /\ m.answer = NoAnswer /\ ~m.late /\ m.kind = "profile"
    BY <1>1, <2>1, <2>2
  <2> QED BY <2>2, <2>3
<1>4. CASE p \notin Lists /\ p # "availability"
  BY <1>4 DEF FirstRequests
<1> QED BY <1>2, <1>3, <1>4

LEMMA FreshViewIs ==
  ASSUME NEW p \in Pages
  PROVE  LET v == FreshView(p)
         IN /\ ViewOK(v, p) /\ v.items = Nothing /\ v.loading = (p \in Lists)
<1>1. DOMAIN Nothing = {} BY DEF Nothing
<1> QED BY <1>1 DEF FreshView, ViewOK, Notices

\* A page is left for another one, or loaded again.
LEMMA MountKeeps ==
  ASSUME ScreenInv, NEW p \in Pages, NEW by \in {"document", "gone"}, Mount(p, by),
         bookings' = bookings, reopened' = reopened, mine' \subseteq Bookings,
         \A b \in mine' \ mine : \E i \in DOMAIN net : DoneBy(net[i]) /\ net[i].ask.id = b
  PROVE  ScreenInv'
<1> DEFINE first == FirstRequests(p)[1]
<1>1. /\ IsNet(net) /\ page' = p /\ view' = FreshView(p)
      /\ net' = Outlived(by) \o FirstRequests(p)
  BY DEF ScreenInv, ScreenTypes, NetOK, Mount
<1>2. /\ IsNet(net')
      /\ \A k \in DOMAIN net' :
           \/ \E i \in DOMAIN net :
                net[i].kind \notin Loads /\ net'[k] = Outliving(net[i], by)
           \/ FirstRequests(p) # <<>> /\ k = Len(net') /\ net'[k] = first
      /\ FirstRequests(p) # <<>> =>
           Len(net') \in DOMAIN net' /\ net'[Len(net')] = first
  BY <1>1, MountIs
<1>3. /\ p \in Lists => FirstRequests(p) # <<>>
      /\ FirstRequests(p) # <<>> =>
           /\ RequestOK(first, p) /\ first.answer = NoAnswer /\ ~first.late
           /\ first.kind \in {"list", "profile"} /\ (p \in Lists <=> first.kind = "list")
  BY FirstIs
<1>4. /\ ViewOK(view', p) /\ view'.items = Nothing /\ view'.loading = (p \in Lists)
  BY <1>1, FreshViewIs
<1> HIDE DEF first
<1>5. \A i \in DOMAIN net : net[i].kind \notin Loads =>
        LET o == Outliving(net[i], by)
        IN /\ RequestOK(o, p) /\ o.kind = net[i].kind /\ o.ask = net[i].ask
           /\ DoneBy(o) = DoneBy(net[i])
  BY OutlivingIs DEF ScreenInv, ScreenTypes, NetOK
<1>6. ScreenTypes'
  <2>1. \A k \in DOMAIN net' : RequestOK(net'[k], p) BY <1>2, <1>3, <1>5
  <2> QED BY <1>1, <1>2, <1>4, <2>1 DEF ScreenInv, ScreenTypes, NetOK, BookingsOK
<1>7. LoadingHasRequest' BY <1>2, <1>3, <1>4 DEF LoadingHasRequest
<1>8. DoneIsDone'
  <2>1. ~DoneBy(first) \/ FirstRequests(p) = <<>> BY <1>3, NoAnswerIs DEF DoneBy
  <2>2. ASSUME NEW k \in DOMAIN net', DoneBy(net'[k])
        PROVE  \E i \in DOMAIN net : DoneBy(net[i]) /\ net[i].ask.id = net'[k].ask.id
    BY <1>2, <1>5, <2>1, <2>2
  <2>3. SUFFICES ASSUME NEW b \in Bookings \ reopened,
                        b \in mine' \/ \E k \in DOMAIN net' : DoneBy(net'[k]) /\ net'[k].ask.id = b
                 PROVE  bookings[b].status \notin Active
    BY DEF DoneIsDone, DoneBy
  <2>4. b \in mine \/ \E i \in DOMAIN net : DoneBy(net[i]) /\ net[i].ask.id = b
    BY <2>2, <2>3
  <2> QED BY <2>4 DEF ScreenInv, DoneIsDone
<1>9. DOMAIN view'.items = {} BY <1>4 DEF Nothing
<1>10. \A k \in DOMAIN net' : net'[k].kind = "list" => net'[k].answer.result # "ok"
  <2> TAKE k \in DOMAIN net'
  <2>1. HAVE net'[k].kind = "list"
  <2>2. net'[k] = first /\ FirstRequests(p) # <<>> BY <1>2, <1>5, <2>1 DEF Loads
  <2> QED BY <1>3, <2>1, <2>2, NoAnswerIs
<1>11. StaleIsOvertaken'
  <2>1. \A items : DOMAIN items = {} => ~Stale(items)' BY DEF Stale
  <2>2. \A q : q.kind = "list" /\ q.answer.result # "ok" => FreshLoad(q)' BY DEF FreshLoad
  <2> QED BY <1>9, <1>10, <2>1, <2>2 DEF StaleIsOvertaken
<1> QED BY <1>6, <1>7, <1>8, <1>11 DEF ScreenInv

\* The list is fetched again: the new request is fresh, and it is the last.
LEMMA RefreshKeeps ==
  ASSUME ScreenInv, NEW i \in DOMAIN net, net[i].kind = "act", page \in Lists,
         Refreshed(RemoveAt(net, i), net[i]), mine' = Claimed(net[i]),
         bookings' = bookings, reopened' = reopened, page' = page
  PROVE  ScreenInv'
<1> DEFINE rest == RemoveAt(net, i)
           new == Request("list", Listing(net[i].ask.search, net[i].ask.filter))
           n == Len(net')
<1>1. NetOK /\ IsNet(net) BY DEF ScreenInv, ScreenTypes, NetOK
<1>2. /\ IsNet(rest) /\ DOMAIN rest = 1 .. Len(rest) /\ Len(rest) \in Nat
      /\ \A k \in DOMAIN rest : Before(k, i) \in DOMAIN net \ {i} /\ rest[k] = net[Before(k, i)]
  <2>1. PICK s : s = net OBVIOUS
  <2>2. PICK t : t = RemoveAt(s, i) OBVIOUS
  <2>3. /\ IsNet(t) /\ DOMAIN t = 1 .. Len(t) /\ Len(t) \in Nat
        /\ \A k \in DOMAIN t : Before(k, i) \in DOMAIN s \ {i} /\ t[k] = s[Before(k, i)]
    BY <1>1, <2>1, <2>2, RemovedNet
  <2> QED BY <2>1, <2>2, <2>3
<1>3. view' = Fetching(Closed(view)) /\ net' = Append(rest, new) BY DEF Refreshed
<1>4. RequestOK(new, page) /\ new.kind = "list" /\ new.answer = NoAnswer
  <2>1. PICK m : m = new OBVIOUS
  <2>2. /\ RequestShape(m) /\ m.kind = "list" /\ m.from = page
        /\ m.phase = "sent" /\ m.who = None /\ m.live = "page" /\ m.answer = NoAnswer
    BY <2>1, RequestIs
  <2> QED BY <2>1, <2>2, NoAnswerIs
      DEF RequestOK, SentFrom, Kinds, AskOK, AnswerOK, Results
<1> HIDE DEF rest, new
<1>5. /\ IsNet(net') /\ n = Len(rest) + 1 /\ net'[n] = new
      /\ \A k \in DOMAIN rest : net'[k] = rest[k]
  BY <1>2, <1>3, AppendIs
<1>6. DOMAIN net' = 1 .. n /\ n \in Nat BY <1>5, NetLength
<1> HIDE DEF n
<1>7. \A k \in DOMAIN net' :
        \/ k = n
        \/ k < n /\ Before(k, i) \in DOMAIN net /\ net'[k] = net[Before(k, i)]
  BY <1>2, <1>5, <1>6
<1>8. n \in DOMAIN net' BY <1>2, <1>5, <1>6
<1>9. page \in Lists /\ view'.loading = TRUE /\ view'.items = view.items /\ ViewOK(view', page)
  <2>1. ViewOK(view, page) BY DEF ScreenInv, ScreenTypes
  <2>2. view' = [loading |-> TRUE, error |-> FALSE, items |-> view.items,
                 search |-> view.search, filter |-> view.filter, drawer |-> None,
                 note |-> view.note, timer |-> view.timer, slug |-> view.slug,
                 notice |-> view.notice, late |-> view.late]
    BY <1>3, <2>1 DEF ViewOK, Fetching, Closed
  <2> QED BY <2>1, <2>2 DEF ViewOK
<1>10. mine' \subseteq Bookings
  BY DEF Claimed, ScreenInv, ScreenTypes, NetOK, RequestOK, AskOK
<1>11. ScreenTypes'
  <2>1. \A k \in DOMAIN net' : RequestOK(net'[k], page) BY <1>1, <1>4, <1>5, <1>7 DEF NetOK
  <2> QED BY <1>5, <1>9, <1>10, <2>1 DEF ScreenInv, ScreenTypes, NetOK, BookingsOK
<1>12. LoadingHasRequest' BY <1>4, <1>5, <1>8 DEF LoadingHasRequest
<1>13. DoneIsDone'
  <2>1. ~DoneBy(new) BY <1>4, NoAnswerIs DEF DoneBy
  <2>2. ASSUME NEW k \in DOMAIN net', DoneBy(net'[k])
        PROVE  \E j \in DOMAIN net : DoneBy(net[j]) /\ net[j].ask.id = net'[k].ask.id
    BY <1>5, <1>7, <2>1, <2>2
  <2>3. \A b \in mine' \ mine : DoneBy(net[i]) /\ net[i].ask.id = b BY DEF Claimed, DoneBy
  <2>4. SUFFICES ASSUME NEW b \in Bookings \ reopened,
                        b \in mine' \/ \E k \in DOMAIN net' : DoneBy(net'[k]) /\ net'[k].ask.id = b
                 PROVE  bookings[b].status \notin Active
    BY DEF DoneIsDone, DoneBy
  <2>5. b \in mine \/ \E j \in DOMAIN net : DoneBy(net[j]) /\ net[j].ask.id = b
    BY <2>2, <2>3, <2>4
  <2> QED BY <2>5 DEF ScreenInv, DoneIsDone
<1>14. StaleIsOvertaken'
  <2>1. \A q : q.kind = "list" /\ q.answer.result # "ok" => FreshLoad(q)' BY DEF FreshLoad
  <2>2. net'[n].kind = "list" /\ net'[n].answer.result # "ok" BY <1>4, <1>5, NoAnswerIs
  <2> QED BY <1>7, <1>8, <2>1, <2>2 DEF StaleIsOvertaken
<1> QED BY <1>11, <1>12, <1>13, <1>14 DEF ScreenInv

\* Somebody else changes a booking.
LEMMA ElsewhereKeeps ==
  ASSUME ScreenInv, NEW b \in Bookings, NEW status \in Changes, Elsewhere(b, status)
  PROVE  ScreenInv'
<1> DEFINE row == [status |-> status, version |-> bookings[b].version + 1]
<1>1. /\ bookings' = [bookings EXCEPT ![b] = row]
      /\ page' = page /\ view' = view /\ net' = net /\ mine' = mine
      /\ reopened \subseteq reopened' /\ (b \in reopened' \/ status \notin Active)
  <2>1. Changes \subseteq {"booked", "completed", "cancelled"} BY ConsoleAssumption
  <2> QED BY <2>1 DEF Elsewhere, screen, Active
<1>2. \A c \in Bookings : bookings'[c] = IF c = b THEN row ELSE bookings[c]
  BY <1>1 DEF ScreenInv, ScreenTypes, BookingsOK
<1>3. BookingsOK'
  <2>1. bookings' = [c \in Bookings |-> bookings'[c]]
    BY <1>1 DEF ScreenInv, ScreenTypes, BookingsOK
  <2>2. ASSUME NEW c \in Bookings
        PROVE  /\ bookings'[c] = [status |-> bookings'[c].status, version |-> bookings'[c].version]
               /\ bookings'[c].version \in Nat /\ bookings'[c].version >= FirstVersion[c]
    <3>1. FirstVersion[c] \in Nat BY ConsoleAssumption
    <3> QED BY <1>2, <3>1 DEF ScreenInv, ScreenTypes, BookingsOK
  <2> QED BY <2>1, <2>2 DEF BookingsOK
<1>4. ScreenTypes' BY <1>1, <1>3 DEF ScreenInv, ScreenTypes, NetOK
<1>5. LoadingHasRequest' BY <1>1 DEF ScreenInv, LoadingHasRequest
<1>6. DoneIsDone' BY <1>1, <1>2 DEF ScreenInv, DoneIsDone, DoneBy
<1>7. \A items : Stale(items)' => Stale(items) BY <1>1 DEF Stale
<1>8. \A q : FreshLoad(q) => FreshLoad(q)' BY <1>7 DEF FreshLoad
<1>9. StaleIsOvertaken' BY <1>1, <1>7, <1>8 DEF ScreenInv, StaleIsOvertaken
<1> QED BY <1>4, <1>5, <1>6, <1>9 DEF ScreenInv

\* A step of nobody who is on the screen.
LEMMA ApartKeeps ==
  ASSUME ScreenInv, UNCHANGED <<screen, bookings, reopened>>
  PROVE  ScreenInv'
<1>1. page' = page /\ view' = view /\ net' = net /\ mine' = mine /\ bookings' = bookings
      /\ reopened' = reopened
  BY DEF screen
<1>2. ScreenTypes' BY <1>1 DEF ScreenInv, ScreenTypes, NetOK, BookingsOK
<1>3. LoadingHasRequest' /\ DoneIsDone'
  BY <1>1 DEF ScreenInv, LoadingHasRequest, DoneIsDone, DoneBy
<1>4. StaleIsOvertaken' BY <1>1 DEF ScreenInv, StaleIsOvertaken, FreshLoad, Stale
<1> QED BY <1>2, <1>3, <1>4 DEF ScreenInv

(***************************************************************************)
(* Pages                                                                   *)
(***************************************************************************)
LEMMA ScreenOnly ==
  ASSUME OnScreen
  PROVE  Unheard
  BY DEF OnScreen, Unheard

LEMMA ViewIs ==
  ASSUME ScreenInv
  PROVE  /\ page \in Pages /\ ViewOK(view, page)
         /\ view = [loading |-> view.loading, error |-> view.error, items |-> view.items,
                    search |-> view.search, filter |-> view.filter, drawer |-> view.drawer,
                    note |-> view.note, timer |-> view.timer, slug |-> view.slug,
                    notice |-> view.notice, late |-> view.late]
  BY DEF ScreenInv, ScreenTypes, ViewOK

\* The filter of a list and what it is searched for are no concern of the rest.
LEMMA FetchKeeps ==
  ASSUME ScreenInv, OnScreen, page \in Lists, NEW v, NEW search, NEW filter,
         v = [view EXCEPT !.filter = filter] \/ v = [view EXCEPT !.search = search] \/ v = view,
         Fetch(v, search, filter)
  PROVE  ScreenInv'
<1> DEFINE m == Request("list", Listing(search, filter))
<1>1. view' = Fetching(v) /\ net' = Append(net, m) BY DEF Fetch
<1>2. PICK w : w = view OBVIOUS
<1>3. /\ ViewOK(w, page)
      /\ w = [loading |-> w.loading, error |-> w.error, items |-> w.items, search |-> w.search,
              filter |-> w.filter, drawer |-> w.drawer, note |-> w.note, timer |-> w.timer,
              slug |-> w.slug, notice |-> w.notice, late |-> w.late]
  BY <1>2, ViewIs
<1>4. \E term, pill :
        v = [loading |-> w.loading, error |-> w.error, items |-> w.items, search |-> term,
             filter |-> pill, drawer |-> w.drawer, note |-> w.note, timer |-> w.timer,
             slug |-> w.slug, notice |-> w.notice, late |-> w.late]
  <2>1. CASE v = [view EXCEPT !.filter = filter] BY <1>2, <1>3, <2>1
  <2>2. CASE v = [view EXCEPT !.search = search] BY <1>2, <1>3, <2>2
  <2>3. CASE v = view BY <1>2, <1>3, <2>3
  <2> QED BY <2>1, <2>2, <2>3
<1>5. \E term, pill :
        view' = [loading |-> TRUE, error |-> FALSE, items |-> w.items, search |-> term,
                 filter |-> pill, drawer |-> w.drawer, note |-> w.note, timer |-> w.timer,
                 slug |-> w.slug, notice |-> w.notice, late |-> w.late]
  <2>1. PICK term, pill :
          v = [loading |-> w.loading, error |-> w.error, items |-> w.items, search |-> term,
               filter |-> pill, drawer |-> w.drawer, note |-> w.note, timer |-> w.timer,
               slug |-> w.slug, notice |-> w.notice, late |-> w.late]
    BY <1>4
  <2>2. view' = [loading |-> TRUE, error |-> FALSE, items |-> w.items, search |-> term,
                 filter |-> pill, drawer |-> w.drawer, note |-> w.note, timer |-> w.timer,
                 slug |-> w.slug, notice |-> w.notice, late |-> w.late]
    BY <1>1, <2>1 DEF Fetching
  <2> QED BY <2>2
<1>6. ViewOK(view', page) /\ view'.items = view.items BY <1>2, <1>3, <1>5 DEF ViewOK
<1>7. RequestOK(m, page) /\ m.kind = "list" /\ m.answer = NoAnswer
  <2>1. PICK r : r = m OBVIOUS
  <2>2. /\ RequestShape(r) /\ r.kind = "list" /\ r.from = page
        /\ r.phase = "sent" /\ r.who = None /\ r.live = "page" /\ r.answer = NoAnswer
    BY <2>1, RequestIs
  <2> QED BY <2>1, <2>2, NoAnswerIs
      DEF RequestOK, SentFrom, Kinds, AskOK, AnswerOK, Results
<1> HIDE DEF m
<1> QED BY <1>1, <1>6, <1>7, ScreenOnly, AppendKeeps

\* Filters, terms, slugs and notices come and go.
LEMMA ItemsStay ==
  ASSUME ScreenInv, NEW f, NEW n \in Notices, NEW d, d # None => d.id \in Bookings,
         \/ view' = view
         \/ view' = [view EXCEPT !.filter = f]
         \/ view' = [view EXCEPT !.search = f]
         \/ view' = [view EXCEPT !.slug = f]
         \/ view' = [view EXCEPT !.notice = n]
         \/ view' = [view EXCEPT !.drawer = d]
         \/ view' = [view EXCEPT !.note = f]
  PROVE  /\ ViewOK(view', page) /\ SameItems(view')
         /\ view'.items = view.items /\ view'.loading = view.loading
<1>1. PICK w : w = view OBVIOUS
<1>2. /\ ViewOK(w, page)
      /\ w = [loading |-> w.loading, error |-> w.error, items |-> w.items, search |-> w.search,
              filter |-> w.filter, drawer |-> w.drawer, note |-> w.note, timer |-> w.timer,
              slug |-> w.slug, notice |-> w.notice, late |-> w.late]
  BY <1>1, ViewIs
<1>3. /\ view' = [loading |-> w.loading, error |-> w.error, items |-> w.items,
                  search |-> view'.search, filter |-> view'.filter, drawer |-> view'.drawer,
                  note |-> view'.note, timer |-> w.timer, slug |-> view'.slug,
                  notice |-> view'.notice, late |-> w.late]
      /\ view'.notice \in {w.notice, n} /\ view'.drawer \in {w.drawer, d}
  <2>1. CASE view' = view BY <1>1, <1>2, <2>1
  <2>2. CASE view' = [view EXCEPT !.filter = f] BY <1>1, <1>2, <2>2
  <2>3. CASE view' = [view EXCEPT !.search = f] BY <1>1, <1>2, <2>3
  <2>4. CASE view' = [view EXCEPT !.slug = f] BY <1>1, <1>2, <2>4
  <2>5. CASE view' = [view EXCEPT !.notice = n] BY <1>1, <1>2, <2>5
  <2>6. CASE view' = [view EXCEPT !.drawer = d] BY <1>1, <1>2, <2>6
  <2>7. CASE view' = [view EXCEPT !.note = f] BY <1>1, <1>2, <2>7
  <2> QED BY <2>1, <2>2, <2>3, <2>4, <2>5, <2>6, <2>7
<1> QED BY <1>1, <1>2, <1>3 DEF ViewOK, SameItems

LEMMA NoItemsMove ==
  ASSUME ScreenInv, OnScreen, net' = net, NEW f, NEW n \in Notices,
         NEW d, d # None => d.id \in Bookings,
         \/ view' = [view EXCEPT !.filter = f]
         \/ view' = [view EXCEPT !.search = f]
         \/ view' = [view EXCEPT !.slug = f]
         \/ view' = [view EXCEPT !.notice = n]
         \/ view' = [view EXCEPT !.drawer = d]
  PROVE  ScreenInv'
BY ItemsStay, ScreenOnly, ViewKeeps

LEMMA FilteringKeeps ==
  ASSUME ScreenInv, NEW f, SetFilter(f) \/ SetSearch(f) \/ Retry
  PROVE  ScreenInv'
<1>1. CASE SetFilter(f)
  <2>1. CASE page = "appointments"
    <3>1. Fetch([view EXCEPT !.filter = f], view.search, f) /\ OnScreen /\ page \in Lists
      BY <1>1, <2>1 DEF SetFilter, Lists
    <3> QED BY <3>1, FetchKeeps
  <2>2. CASE page # "appointments"
    <3>1. view' = [view EXCEPT !.filter = f] /\ net' = net /\ OnScreen
      BY <1>1, <2>2 DEF SetFilter
    <3> QED BY <3>1, NoItemsMove DEF Notices
  <2> QED BY <2>1, <2>2
<1>2. CASE SetSearch(f)
  <2>1. CASE page = "appointments"
    <3>1. Fetch([view EXCEPT !.search = f], f, view.filter) /\ OnScreen /\ page \in Lists
      BY <1>2, <2>1 DEF SetSearch, Lists
    <3> QED BY <3>1, FetchKeeps
  <2>2. CASE page # "appointments"
    <3>1. view' = [view EXCEPT !.search = f] /\ net' = net /\ OnScreen
      BY <1>2, <2>2 DEF SetSearch
    <3> QED BY <3>1, NoItemsMove DEF Notices
  <2> QED BY <2>1, <2>2
<1>3. CASE Retry
  <2>1. Fetch(view, view.search, view.filter) /\ OnScreen /\ page \in Lists
    BY <1>3 DEF Retry, Lists
  <2> QED BY <2>1, FetchKeeps
<1> QED BY <1>1, <1>2, <1>3

LEMMA DrawerKeeps ==
  ASSUME ScreenInv, NEW b, (b \in Bookings /\ OpenDrawer(b)) \/ CloseDrawer
  PROVE  ScreenInv'
<1>1. CASE b \in Bookings /\ OpenDrawer(b)
  <2>1. PICK d : d = [id |-> b, status |-> Shown[b]] OBVIOUS
  <2>2. view' = [view EXCEPT !.drawer = d] /\ net' = net /\ OnScreen /\ d.id \in Bookings
    BY <1>1, <2>1 DEF OpenDrawer
  <2> QED BY <2>2, NoItemsMove DEF Notices
<1>2. CASE CloseDrawer
  <2>1. view' = [view EXCEPT !.drawer = None] /\ net' = net /\ OnScreen
    BY <1>2 DEF CloseDrawer, Closed
  <2> QED BY <2>1, NoItemsMove DEF Notices
<1> QED BY <1>1, <1>2

LEMMA EditingKeeps ==
  ASSUME ScreenInv, NEW s, NEW n \in Notices, EditSlug(s) \/ ChooseNotice(n)
  PROVE  ScreenInv'
<1>1. CASE EditSlug(s)
  <2>1. view' = [view EXCEPT !.slug = s] /\ net' = net /\ OnScreen BY <1>1 DEF EditSlug
  <2> QED BY <2>1, NoItemsMove
<1>2. CASE ChooseNotice(n)
  <2>1. view' = [view EXCEPT !.notice = n] /\ net' = net /\ OnScreen
    BY <1>2 DEF ChooseNotice
  <2> QED BY <2>1, NoItemsMove
<1> QED BY <1>1, <1>2

\* An action or a save is sent; the list stays as it is.
LEMMA SendKeeps ==
  ASSUME ScreenInv, OnScreen, NEW kind \in {"act", "save"}, NEW ask,
         kind = "act" => ask.id \in Bookings,
         kind = "save" => ask.notice \in Notices \cup {None},
         view' = view \/ view' = [view EXCEPT !.note = FALSE],
         net' = Append(net, Request(kind, ask))
  PROVE  ScreenInv'
<1>1. PICK m : m = Request(kind, ask) OBVIOUS
<1>2. /\ RequestShape(m) /\ m.kind = kind /\ m.from = page /\ m.ask = ask
      /\ m.phase = "sent" /\ m.who = None /\ m.live = "page" /\ m.answer = NoAnswer
  BY <1>1, RequestIs
<1>3. RequestOK(m, page)
  <2>1. SentFrom(m, page) BY <1>2 DEF SentFrom, Kinds, Loads
  <2>2. AskOK(m) BY <1>2 DEF AskOK
  <2>3. AnswerOK(m) BY <1>2, NoAnswerIs DEF AnswerOK, Results
  <2> QED BY <1>2, <2>1, <2>2, <2>3 DEF RequestOK
<1>4. /\ ViewOK(view', page) /\ SameItems(view')
      /\ view'.items = view.items /\ view'.loading = view.loading
  BY ItemsStay DEF Notices
<1> QED BY <1>1, <1>2, <1>3, <1>4, ScreenOnly, AppendKeeps

LEMMA SendingKeeps ==
  ASSUME ScreenInv, NEW do, NEW b, Click(do) \/ (b \in Bookings /\ Press(do, b)) \/ Save
  PROVE  ScreenInv'
<1>1. CASE Click(do)
  <2>1. PICK ask : ask = Acting(do, view.drawer.id) OBVIOUS
  <2>2. /\ OnScreen /\ view' = [view EXCEPT !.note = FALSE] /\ view.drawer # None
        /\ net' = Append(net, Request("act", ask))
    BY <1>1, <2>1 DEF Click
  <2>3. ask.id \in Bookings BY <2>1, <2>2, ViewIs DEF Acting, ViewOK
  <2> QED BY <2>2, <2>3, SendKeeps
<1>2. CASE b \in Bookings /\ Press(do, b)
  <2>1. PICK ask : ask = Acting(do, b) OBVIOUS
  <2>2. OnScreen /\ view' = view /\ net' = Append(net, Request("act", ask)) /\ ask.id = b
    BY <1>2, <2>1 DEF Press, Acting
  <2> QED BY <1>2, <2>2, SendKeeps
<1>3. CASE Save
  <2>1. PICK ask : ask = IF page = "settings" THEN [slug |-> view.slug, notice |-> None]
                         ELSE [slug |-> None, notice |-> view.notice]
    OBVIOUS
  <2>2. OnScreen /\ view' = view /\ net' = Append(net, Request("save", ask))
    BY <1>3, <2>1 DEF Save
  <2>3. ask.notice \in Notices \cup {None} BY <2>1, ViewIs DEF ViewOK
  <2> QED BY <2>2, <2>3, SendKeeps
<1> QED BY <1>1, <1>2, <1>3

\* The search page keeps no list.
LEMMA SearchKeeps ==
  ASSUME ScreenInv, NEW q, Type(q) \/ HandleSearch
  PROVE  ScreenInv'
<1>1. PICK w : w = view OBVIOUS
<1>2. /\ ViewOK(w, page)
      /\ w = [loading |-> w.loading, error |-> w.error, items |-> w.items, search |-> w.search,
              filter |-> w.filter, drawer |-> w.drawer, note |-> w.note, timer |-> w.timer,
              slug |-> w.slug, notice |-> w.notice, late |-> w.late]
  BY <1>1, ViewIs
<1>3. DOMAIN Nothing = {} BY DEF Nothing
<1>4. CASE Type(q)
  <2>1. page = "search" /\ net' = net /\ OnScreen BY <1>4 DEF Type
  <2>2. view' = [loading |-> w.loading, error |-> w.error, items |-> w.items, search |-> q,
                 filter |-> w.filter, drawer |-> w.drawer, note |-> w.note, timer |-> TRUE,
                 slug |-> w.slug, notice |-> w.notice, late |-> w.late]
    BY <1>1, <1>2, <1>4 DEF Type
  <2>3. ViewOK(view', page) /\ SameItems(view') /\ view'.loading = view.loading
    BY <1>1, <1>2, <2>1, <2>2 DEF ViewOK, SameItems
  <2> QED BY <2>1, <2>3, ScreenOnly, ViewKeeps
<1>5. CASE HandleSearch /\ view.search = None
  <2>1. net' = net /\ OnScreen BY <1>5 DEF HandleSearch
  <2>2. view' = [loading |-> w.loading, error |-> w.error, items |-> Nothing,
                 search |-> w.search, filter |-> w.filter, drawer |-> w.drawer,
                 note |-> w.note, timer |-> FALSE, slug |-> w.slug, notice |-> w.notice,
                 late |-> w.late]
    BY <1>1, <1>2, <1>5 DEF HandleSearch
  <2>3. ViewOK(view', page) /\ SameItems(view') /\ view'.loading = view.loading
    BY <1>1, <1>2, <1>3, <2>2 DEF ViewOK, SameItems
  <2> QED BY <2>1, <2>3, ScreenOnly, ViewKeeps
<1>6. CASE HandleSearch /\ view.search # None
  <2>1. PICK m : m = Request("find", Listing(view.search, "all")) OBVIOUS
  <2>2. OnScreen /\ net' = Append(net, m) /\ page = "search" /\ w.items = Nothing
    BY <1>1, <1>2, <1>6, <2>1 DEF HandleSearch, ViewOK
  <2>3. view' = [loading |-> TRUE, error |-> FALSE, items |-> w.items, search |-> w.search,
                 filter |-> w.filter, drawer |-> w.drawer, note |-> w.note, timer |-> FALSE,
                 slug |-> w.slug, notice |-> w.notice, late |-> w.late]
    BY <1>1, <1>2, <1>6 DEF HandleSearch, Fetching
  <2>4. ViewOK(view', page) /\ SameItems(view') /\ view'.items = view.items
    BY <1>1, <1>2, <2>2, <2>3 DEF ViewOK, SameItems
  <2>5. /\ RequestShape(m) /\ m.kind = "find" /\ m.from = page
        /\ m.phase = "sent" /\ m.who = None /\ m.live = "page" /\ m.answer = NoAnswer
    BY <2>1, RequestIs
  <2>6. RequestOK(m, page)
    BY <2>5, NoAnswerIs DEF RequestOK, SentFrom, Kinds, AskOK, AnswerOK, Results
  <2> QED BY <2>2, <2>4, <2>5, <2>6, ScreenOnly, AppendKeeps
<1> QED BY <1>4, <1>5, <1>6

LEMMA LeavingKeeps ==
  ASSUME ScreenInv, NEW p \in Pages, NEW c, Open(p) \/ LogIn(c) \/ LogOut \/ HandleRetry
  PROVE  ScreenInv'
<1>1. \A q \in Pages : Destination(q) \in Pages BY DEF Destination, Pages
<1>2. CASE Open(p)
  <2>1. /\ Mount(Destination(p), "document") /\ bookings' = bookings /\ mine' = mine
        /\ reopened' = reopened
    BY <1>2 DEF Open
  <2> QED BY <1>1, <2>1, MountKeeps DEF ScreenInv, ScreenTypes
<1>3. CASE LogIn(c)
  <2>1. Mount("dashboard", "gone") /\ bookings' = bookings /\ mine' = mine /\ reopened' = reopened
    BY <1>3 DEF LogIn
  <2>2. "dashboard" \in Pages BY DEF Pages, Lists
  <2> QED BY <2>1, <2>2, MountKeeps DEF ScreenInv, ScreenTypes
<1>4. CASE LogOut
  <2>1. Mount("login", "gone") /\ bookings' = bookings /\ mine' = mine /\ reopened' = reopened
    BY <1>4 DEF LogOut
  <2>2. "login" \in Pages BY DEF Pages
  <2> QED BY <2>1, <2>2, MountKeeps DEF ScreenInv, ScreenTypes
<1>5. CASE HandleRetry
  <2>1. /\ Mount(Destination(page), "gone") /\ bookings' = bookings /\ mine' = mine
        /\ reopened' = reopened
    BY <1>5 DEF HandleRetry
  <2>2. Destination(page) \in Pages BY <1>1, ViewIs
  <2> QED BY <2>1, <2>2, MountKeeps DEF ScreenInv, ScreenTypes
<1> QED BY <1>2, <1>3, <1>4, <1>5

(***************************************************************************)
(* Answers                                                                 *)
(***************************************************************************)
LEMMA DeliverKeeps ==
  ASSUME ScreenInv, NEW i \in DOMAIN net, Deliver(i)
  PROVE  ScreenInv'
<1>1. PICK m : m = net[i] OBVIOUS
<1>2. RequestOK(m, page) BY <1>1 DEF ScreenInv, ScreenTypes, NetOK
<1>3. bookings' = bookings /\ reopened' = reopened BY DEF Deliver
<1>4. ~Acknowledged(m) => Claimed(m) = mine BY DEF Acknowledged, Claimed
<1>5. CASE DeliverLoad(i)
  <2>1. /\ net[i].kind \in {"list", "find"} /\ view' = Loaded(view, net[i])
        /\ net' = RemoveAt(Overtaken(i), i) /\ page' = page /\ mine' = mine
    BY <1>5 DEF DeliverLoad
  <2> QED BY <1>3, <2>1, LoadKeeps DEF Unheard
<1>6. CASE DeliverProfile(i)
  <2>1. /\ m.kind = "profile" /\ net' = RemoveAt(net, i) /\ page' = page /\ mine' = mine
        /\ \/ view' = view
           \/ m.answer.result = "ok" /\ view' = [view EXCEPT !.notice = m.answer.notice]
    BY <1>1, <1>6 DEF DeliverProfile
  <2>2. ViewOK(view', page) /\ SameItems(view') /\ view'.loading = view.loading
    <3>1. CASE view' = view BY <3>1, ItemsStay DEF Notices
    <3>2. CASE m.answer.result = "ok" /\ view' = [view EXCEPT !.notice = m.answer.notice]
      <4>1. PICK n : n = m.answer.notice OBVIOUS
      <4>2. n \in Notices BY <1>2, <2>1, <3>2, <4>1 DEF RequestOK, AnswerOK
      <4>3. view' = [view EXCEPT !.notice = n] BY <3>2, <4>1
      <4> QED BY <4>2, <4>3, ItemsStay
    <3> QED BY <2>1, <3>1, <3>2
  <2> QED BY <1>1, <1>3, <2>1, <2>2, RemoveKeeps DEF Unheard
<1>7. CASE DeliverAct(i) /\ Acknowledged(m)
  <2>1. /\ m.kind = "act" /\ m.from = "appointments" /\ m.live = "page"
        /\ Refreshed(RemoveAt(net, i), m) /\ mine' = Claimed(m) /\ page' = page
    BY <1>1, <1>7 DEF DeliverAct
  <2>2. page \in Lists BY <1>2, <2>1 DEF RequestOK, SentFrom, Lists
  <2> QED BY <1>1, <1>3, <2>1, <2>2, RefreshKeeps
<1>8. CASE DeliverAct(i) /\ ~Acknowledged(m)
  <2>1. /\ m.kind = "act" /\ view' = [view EXCEPT !.note = TRUE] /\ net' = RemoveAt(net, i)
        /\ mine' = mine /\ page' = page
    BY <1>1, <1>4, <1>8 DEF DeliverAct
  <2>2. ViewOK(view', page) /\ SameItems(view') /\ view'.loading = view.loading
    BY <2>1, ItemsStay DEF Notices
  <2> QED BY <1>1, <1>3, <2>1, <2>2, RemoveKeeps DEF Unheard
<1>9. CASE DeliverPress(i) /\ Acknowledged(m)
  <2>1. m.kind = "act" /\ Mount(Destination(page), "gone") /\ mine' = Claimed(m)
    BY <1>1, <1>9 DEF DeliverPress
  <2>2. Destination(page) \in Pages BY ViewIs DEF Destination, Pages
  <2>3. \A b \in mine' \ mine : DoneBy(net[i]) /\ net[i].ask.id = b
    BY <1>1, <2>1 DEF Claimed, DoneBy
  <2>4. mine' \subseteq Bookings
    BY <1>2, <2>1 DEF Claimed, RequestOK, AskOK, ScreenInv, ScreenTypes
  <2> QED BY <1>3, <2>1, <2>2, <2>3, <2>4, MountKeeps
<1>10. CASE (DeliverPress(i) /\ ~Acknowledged(m)) \/ Discard(i)
  <2>1. /\ m.kind \in {"act", "save"} /\ view' = view /\ net' = RemoveAt(net, i)
        /\ mine' = mine /\ page' = page
    BY <1>1, <1>4, <1>10 DEF DeliverPress, Discard
  <2>2. ViewOK(view', page) /\ SameItems(view') /\ view'.loading = view.loading
    BY <2>1, ItemsStay DEF Notices
  <2> QED BY <1>1, <1>3, <2>1, <2>2, RemoveKeeps DEF Unheard
<1> QED BY <1>5, <1>6, <1>7, <1>8, <1>9, <1>10 DEF Deliver

(***************************************************************************)
(* The API                                                                 *)
(***************************************************************************)
\* The guard lets in providers, and nobody else.
LEMMA GuardIsProvider ==
  ASSUME SessionInv, SessionTypes, NEW cookie
  PROVE  Guard(cookie) \in Providers \cup {None}
<1> SUFFICES ASSUME Guard(cookie) # None PROVE Guard(cookie) \in Providers OBVIOUS
<1> DEFINE hash == ProviderHash(Decoded(cookie))
           found == CHOOSE s \in Live(hash) : TRUE
<1>1. Live(hash) # {} /\ Guard(cookie) = found.provider
  BY DEF Guard, FindProviderByTokenHash
<1>2. found \in Live(hash) BY <1>1
<1>3. found \in sessions BY <1>2 DEF Live
<1>4. PICK l \in logins : VouchedBy(found, l) BY <1>3 DEF SessionInv, RowsVouched
<1> QED BY <1>1, <1>4 DEF VouchedBy, SessionTypes

LEMMA AnswerIs ==
  ASSUME NEW result
  PROVE  Answer(result).result = result /\ Answer(result).items = Nothing
  BY DEF Answer, NoAnswer

\* An answer is put on its request.
LEMMA ReplyIs ==
  ASSUME ScreenInv, NEW i \in DOMAIN net, NEW answer, Reply(i, answer),
         answer.result \in Results, DOMAIN answer.items \subseteq ItemsOf(net[i].from),
         net[i].kind # "list" => answer.items = Nothing,
         net[i].kind = "profile" /\ answer.result = "ok" => answer.notice \in Notices
  PROVE  \E m : /\ RequestOK(m, page) /\ net' = [net EXCEPT ![i] = m]
                /\ m.kind = net[i].kind /\ m.ask = net[i].ask /\ m.late = net[i].late
                /\ m.answer = answer
<1>1. PICK q : q = net[i] OBVIOUS
<1>2. RequestOK(q, page) BY <1>1 DEF ScreenInv, ScreenTypes, NetOK
<1>3. PICK m : m = [q EXCEPT !.phase = "answered", !.answer = answer] OBVIOUS
<1>4. m = [kind |-> q.kind, from |-> q.from, ask |-> q.ask, cookie |-> q.cookie,
           phase |-> "answered", who |-> q.who, live |-> q.live, late |-> q.late,
           answer |-> answer]
  BY <1>2, <1>3 DEF RequestOK, RequestShape
<1>5. net = [k \in DOMAIN net |-> net[k]]
  BY LenProperties DEF ScreenInv, ScreenTypes, NetOK, IsNet
<1>6. net' = [net EXCEPT ![i] = m] BY <1>1, <1>3, <1>5 DEF Reply
<1>7. RequestOK(m, page)
  BY <1>1, <1>2, <1>4 DEF RequestOK, RequestShape, SentFrom, AskOK, AnswerOK
<1>8. m.kind = net[i].kind /\ m.ask = net[i].ask /\ m.late = net[i].late /\ m.answer = answer
  BY <1>1, <1>4
<1> QED BY <1>6, <1>7, <1>8

\* An answer that carries no list and carries nothing out.
LEMMA EmptyReplyKeeps ==
  ASSUME ScreenInv, NEW i \in DOMAIN net, NEW answer, Reply(i, answer),
         answer.result \in Results, answer.items = Nothing,
         net[i].kind # "profile" \/ answer.result # "ok" \/ answer.notice \in Notices,
         net[i].kind = "list" => answer.result # "ok",
         net[i].kind = "act" => answer.result # "done",
         UNCHANGED <<page, view, bookings, mine, reopened>>
  PROVE  ScreenInv'
<1>1. DOMAIN answer.items = {} BY DEF Nothing
<1>2. PICK m : /\ RequestOK(m, page) /\ net' = [net EXCEPT ![i] = m]
               /\ m.kind = net[i].kind /\ m.ask = net[i].ask /\ m.late = net[i].late
               /\ m.answer = answer
  BY <1>1, ReplyIs
<1>3. ~DoneBy(m) /\ (m.kind = "list" => FreshLoad(m)) BY <1>2 DEF DoneBy, FreshLoad
<1>4. BookingsOK' BY DEF ScreenInv, ScreenTypes, BookingsOK
<1> QED BY <1>2, <1>3, <1>4, ReplyKeeps

\* A list is read from the bookings: what was done shows in it.
LEMMA ListIsFresh ==
  ASSUME ScreenInv, NEW m, RequestOK(m, page), m.kind = "list"
  PROVE  LET answer == ListAnswer(m)
         IN /\ answer.result \in {"ok", "denied"}
            /\ DOMAIN answer.items \subseteq ItemsOf(m.from)
            /\ answer.result = "ok" => ~Stale(answer.items)
<1>1. m.from = page /\ page \in Lists BY DEF RequestOK, SentFrom, Loads
<1>2. \A b \in mine \ reopened : b \in Bookings /\ bookings[b].status \notin Active
  BY DEF ScreenInv, ScreenTypes, DoneIsDone
<1>3. \A B \in SUBSET Bookings :
        DOMAIN Statuses(B) = B /\ \A b \in B : Statuses(B)[b] = bookings[b].status
  BY DEF Statuses
<1>4. \A B \in SUBSET Bookings : ~Stale(Statuses(B)) BY <1>2, <1>3 DEF Stale
<1>5. DOMAIN Adapted(m.ask) \subseteq Bookings /\ ~Stale(Adapted(m.ask))
  <2> DEFINE status == [b \in Bookings |-> MapBookingStatus(AllAppointments[b])]
             hits == {b \in Bookings : /\ m.ask.search \in {None, OwnerOf[b]}
                                       /\ m.ask.filter \in {"all", status[b]}}
  <2>1. Adapted(m.ask) = [b \in hits |-> status[b]] BY DEF Adapted
  <2>2. \A b \in Bookings : status[b] = MapBookingStatus(bookings[b].status)
    BY <1>3 DEF AllAppointments
  <2> HIDE DEF status
  <2>3. \A s : s \notin Active => MapBookingStatus(s) \notin Active
    BY DEF MapBookingStatus, Active
  <2> QED BY <1>2, <2>1, <2>2, <2>3 DEF Stale
<1>6. DOMAIN AllClients = Clients /\ ~Stale(AllClients) BY DEF AllClients, Stale, Active
<1>7. PICK items : items = CASE m.from = "dashboard"    -> AllAppointments
                             [] m.from = "appointments" -> Adapted(m.ask)
                             [] m.from = "clients"      -> AllClients
                             [] OTHER                   -> ListBookings(m.cookie)
  OBVIOUS
<1>8. DOMAIN items \subseteq ItemsOf(m.from) /\ ~Stale(items)
  <2>1. CASE m.from = "dashboard"
    <3>1. items = Statuses(Bookings) BY <1>7, <2>1 DEF AllAppointments
    <3> QED BY <1>3, <1>4, <2>1, <3>1 DEF ItemsOf
  <2>2. CASE m.from = "appointments"
    <3>1. items = Adapted(m.ask) BY <1>7, <2>2
    <3> QED BY <1>5, <2>2, <3>1 DEF ItemsOf
  <2>3. CASE m.from = "clients"
    <3>1. items = AllClients BY <1>7, <2>3
    <3> QED BY <1>6, <2>3, <3>1 DEF ItemsOf
  <2>4. CASE m.from \notin {"dashboard", "appointments", "clients"}
    <3>1. PICK B \in SUBSET Bookings : items = Statuses(B)
      <4>1. items = ListBookings(m.cookie) BY <1>7, <2>4
      <4> QED BY <4>1 DEF ListBookings
    <3> QED BY <1>3, <1>4, <2>4, <3>1 DEF ItemsOf
  <2> QED BY <2>1, <2>2, <2>3, <2>4
<1>9. CASE ListAnswer(m) = Answer("denied")
  BY <1>9, AnswerIs DEF Nothing
<1>10. CASE ListAnswer(m) = [Answer("ok") EXCEPT !.items = items]
  <2>1. ListAnswer(m) = [result |-> "ok", items |-> items, notice |-> 0]
    BY <1>10 DEF Answer, NoAnswer
  <2> QED BY <1>8, <2>1
<1> QED BY <1>7, <1>9, <1>10 DEF ListAnswer

LEMMA ServeKeeps ==
  ASSUME SessionInv, SessionTypes, RowTypes, ScreenInv, NEW i \in DOMAIN net, Serve(i)
  PROVE  ScreenInv'
<1>1. PICK m : m = net[i] OBVIOUS
<1>2. RequestOK(m, page) BY <1>1 DEF ScreenInv, ScreenTypes, NetOK
<1>3. UNCHANGED <<page, view, mine, reopened>> BY DEF Serve
<1>4. CASE m.kind = "list" /\ Reply(i, ListAnswer(m)) /\ UNCHANGED bookings
  <2>1. PICK answer : answer = ListAnswer(m) OBVIOUS
  <2>2. /\ answer.result \in {"ok", "denied"} /\ DOMAIN answer.items \subseteq ItemsOf(m.from)
        /\ answer.result = "ok" => ~Stale(answer.items)
    BY <1>2, <1>4, <2>1, ListIsFresh
  <2>3. Reply(i, answer) BY <1>4, <2>1
  <2>4. PICK q : /\ RequestOK(q, page) /\ net' = [net EXCEPT ![i] = q]
                 /\ q.kind = m.kind /\ q.ask = m.ask /\ q.late = m.late /\ q.answer = answer
    BY <1>1, <1>4, <2>2, <2>3, ReplyIs DEF Results
  <2>5. ~DoneBy(q) /\ FreshLoad(q) BY <1>4, <2>2, <2>4 DEF DoneBy, FreshLoad
  <2>6. BookingsOK' BY <1>4 DEF ScreenInv, ScreenTypes, BookingsOK
  <2> QED BY <1>1, <1>3, <1>4, <2>4, <2>5, <2>6, ReplyKeeps
<1>5. CASE m.kind = "find" /\ Reply(i, FindAnswer(m)) /\ UNCHANGED bookings
  <2>1. PICK answer : answer = FindAnswer(m) OBVIOUS
  <2>2. answer.result \in {"denied", "failed"} /\ answer.items = Nothing
    BY <2>1, AnswerIs DEF FindAnswer
  <2> QED BY <1>1, <1>3, <1>5, <2>1, <2>2, EmptyReplyKeeps DEF Results
<1>6. CASE m.kind = "profile" /\ Reply(i, ProfileAnswer(m)) /\ UNCHANGED bookings
  <2>1. PICK answer : answer = ProfileAnswer(m) OBVIOUS
  <2>2. /\ answer.result \in {"denied", "ok"} /\ answer.items = Nothing
        /\ answer.result = "ok" => answer.notice \in Notices
    <3>1. CASE Guard(m.cookie) = None BY <2>1, <3>1, AnswerIs DEF ProfileAnswer
    <3>2. CASE Guard(m.cookie) # None
      <4>1. Guard(m.cookie) \in Providers BY <3>2, GuardIsProvider
      <4>2. answer = [result |-> "ok", items |-> Nothing, notice |-> rows[Guard(m.cookie)].notice]
        BY <2>1, <3>2 DEF ProfileAnswer, Answer, NoAnswer
      <4> QED BY <4>1, <4>2 DEF RowTypes
    <3> QED BY <3>1, <3>2
  <2> QED BY <1>1, <1>3, <1>6, <2>1, <2>2, EmptyReplyKeeps DEF Results
<1>7. ASSUME NEW result \in Outcomes(m), m.kind = "act", Reply(i, Answer(result)),
             bookings' = IF result = "done"
                           THEN [bookings EXCEPT ![m.ask.id] = Acted(bookings[m.ask.id], m.ask.do)]
                           ELSE bookings
      PROVE  ScreenInv'
  <2>1. result \in {"denied", "refused", "done"} BY DEF Outcomes
  <2>2. CASE result # "done"
    <3>1. PICK answer : answer = Answer(result) OBVIOUS
    <3>2. answer.result = result /\ answer.items = Nothing BY <3>1, AnswerIs
    <3>3. UNCHANGED bookings BY <1>7, <2>2
    <3> QED BY <1>1, <1>3, <1>7, <2>1, <2>2, <3>1, <3>2, <3>3, EmptyReplyKeeps DEF Results
  <2>3. CASE result = "done"
    <3>1. PICK b \in Bookings : b = m.ask.id BY <1>2, <1>7 DEF RequestOK, AskOK
    <3>2. PICK row : row = Acted(bookings[b], m.ask.do) OBVIOUS
    <3>3. bookings' = [bookings EXCEPT ![b] = row] BY <1>7, <2>3, <3>1, <3>2
    <3>4. /\ row = [status |-> row.status, version |-> row.version]
          /\ row.status \notin Active /\ row.version \in Nat /\ row.version >= FirstVersion[b]
      <4>1. /\ bookings[b].version \in Nat /\ bookings[b].version >= FirstVersion[b]
            /\ FirstVersion[b] \in Nat
        BY ConsoleAssumption DEF ScreenInv, ScreenTypes, BookingsOK
      <4>2. PICK v \in Nat : v = bookings[b].version BY <4>1
      <4>3. /\ row.status \in {"completed", "cancelled"} /\ row.version \in {v, v + 1}
            /\ row = [status |-> row.status, version |-> row.version]
        BY <3>2, <4>2 DEF Acted
      <4> QED BY <4>1, <4>2, <4>3 DEF Active
    <3>5. \A c \in Bookings : bookings'[c] = IF c = b THEN row ELSE bookings[c]
      BY <3>3 DEF ScreenInv, ScreenTypes, BookingsOK
    <3>6. bookings' = [c \in Bookings |-> bookings'[c]]
      BY <3>3 DEF ScreenInv, ScreenTypes, BookingsOK
    <3>7. BookingsOK' BY <3>4, <3>5, <3>6 DEF ScreenInv, ScreenTypes, BookingsOK
    <3>8. PICK answer : answer = Answer("done") OBVIOUS
    <3>9. answer.result = "done" /\ answer.items = Nothing /\ DOMAIN answer.items = {}
      BY <3>8, AnswerIs DEF Nothing
    <3>10. Reply(i, answer) BY <1>7, <2>3, <3>8
    <3>11. PICK q : /\ RequestOK(q, page) /\ net' = [net EXCEPT ![i] = q]
                    /\ q.kind = m.kind /\ q.ask = m.ask /\ q.late = m.late /\ q.answer = answer
      BY <1>1, <1>7, <3>9, <3>10, ReplyIs DEF Results
    <3>12. bookings'[q.ask.id].status \notin Active BY <3>1, <3>4, <3>5, <3>11
    <3>13. \A c \in Bookings : bookings[c].status \notin Active => bookings'[c].status \notin Active
      BY <3>4, <3>5
    <3>14. q.kind # "list" BY <1>7, <3>11
    <3> QED BY <1>1, <1>3, <3>7, <3>11, <3>12, <3>13, <3>14, ReplyKeeps
  <2> QED BY <2>2, <2>3
<1> QED BY <1>1, <1>4, <1>5, <1>6, <1>7 DEF Serve

LEMMA AdmitKeeps ==
  ASSUME SessionInv, SessionTypes, ScreenInv, NEW i \in DOMAIN net, Admit(i)
  PROVE  ScreenInv'
<1>1. PICK q : q = net[i] OBVIOUS
<1>2. RequestOK(q, page) BY <1>1 DEF ScreenInv, ScreenTypes, NetOK
<1>3. q.kind = "save" /\ UNCHANGED <<page, view, bookings, mine, reopened>>
  BY <1>1 DEF Admit
<1>4. CASE Guard(q.cookie) = None
  <2>1. PICK answer : answer = Answer("denied") OBVIOUS
  <2>2. Reply(i, answer) /\ answer.result = "denied" /\ answer.items = Nothing
    BY <1>1, <1>4, <2>1, AnswerIs DEF Admit
  <2> QED BY <1>1, <1>3, <2>2, EmptyReplyKeeps DEF Results
<1>5. CASE Guard(q.cookie) # None
  <2>1. PICK p \in Providers : p = Guard(q.cookie) BY <1>5, GuardIsProvider
  <2>2. PICK m : m = [q EXCEPT !.phase = "admitted", !.who = p] OBVIOUS
  <2>3. m = [kind |-> q.kind, from |-> q.from, ask |-> q.ask, cookie |-> q.cookie,
             phase |-> "admitted", who |-> p, live |-> q.live, late |-> q.late,
             answer |-> q.answer]
    BY <1>2, <2>2 DEF RequestOK, RequestShape
  <2>4. net = [k \in DOMAIN net |-> net[k]]
    BY LenProperties DEF ScreenInv, ScreenTypes, NetOK, IsNet
  <2>5. net' = [net EXCEPT ![i] = m] BY <1>1, <1>5, <2>1, <2>2, <2>4 DEF Admit
  <2>6. RequestOK(m, page)
    BY <1>2, <1>3, <2>3 DEF RequestOK, RequestShape, SentFrom, AskOK, AnswerOK
  <2>7. ~DoneBy(m) /\ m.kind # "list" BY <1>3, <2>3 DEF DoneBy
  <2>8. BookingsOK' BY <1>3 DEF ScreenInv, ScreenTypes, BookingsOK
  <2>9. m.kind = net[i].kind /\ m.ask = net[i].ask /\ m.late = net[i].late BY <1>1, <2>3
  <2> QED BY <1>3, <2>5, <2>6, <2>7, <2>8, <2>9, ReplyKeeps
<1> QED BY <1>4, <1>5

LEMMA UpdateMeKeeps ==
  ASSUME ScreenInv, NEW i \in DOMAIN net, UpdateMe(i) \/ Fail(i)
  PROVE  ScreenInv'
<1>1. UNCHANGED <<page, view, bookings, mine, reopened>> BY DEF UpdateMe, Fail
<1>2. PICK result \in {"failed", "done"} :
        Reply(i, Answer(result)) /\ (result = "done" => net[i].phase = "admitted")
  BY DEF UpdateMe, Fail
<1>3. net[i].phase = "admitted" => net[i].kind = "save"
  BY DEF ScreenInv, ScreenTypes, NetOK, RequestOK
<1>4. PICK answer : answer = Answer(result) OBVIOUS
<1>5. Reply(i, answer) /\ answer.result = result /\ answer.items = Nothing
  BY <1>2, <1>4, AnswerIs
<1> QED BY <1>1, <1>2, <1>3, <1>5, EmptyReplyKeeps DEF Results

(***************************************************************************)
(* The console's invariant                                                 *)
(***************************************************************************)
LEMMA SessionTypesKeep ==
  ASSUME SessionTypes, [SessionNext]_sessionVars
  PROVE  SessionTypes'
<1>1. MaxNow \in Nat /\ MaxIssued \in Nat BY SessionsAssumption
<1>2. CASE UNCHANGED sessionVars BY <1>2 DEF sessionVars, SessionTypes
<1>3. ASSUME NEW p \in Providers, NEW typed, NEW heard, ProviderLogin(p, typed, heard)
      PROVE  SessionTypes'
  BY <1>1, <1>3 DEF ProviderLogin, SessionTypes
<1>4. ASSUME NEW works, NEW heard, ProviderLogout(works, heard) PROVE SessionTypes'
  BY <1>4 DEF ProviderLogout, SessionTypes
<1>5. ASSUME NEW a, NEW typed, AdminLogin(a, typed) PROVE SessionTypes'
  BY <1>1, <1>5 DEF AdminLogin, SessionTypes
<1>6. ASSUME NEW leaving, AdminRequest(leaving) PROVE SessionTypes'
  BY <1>6 DEF AdminRequest, SessionTypes
<1>7. ASSUME NEW c, ClientLogin(c) \/ ClientLogout \/ AdminLogout PROVE SessionTypes'
  BY <1>7 DEF ClientLogin, ClientLogout, AdminLogout, SessionTypes
<1>8. CASE Tick BY <1>1, <1>8 DEF Tick, SessionTypes
<1> QED BY <1>2, <1>3, <1>4, <1>5, <1>6, <1>7, <1>8 DEF SessionNext

\* A notice is written by a save that carries one, or stays.
LEMMA RowTypesKeep ==
  ASSUME RowsOK, RowTypes, ScreenInv, [Next]_vars
  PROVE  RowTypes'
<1>1. CASE UNCHANGED rows BY <1>1 DEF RowTypes
<1>2. ASSUME NEW i \in DOMAIN net, UpdateMe(i), rows' # rows PROVE RowTypes'
  <2>1. PICK m : m = net[i] OBVIOUS
  <2>2. m.phase = "admitted" /\ rows' = [rows EXCEPT ![m.who] = Updated(rows[m.who], m.ask)]
    BY <1>2, <2>1 DEF UpdateMe
  <2>3. m.ask.notice \in Notices \cup {None}
    BY <2>1, <2>2 DEF ScreenInv, ScreenTypes, NetOK, RequestOK, AskOK
  <2>4. \A p \in Providers : rows'[p] = IF p = m.who THEN Updated(rows[p], m.ask) ELSE rows[p]
    BY <2>2 DEF RowsOK
  <2>5. \A p \in Providers : Updated(rows[p], m.ask).notice \in Notices
    BY <2>3 DEF Updated, RowTypes
  <2> QED BY <2>4, <2>5 DEF RowTypes
<1> QED BY <1>1, <1>2, RowsChangeInUpdateMe

LEMMA ScreenStep ==
  ASSUME SessionInv, SessionTypes, RowTypes, ScreenInv, [Next]_vars
  PROVE  ScreenInv'
<1>1. CASE UNCHANGED vars BY <1>1, ApartKeeps DEF vars
<1>2. ASSUME NEW p \in Pages, Open(p) PROVE ScreenInv' BY <1>2, LeavingKeeps
<1>3. ASSUME NEW c, LogIn(c) \/ LogOut \/ HandleRetry PROVE ScreenInv'
  <2>1. "login" \in Pages BY DEF Pages
  <2> QED BY <1>3, <2>1, LeavingKeeps
<1>4. ASSUME NEW f, SetFilter(f) \/ SetSearch(f) \/ Retry PROVE ScreenInv'
  BY <1>4, FilteringKeeps
<1>5. ASSUME NEW c, Type(c) \/ HandleSearch PROVE ScreenInv' BY <1>5, SearchKeeps
<1>6. ASSUME NEW b \in Bookings, OpenDrawer(b) PROVE ScreenInv' BY <1>6, DrawerKeeps
<1>7. CASE CloseDrawer BY <1>7, DrawerKeeps
<1>8. ASSUME NEW do, Click(do) \/ Save PROVE ScreenInv' BY <1>8, SendingKeeps
<1>9. ASSUME NEW do, NEW b \in Bookings, Press(do, b) PROVE ScreenInv' BY <1>9, SendingKeeps
<1>10. ASSUME NEW s, EditSlug(s) PROVE ScreenInv'
  BY <1>10, EditingKeeps DEF Notices
<1>11. ASSUME NEW n \in Notices, ChooseNotice(n) PROVE ScreenInv' BY <1>11, EditingKeeps
<1>12. ASSUME NEW b \in Bookings, NEW status \in Changes, Elsewhere(b, status) PROVE ScreenInv'
  BY <1>12, ElsewhereKeeps
<1>13. ASSUME NEW i \in DOMAIN net, Serve(i) \/ Admit(i) \/ UpdateMe(i) \/ Fail(i) \/ Deliver(i)
       PROVE  ScreenInv'
  BY <1>13, ServeKeeps, AdmitKeeps, UpdateMeKeeps, DeliverKeeps
<1>14. CASE Session BY <1>14, ApartKeeps DEF Session
<1> QED
  BY <1>1, <1>2, <1>3, <1>4, <1>5, <1>6, <1>7, <1>8, <1>9, <1>10, <1>11, <1>12, <1>13, <1>14
  DEF Next

LEMMA ConsoleInit == Init => ConsoleInv
<1> SUFFICES ASSUME Init PROVE ConsoleInv OBVIOUS
<1>1. PICK c \in Clients, p \in Providers : SignedIn(c, p) BY DEF Init
<1>2. SessionInv BY InitIsVouched
<1>3. SessionTypes
  <2>1. logins = {[token |-> 1, provider |-> p, at |-> 0]} BY <1>1 DEF SignedIn
  <2>2. \A l \in logins : l.provider = p BY <2>1
  <2> QED BY <1>1, <2>2, SessionsAssumption, ConsoleAssumption DEF SignedIn, SessionTypes
<1>4. RowsOK /\ RowTypes BY ConsoleAssumption DEF Init, RowsOK, RowTypes
<1>5. page = "dashboard" /\ page \in Pages /\ page \in Lists BY DEF Init, Pages, Lists
<1>6. ViewOK(view, page) /\ view.items = Nothing BY <1>5, FreshViewIs DEF Init
<1>7. PICK m : net = <<m>> /\ RequestOK(m, page) /\ m.kind = "list" /\ m.answer = NoAnswer
  <2>1. net # <<>> /\ RequestOK(net[1], page) /\ net[1].kind = "list" /\ net[1].answer = NoAnswer
    BY <1>5, FirstIs DEF Init
  <2>2. \E m : net = <<m>> BY <1>5 DEF Init, FirstRequests
  <2> QED BY <2>1, <2>2
<1>8. IsNet(net) /\ DOMAIN net = {1} /\ net[1] = m
  <2>1. PICK s : s = <<m>> OBVIOUS
  <2>2. DOMAIN s = 1 .. 1 /\ s = [k \in 1 .. 1 |-> s[k]] /\ s[1] = m BY <2>1
  <2>3. IsNet(s) BY <2>2, NetIs
  <2> QED BY <1>7, <2>1, <2>2, <2>3
<1>9. BookingsOK
  <2>1. \A b \in Bookings : FirstVersion[b] \in Nat BY ConsoleAssumption
  <2> QED BY <2>1 DEF Init, BookingsOK
<1>10. ScreenTypes BY <1>5, <1>6, <1>7, <1>8, <1>9 DEF ScreenTypes, NetOK, Init
<1>11. LoadingHasRequest BY <1>7, <1>8 DEF LoadingHasRequest
<1>12. DoneIsDone
  <2>1. mine = {} BY DEF Init
  <2>2. ~DoneBy(m) BY <1>7, NoAnswerIs DEF DoneBy
  <2> QED BY <1>8, <2>1, <2>2 DEF DoneIsDone
<1>13. StaleIsOvertaken
  <2>1. \A items : ~Stale(items) BY DEF Init, Stale
  <2> QED BY <2>1 DEF StaleIsOvertaken, FreshLoad
<1> QED BY <1>2, <1>3, <1>4, <1>10, <1>11, <1>12, <1>13 DEF ConsoleInv, ScreenInv

LEMMA ConsoleStep == ConsoleInv /\ [Next]_vars => ConsoleInv'
<1> SUFFICES ASSUME ConsoleInv, [Next]_vars PROVE ConsoleInv' OBVIOUS
<1>1. SessionInv' /\ SessionTypes'
  BY StepIsSessionStep, SessionStepKeeps, SessionTypesKeep DEF ConsoleInv
<1>2. RowsOK' /\ RowTypes' BY RowsStep, RowTypesKeep DEF ConsoleInv
<1>3. ScreenInv' BY ScreenStep DEF ConsoleInv
<1> QED BY <1>1, <1>2, <1>3 DEF ConsoleInv

LEMMA ConsoleHolds == Spec => []ConsoleInv
BY ConsoleInit, ConsoleStep, PTL DEF Spec

\* The state of the pages, of the requests under way and of the two tables keeps
\* its types, whatever answers come in whatever order, and no row is lost.
THEOREM ConsoleTypeCorrect == Spec => []TypeOK
<1>1. ConsoleInv => TypeOK
  <2> SUFFICES ASSUME ConsoleInv PROVE TypeOK OBVIOUS
  <2>1. DOMAIN view = DOMAIN FreshView("login")
    <3>1. PICK w : w = view OBVIOUS
    <3>2. w = [loading |-> w.loading, error |-> w.error, items |-> w.items,
               search |-> w.search, filter |-> w.filter, drawer |-> w.drawer,
               note |-> w.note, timer |-> w.timer, slug |-> w.slug, notice |-> w.notice,
               late |-> w.late]
      BY <3>1, ViewIs DEF ConsoleInv
    <3>3. DOMAIN w = {"loading", "error", "items", "search", "filter", "drawer", "note",
                      "timer", "slug", "notice", "late"}
      BY <3>2
    <3>4. DOMAIN FreshView("login") = {"loading", "error", "items", "search", "filter", "drawer",
                                       "note", "timer", "slug", "notice", "late"}
      BY DEF FreshView
    <3> QED BY <3>1, <3>3, <3>4
  <2>2. DOMAIN view.items \subseteq IF page = "clients" THEN Clients ELSE Bookings
    BY DEF ConsoleInv, ScreenInv, ScreenTypes, ViewOK, ItemsOf
  <2>3. \A i \in DOMAIN net : /\ net[i].answer.result \in Results
                              /\ net[i].phase \in {"sent", "admitted", "answered"}
                              /\ net[i].who \in Providers \cup {None}
    BY DEF ConsoleInv, ScreenInv, ScreenTypes, NetOK, RequestOK, AnswerOK
  <2>4. page \in Pages /\ \A b \in Bookings : bookings[b].version >= FirstVersion[b]
    BY DEF ConsoleInv, ScreenInv, ScreenTypes, BookingsOK
  <2> QED BY <2>1, <2>2, <2>3, <2>4 DEF TypeOK, ConsoleInv, SessionTypes, RowTypes
<1> QED BY <1>1, ConsoleHolds, PTL

\* A page that says it is loading has a request under way that will end it,
\* after any number of filters, failures, mounts and answers.
THEOREM LoadingPagesWait == Spec => []LoadingHasRequest
<1>1. ConsoleInv => LoadingHasRequest BY DEF ConsoleInv, ScreenInv
<1> QED BY <1>1, ConsoleHolds, PTL

\* A page told that its action was carried out does not rest on a list in which
\* the booking is still active, unless somebody reopened the booking or a later
\* load's answer came first.
THEOREM OwnActionsAreShown == Spec => []OwnActionShown
<1>1. ConsoleInv => OwnActionShown
  <2> SUFFICES ASSUME ConsoleInv, Ready, ~view.late, \A i \in DOMAIN net : net[i].kind # "list",
                      NEW b \in mine \cap DOMAIN Shown, b \notin reopened
               PROVE  Shown[b] \notin Active
    BY DEF OwnActionShown, Active
  <2>1. ~Stale(view.items)
    BY DEF ConsoleInv, ScreenInv, StaleIsOvertaken, FreshLoad, Ready
  <2>2. \A c \in DOMAIN view.items : c = b => view.items[c] \notin Active
    BY <2>1 DEF Stale
  <2>3. CASE Shown \in {view.items, Nothing}
    <3>1. DOMAIN Nothing = {} BY DEF Nothing
    <3> QED BY <2>2, <2>3, <3>1
  <2>4. CASE Shown = ScheduleRows
    <3>1. Shown = [c \in DOMAIN view.items |->
                     IF view.items[c] \in {"booked", "confirmed"} THEN "upcoming"
                     ELSE view.items[c]]
      BY <2>4 DEF ScheduleRows
    <3> QED BY <2>2, <3>1 DEF Active
  <2>5. CASE \E S \in SUBSET DOMAIN view.items : Shown = [c \in S |-> view.items[c]]
    BY <2>2, <2>5
  <2>6. BookingCards = Nothing \/ \E S \in SUBSET DOMAIN view.items :
                                    BookingCards = [c \in S |-> view.items[c]]
    BY DEF BookingCards
  <2>7. \E S \in SUBSET DOMAIN view.items : ClientCards = [c \in S |-> view.items[c]]
    BY DEF ClientCards
  <2>8. \/ Shown \in {AppointmentRows, CalendarEntries, Nothing}
        \/ Shown = ScheduleRows \/ Shown = BookingCards \/ Shown = ClientCards
    BY DEF Shown
  <2>9. AppointmentRows = view.items /\ CalendarEntries = view.items
    BY DEF AppointmentRows, CalendarEntries
  <2> QED BY <2>3, <2>4, <2>5, <2>6, <2>7, <2>8, <2>9
<1> QED BY <1>1, ConsoleHolds, PTL
=============================================================================
