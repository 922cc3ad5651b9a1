---------------------------- MODULE Sessions_proofs ----------------------------
(***************************************************************************)
(* Theorems about Sessions for every value of its constants: any number of *)
(* tabs, requests, pairs of tokens and mishaps.                            *)
(***************************************************************************)
EXTENDS Sessions, FiniteSetTheorems, SequenceTheorems, TLAPS

-----------------------------------------------------------------------------
(* Shapes: what the variables look like, beyond TypeOK.                     *)

Clears == {"logout", "refused", "rejected", "dropped"}

\* A finished refresh that is being stored, or has failed and is cleaned up.
EndsRefresh == {"refreshed", "refused"}

Ops == [pair : 0..pairs, next : {"login", "refreshed"} \cup Clears, who : SUBSET Slots,
        half : BOOLEAN]

Calls == [old : 1..pairs, new : 0..pairs, st : {"asked", "checked", "refused", "granted"},
          tab : OwnTabs \cup {0}]

Rows == [st : {"idle", "sent", "refreshing", "dropping"}, tok : 0..pairs, tab : Tabs,
         again : BOOLEAN]

\* A call that was answered holds a token the server honours no more.
CallOK(c) ==
    /\ c \in Calls
    /\ (c.st = "granted") = (c.new # 0)
    /\ c.st \in {"refused", "granted"} => c.tab # 0 /\ c.old \notin live

\* The storage call i clears exactly if its caller says so; only the first has
\* begun, and then it has written the first key.
OpOK(i) ==
    /\ (writes[i].pair = 0) = (writes[i].next \in Clears)
    /\ writes[i].half => i = 1 /\ disk.access = writes[i].pair

\* A tab that is off has no requests and no refresh, an app then nothing in
\* memory either; the login page is shown until the tokens are stored.
PageOK ==
    /\ \A t \in Tabs : page[t] = "off" =>
          /\ \A c \in calls : c.tab # t
          /\ \A s \in Slots : req[s].tab = t => req[s].st = "idle"
    /\ kind # "admin" /\ page[1] = "off" => mem = NoTokens /\ writes = <<>>
    /\ kind # "admin" /\ page[1] # "off" /\ writes = <<>> => mem = disk
    /\ SigningIn => page[1] = "login"

CallsOK == \A c \in calls : CallOK(c)

WritesOK ==
    /\ writes \in Seq(Ops)
    /\ \A i \in DOMAIN writes : OpOK(i)
    /\ kind = "admin" => writes = <<>>
    /\ \A i, j \in DOMAIN writes : writes[i].next = "login" /\ writes[j].next = "login" => i = j

ReqsOK == \A s \in Slots : req[s].tab \in OwnTabs

\* A tab of the admin web that refreshes waits for a call.
AdminFlight == kind = "admin" => \A t \in Tabs : flight[t] => \E c \in calls : c.tab = t

Shapes == TypeOK /\ CallsOK /\ WritesOK /\ ReqsOK /\ PageOK

-----------------------------------------------------------------------------
(* The refresh of a tab.                                                    *)

\* The flag of an app stands for a refresh, or for one whose loser clears up.
FlightMeans ==
    kind # "admin" /\ flight[1] => Pending(1) \/ \E i \in DOMAIN writes : writes[i].next = "rejected"

OneRefresh ==
    /\ \A c \in calls : c.tab # 0 => flight[c.tab]
    /\ \A c, d \in calls : c.tab = d.tab /\ c.tab # 0 => c = d
    /\ \A i \in DOMAIN writes : writes[i].next \in EndsRefresh =>
          flight[1] /\ \A c \in calls : c.tab # 1
    /\ \A i, j \in DOMAIN writes :
          writes[i].next \in EndsRefresh /\ writes[j].next \in EndsRefresh => i = j

-----------------------------------------------------------------------------
(* After a sign-out.                                                        *)

SignedOut ==
    left = "clean" =>
       /\ \A c \in calls : c.tab = 0
       /\ \A i \in DOMAIN writes : writes[i].next \in Clears \ {"refused"}
       /\ ~SigningOut => disk = NoTokens /\ (kind = "admin" \/ mem = NoTokens)

-----------------------------------------------------------------------------
(* The session of an app.                                                   *)

\* Pairs under way to the client are known to nobody else.
NewPairs ==
    kind # "admin" =>
       /\ \A i \in DOMAIN writes : writes[i].pair # 0 =>
             /\ writes[i].pair # mem.refresh
             /\ \A c \in calls : c.old # writes[i].pair /\ c.new # writes[i].pair
             /\ \A j \in DOMAIN writes : writes[j].pair = writes[i].pair => i = j
       /\ \A c \in calls : c.st = "granted" =>
             /\ c.new # mem.refresh
             /\ \A d \in calls : d.old # c.new /\ (d.new = c.new => c = d)

\* A tab waits for the answer that brings the pair last issued.
Arriving == \E c \in calls : c.st = "granted" /\ c.new = mine

Last == writes[Len(writes)]

\* What the client holds once everything is stored.
Final ==
    CASE kind = "admin" -> disk.refresh
      [] kind # "admin" /\ writes # <<>> -> Last.pair
      [] kind # "admin" /\ writes = <<>> /\ page[1] = "off" -> disk.refresh
      [] OTHER -> mem.refresh

\* Refreshes of the token held now.
Current == {c \in calls : c.tab # 0 /\ c.old = mem.refresh}

\* What is being stored in an undisturbed session: the login, last; nothing;
\* the answer of the one refresh; or the ends of a session that is over.
Undisturbed ==
    /\ SigningIn => Last.next = "login"
    /\ ~SigningIn /\ writes # <<>> =>
          \/ /\ Len(writes) = 1 /\ Last.next = "refreshed"
             /\ flight[1] /\ Current = {} /\ mem.refresh # 0
          \/ /\ Len(writes) = 1 /\ Last.next = "refused"
             /\ flight[1] /\ Current = {}
          \/ /\ \A i \in DOMAIN writes : writes[i].pair = 0
             /\ mem.refresh = 0
    /\ writes = <<>> => \A c, d \in Current : c = d /\ flight[1]

SessionHeld ==
    ~hurt => /\ kind # "admin" => Undisturbed
             /\ mine \in live => Final = mine \/ Arriving

-----------------------------------------------------------------------------
(* Sequences of storage calls.                                              *)

LEMMA AppendFacts ==
    ASSUME NEW S, NEW s \in Seq(S), NEW e
    PROVE  /\ Len(Append(s, e)) = Len(s) + 1 /\ Len(s) \in Nat
           /\ DOMAIN Append(s, e) = 1 .. Len(s) + 1 /\ DOMAIN s = 1 .. Len(s)
           /\ \A i \in 1 .. Len(s) : Append(s, e)[i] = s[i]
           /\ Append(s, e)[Len(s) + 1] = e
           /\ e \in S => Append(s, e) \in Seq(S)
           /\ Append(s, e) # <<>>
  OBVIOUS

LEMMA TailFacts ==
    ASSUME NEW S, NEW s \in Seq(S), s # <<>>
    PROVE  /\ Len(s) \in Nat \ {0} /\ Head(s) = s[1] /\ Head(s) \in S
           /\ Tail(s) \in Seq(S) /\ Len(Tail(s)) = Len(s) - 1
           /\ DOMAIN Tail(s) = 1 .. Len(s) - 1 /\ DOMAIN s = 1 .. Len(s)
           /\ \A i \in 1 .. Len(s) - 1 : Tail(s)[i] = s[i + 1]
           /\ (Tail(s) = <<>>) = (Len(s) = 1)
  <1>1. Len(s) \in Nat \ {0} /\ DOMAIN s = 1 .. Len(s)
    BY EmptySeq, LenProperties
  <1>2. /\ Head(s) \in S /\ Tail(s) \in Seq(S) /\ Len(Tail(s)) = Len(s) - 1
        /\ \A i \in 1 .. Len(s) - 1 : Tail(s)[i] = s[i + 1]
    BY HeadTailProperties
  <1>3. DOMAIN Tail(s) = 1 .. Len(s) - 1
    BY <1>2, LenProperties
  <1>4. (Tail(s) = <<>>) = (Len(s) = 1)
    <2>1. Tail(s) = <<>> <=> Len(Tail(s)) = 0
      BY <1>2, EmptySeq
    <2> QED
      BY <1>1, <1>2, <2>1
  <1>5. Head(s) = s[1]
    OBVIOUS
  <1> QED
    BY <1>1, <1>2, <1>3, <1>4, <1>5

LEMMA BeginFacts ==
    ASSUME NEW s \in Seq(Ops), s # <<>>, NEW u, u = [s EXCEPT ![1].half = TRUE]
    PROVE  /\ u \in Seq(Ops) /\ Len(u) = Len(s) /\ DOMAIN u = DOMAIN s
           /\ \A i \in DOMAIN s : i # 1 => u[i] = s[i]
           /\ u[1] = [s[1] EXCEPT !.half = TRUE]
           /\ 1 \in DOMAIN s
  <1>1. 1 \in 1 .. Len(s) /\ s[1] \in Ops /\ DOMAIN s = 1 .. Len(s)
    BY TailFacts
  <1>2. PICK e : e = [s[1] EXCEPT !.half = TRUE]
    OBVIOUS
  <1>3. e \in Ops
    BY <1>1, <1>2 DEF Ops
  <1>4. u = [s EXCEPT ![1] = e]
    BY <1>2
  <1>5. /\ u \in Seq(Ops) /\ Len(u) = Len(s)
        /\ \A j \in 1 .. Len(s) : u[j] = IF j = 1 THEN e ELSE s[j]
    <2>1. s \in [1 .. Len(s) -> Ops] /\ Len(s) \in Nat
      BY LenProperties
    <2>2. u \in [1 .. Len(s) -> Ops]
      BY <1>1, <1>3, <1>4, <2>1
    <2>3. u \in Seq(Ops)
      BY <2>1, <2>2
    <2>4. DOMAIN u = 1 .. Len(u) /\ Len(u) \in Nat
      BY <2>3, LenProperties
    <2>5. Len(u) = Len(s)
      BY <2>1, <2>2, <2>4
    <2> QED
      BY <1>1, <1>4, <2>3, <2>5
  <1> QED
    BY <1>1, <1>2, <1>5, LenProperties

LEMMA MoreOps == ASSUME pairs \in Nat, pairs' \in Nat, pairs <= pairs'
                 PROVE  Ops \subseteq Ops' /\ Seq(Ops) \subseteq Seq(Ops')
  <1>1. Ops \subseteq Ops'
    BY DEF Ops
  <1> QED
    BY <1>1

-----------------------------------------------------------------------------
(* Shapes, part by part: what leaves a part alone.                          *)

LEMMA CallsStay ==
    ASSUME Shapes, kind' = kind, pairs' \in Nat, pairs <= pairs',
           \A n \in live' \ live : n > pairs,
           \A c \in calls' : c \in calls \/ CallOK(c)'
    PROVE  CallsOK'
  <1> SUFFICES ASSUME NEW c \in calls
               PROVE  CallOK(c)'
    BY DEF CallsOK
  <1>1. CallOK(c) /\ pairs \in Nat
    BY MaxPairsAssumption DEF Shapes, CallsOK, TypeOK
  <1>2. c \in Calls' /\ c.old <= pairs
    BY <1>1 DEF CallOK, Calls, OwnTabs
  <1>3. c.old \in Int
    BY <1>1 DEF CallOK, Calls
  <1> QED
    BY <1>1, <1>2, <1>3 DEF CallOK

LEMMA WritesStay ==
    ASSUME Shapes, kind' = kind, pairs' \in Nat, pairs <= pairs', writes' = writes,
           kind = "admin" \/ disk' = disk
    PROVE  WritesOK'
  <1>1. pairs \in Nat
    BY MaxPairsAssumption DEF Shapes, TypeOK
  <1>2. writes \in Seq(Ops')
    BY <1>1, MoreOps DEF Shapes, WritesOK
  <1>3. \A i \in DOMAIN writes : OpOK(i)'
    BY DEF Shapes, WritesOK, OpOK
  <1> QED
    BY <1>2, <1>3 DEF Shapes, WritesOK

LEMMA WritesQueue ==
    ASSUME Shapes, kind' = kind, kind # "admin", pairs' \in Nat, pairs <= pairs', disk' = disk,
           NEW op \in Ops', writes' = Append(writes, op), ~op.half,
           (op.pair = 0) = (op.next \in Clears), op.next = "login" => ~SigningIn
    PROVE  WritesOK'
  <1>1. pairs \in Nat
    BY MaxPairsAssumption DEF Shapes, TypeOK
  <1>2. writes \in Seq(Ops')
    BY <1>1, MoreOps DEF Shapes, WritesOK
  <1>3. /\ writes' \in Seq(Ops') /\ DOMAIN writes' = 1 .. Len(writes) + 1
        /\ DOMAIN writes = 1 .. Len(writes) /\ Len(writes) \in Nat
        /\ \A i \in 1 .. Len(writes) : writes'[i] = writes[i]
        /\ writes'[Len(writes) + 1] = op
    BY <1>2, AppendFacts
  <1>4. ASSUME NEW i \in DOMAIN writes'
        PROVE  OpOK(i)'
    <2>1. CASE i \in DOMAIN writes
      BY <1>3, <2>1 DEF Shapes, WritesOK, OpOK
    <2>2. CASE i \notin DOMAIN writes
      BY <1>3, <2>2 DEF OpOK
    <2> QED
      BY <2>1, <2>2
  <1>5. \A i \in 1 .. Len(writes) : writes[i].next = "login" => SigningIn
    BY <1>3 DEF SigningIn
  <1>6. \A i, j \in DOMAIN writes' : writes'[i].next = "login" /\ writes'[j].next = "login" => i = j
    BY <1>3, <1>5 DEF Shapes, WritesOK
  <1> QED
    BY <1>3, <1>4, <1>6 DEF WritesOK

LEMMA WritesBegin ==
    ASSUME Shapes, WriteAccess
    PROVE  /\ WritesOK' /\ Len(writes') = Len(writes) /\ DOMAIN writes' = DOMAIN writes
           /\ \A i \in DOMAIN writes : /\ writes'[i].next = writes[i].next
                                       /\ writes'[i].pair = writes[i].pair
                                       /\ writes'[i].who = writes[i].who
           /\ disk.refresh = disk'.refresh /\ disk'.access \in 0 .. pairs
           /\ writes # <<>> /\ writes' # <<>>
  <1>1. /\ writes \in Seq(Ops) /\ writes # <<>> /\ writes' = [writes EXCEPT ![1].half = TRUE]
        /\ disk' = [disk EXCEPT !.access = Head(writes).pair]
        /\ kind' = kind /\ pairs' = pairs /\ Ops' = Ops
    BY DEF WriteAccess, server, Shapes, WritesOK, Ops
  <1>2. /\ writes' \in Seq(Ops) /\ Len(writes') = Len(writes) /\ DOMAIN writes' = DOMAIN writes
        /\ \A i \in DOMAIN writes : i # 1 => writes'[i] = writes[i]
        /\ writes'[1] = [writes[1] EXCEPT !.half = TRUE]
        /\ 1 \in DOMAIN writes
    BY <1>1, BeginFacts
  <1>3. Head(writes) = writes[1] /\ \A i \in DOMAIN writes : writes[i] \in Ops
    BY <1>1, TailFacts, ElementOfSeq
  <1>4. \A i \in DOMAIN writes : /\ writes'[i].next = writes[i].next
                                 /\ writes'[i].pair = writes[i].pair
                                 /\ writes'[i].who = writes[i].who
    BY <1>2, <1>3 DEF Ops
  <1>5. disk'.access = writes[1].pair /\ disk'.refresh = disk.refresh
    BY <1>1, <1>3 DEF Shapes, TypeOK
  <1>6. \A i \in DOMAIN writes : OpOK(i)'
    BY <1>2, <1>4, <1>5 DEF Shapes, WritesOK, OpOK
  <1>7. writes' # <<>>
    BY <1>2
  <1>8. writes[1].pair \in 0 .. pairs
    BY <1>2, <1>3 DEF Ops
  <1> QED
    BY <1>1, <1>2, <1>4, <1>5, <1>6, <1>7, <1>8 DEF Shapes, WritesOK

LEMMA WritesPop ==
    ASSUME Shapes, kind' = kind, pairs' = pairs, writes # <<>>, writes' = Tail(writes)
    PROVE  /\ WritesOK' /\ DOMAIN writes' = 1 .. Len(writes) - 1
           /\ DOMAIN writes = 1 .. Len(writes) /\ Len(writes) \in Nat \ {0}
           /\ \A i \in DOMAIN writes' : i + 1 \in DOMAIN writes /\ writes'[i] = writes[i + 1]
           /\ (writes' = <<>>) = (Len(writes) = 1)
           /\ Len(writes') = Len(writes) - 1
           /\ Head(writes) = writes[1] /\ writes[1] \in Ops
  <1>1. /\ Len(writes) \in Nat \ {0} /\ writes' \in Seq(Ops) /\ Len(writes') = Len(writes) - 1
        /\ DOMAIN writes' = 1 .. Len(writes) - 1 /\ DOMAIN writes = 1 .. Len(writes)
        /\ \A i \in 1 .. Len(writes) - 1 : writes'[i] = writes[i + 1]
        /\ (writes' = <<>>) = (Len(writes) = 1)
        /\ Head(writes) = writes[1] /\ writes[1] \in Ops
    BY TailFacts DEF Shapes, WritesOK
  <1>2. \A i \in DOMAIN writes' : i + 1 \in DOMAIN writes /\ writes'[i] = writes[i + 1] /\ i + 1 # 1
    BY <1>1
  <1>3. \A i \in DOMAIN writes' : OpOK(i)'
    BY <1>2 DEF Shapes, WritesOK, OpOK
  <1>4. \A i, j \in DOMAIN writes' : writes'[i].next = "login" /\ writes'[j].next = "login" => i = j
    <2> SUFFICES ASSUME NEW i \in DOMAIN writes', NEW j \in DOMAIN writes',
                        writes'[i].next = "login", writes'[j].next = "login"
                 PROVE  i = j
      OBVIOUS
    <2>1. i + 1 = j + 1
      BY <1>2 DEF Shapes, WritesOK
    <2> QED
      BY <1>1, <2>1
  <1>5. Ops' = Ops
    BY DEF Ops
  <1>6. kind # "admin"
    BY DEF Shapes, WritesOK
  <1> QED
    BY <1>1, <1>2, <1>3, <1>4, <1>5, <1>6 DEF WritesOK

\* Requests end or change their state, calls lose their tab: pages stay as they are.
LEMMA PageStays ==
    ASSUME Shapes, UNCHANGED <<kind, page, mem, writes>>, kind = "admin" \/ disk' = disk,
           \A c \in calls' : c.tab # 0 =>
              \/ \E d \in calls : d.tab = c.tab
              \/ page[c.tab] # "off",
           \A s \in Slots : \/ req'[s].st = "idle"
                            \/ req'[s].tab = req[s].tab /\ req[s].st # "idle"
                            \/ page[req'[s].tab] # "off"
    PROVE  PageOK'
  BY TabsAssumption DEF Shapes, PageOK, SigningIn

-----------------------------------------------------------------------------
(* Shapes, action by action.                                                *)

LEMMA ShapesInit == Init => Shapes
  <1> SUFFICES ASSUME Init
               PROVE  Shapes
    OBVIOUS
  <1>1. TypeOK
    <2>1. mishaps \in 0 .. MaxMishaps[kind]
      BY MaxMishapsAssumption DEF Init
    <2>2. req \in [Slots -> [st : {"idle", "sent", "refreshing", "dropping"},
                             tok : 0..pairs, tab : Tabs, again : BOOLEAN]]
      BY TabsAssumption DEF Init, Idle
    <2>3. disk \in [access : 0..pairs, refresh : 0..pairs] /\ mem = disk
      BY DEF Init, NoTokens
    <2>4. hurt \in BOOLEAN /\ cut \in BOOLEAN
      BY Zenon DEF Init
    <2> QED
      BY <2>1, <2>2, <2>3, <2>4, MaxPairsAssumption DEF Init, TypeOK
  <1>2. CallsOK /\ ReqsOK /\ PageOK
    BY TabsAssumption DEF Init, CallsOK, ReqsOK, PageOK, SigningIn, OwnTabs, Idle, NoTokens
  <1>3. WritesOK
    BY DEF Init, WritesOK
  <1> QED
    BY <1>1, <1>2, <1>3 DEF Shapes

LEMMA ShapeFacts ==
    ASSUME Shapes
    PROVE  /\ pairs \in Nat /\ kind \in {"buyer", "seller", "admin"} /\ MaxPairs \in Nat
           /\ OwnTabs \subseteq Tabs /\ 0 \notin Tabs /\ 1 \in OwnTabs
           /\ kind # "admin" => OwnTabs = {1}
           /\ Held \in [access : 0..pairs, refresh : 0..pairs]
           /\ \A c \in calls : /\ c.old \in 1 .. pairs /\ c.tab \in OwnTabs \cup {0}
                               /\ c.new \in 0 .. pairs
                               /\ c = [old |-> c.old, new |-> c.new, st |-> c.st, tab |-> c.tab]
                               /\ c.st \in {"asked", "checked", "refused", "granted"}
           /\ \A s \in Slots : req[s].tab \in OwnTabs
  BY MaxPairsAssumption, KindsAssumption, TabsAssumption
  DEF Shapes, TypeOK, Held, OwnTabs, CallsOK, CallOK, Calls, ReqsOK

LEMMA MishapType ==
    ASSUME TypeOK, Mishap, kind' = kind
    PROVE  mishaps' \in 0 .. MaxMishaps[kind]
  <1>1. MaxMishaps[kind] \in Nat
    BY MaxMishapsAssumption DEF TypeOK
  <1> QED
    BY <1>1 DEF TypeOK, Mishap

LEMMA ShapesCheck ==
    ASSUME Shapes, NEW c \in calls, CheckRefresh(c)
    PROVE  Shapes'
  <1> USE DEF CheckRefresh, server, client, history
  <1>1. TypeOK'
    BY DEF Shapes, TypeOK
  <1>2. CallOK(c) /\ c \in Calls
    BY DEF Shapes, CallsOK, CallOK
  <1>3. \A d \in calls' : d \in calls \/ (CallOK(d)' /\ d.tab = c.tab)
    BY <1>2 DEF StillOpen, CallOK, Calls, OwnTabs
  <1>4. kind' = kind /\ pairs' = pairs /\ pairs \in Nat /\ live' = live /\ writes' = writes
        /\ disk' = disk
    BY ShapeFacts
  <1>5. CallsOK'
    BY <1>3, <1>4, CallsStay
  <1>6. WritesOK'
    BY <1>4, WritesStay
  <1>7. PageOK'
    BY <1>3, PageStays DEF Shapes, PageOK
  <1> QED
    BY <1>1, <1>5, <1>6, <1>7 DEF Shapes, ReqsOK, OwnTabs

LEMMA ShapesExchange ==
    ASSUME Shapes, NEW c \in calls, Exchange(c)
    PROVE  Shapes'
  <1> USE DEF Exchange, Issue, MayIssue, client
  <1>1. TypeOK'
    BY MaxPairsAssumption DEF Shapes, TypeOK
  <1>2. CallOK(c) /\ c \in Calls /\ c.old \in 1 .. pairs /\ pairs' = pairs + 1 /\ pairs \in Nat
    BY MaxPairsAssumption DEF Shapes, TypeOK, CallsOK, CallOK, Calls
  <1>3. PICK e : e = [c EXCEPT !.st = "granted", !.new = pairs']
    OBVIOUS
  <1>4. /\ e.st = "granted" /\ e.new = pairs + 1 /\ e.tab = c.tab /\ e.old = c.old
        /\ e \in Calls'
    <2>1. /\ c.old \in 1 .. pairs + 1 /\ c.tab \in OwnTabs \cup {0} /\ pairs + 1 \in 0 .. pairs + 1
          /\ c = [old |-> c.old, new |-> c.new, st |-> c.st, tab |-> c.tab]
      BY <1>2, ShapeFacts
    <2>2. e = [old |-> c.old, new |-> pairs + 1, st |-> "granted", tab |-> c.tab]
      BY <1>2, <1>3, <2>1
    <2>3. OwnTabs' = OwnTabs
      BY DEF OwnTabs
    <2> QED
      BY <1>2, <2>1, <2>2, <2>3 DEF Calls
  <1>5. \A d \in calls' : d \in calls \/ (d = e /\ c.tab # 0)
    BY <1>3, <1>4 DEF StillOpen
  <1>6. c.old \notin live'
    BY <1>2
  <1>7. c.tab # 0 => CallOK(e)'
    BY <1>2, <1>4, <1>6 DEF CallOK
  <1>8. CallsOK'
    BY <1>2, <1>5, <1>7, CallsStay
  <1>9. WritesOK'
    BY <1>2, WritesStay
  <1>10. PageOK'
    BY <1>4, <1>5, PageStays DEF Shapes, PageOK
  <1> QED
    BY <1>1, <1>8, <1>9, <1>10 DEF Shapes, ReqsOK, OwnTabs

LEMMA ShapesForget ==
    ASSUME Shapes, Restart \/ \E p \in 1 .. pairs : Expire(p) \/ Forget(p)
    PROVE  Shapes'
  <1> USE DEF Restart, Expire, Forget, server, client, history
  <1>1. TypeOK'
    BY MishapType DEF Shapes, TypeOK
  <1>2. kind' = kind /\ pairs' = pairs /\ pairs \in Nat /\ live' \subseteq live
        /\ calls' = calls /\ writes' = writes /\ disk' = disk /\ page' = page /\ mem' = mem
        /\ req' = req
    BY ShapeFacts
  <1>3. CallsOK'
    BY <1>2, CallsStay
  <1>4. WritesOK'
    BY <1>2, WritesStay
  <1>5. PageOK'
    BY <1>2 DEF Shapes, PageOK, SigningIn
  <1> QED
    BY <1>1, <1>2, <1>3, <1>4, <1>5 DEF Shapes, ReqsOK, OwnTabs

LEMMA ShapesOpen ==
    ASSUME Shapes, NEW t \in OwnTabs, Open(t)
    PROVE  Shapes'
  <1> USE DEF Open, server, history
  <1>1. TypeOK'
    BY DEF Shapes, TypeOK, EntryPage
  <1>2. kind' = kind /\ pairs' = pairs /\ pairs \in Nat /\ live' = live
        /\ calls' = calls /\ writes' = writes /\ disk' = disk
    BY ShapeFacts
  <1>3. CallsOK'
    BY <1>2, CallsStay
  <1>4. WritesOK'
    BY <1>2, WritesStay
  <1>5. PageOK'
    BY <1>2, ShapeFacts DEF Shapes, TypeOK, PageOK, SigningIn, EntryPage, WritesOK
  <1> QED
    BY <1>1, <1>2, <1>3, <1>4, <1>5 DEF Shapes, ReqsOK, OwnTabs

LEMMA ShapesAdminTab ==
    ASSUME Shapes, NEW t \in OwnTabs,
           AdminLogin(t) \/ LoginRefused(t) \/ AdminLogout(t) \/ Navigate(t)
    PROVE  Shapes'
  <1> USE DEF AdminLogin, SignIn, Issue, MayIssue, LoginRefused, AdminLogout, SignOut, Navigate,
              server, client, history
  <1>1. TypeOK'
    <2>1. hurt' \in BOOLEAN /\ cut' \in BOOLEAN
      BY Zenon DEF Shapes, TypeOK
    <2>2. left' \in {"no", "clean", "loose"}
      BY DEF Shapes, TypeOK, Worse
    <2>3. page' \in [Tabs -> {"off", "login", "inside"}]
      BY ShapeFacts DEF Shapes, TypeOK
    <2>4. CASE AdminLogin(t)
      <3>1. pairs' = pairs + 1 /\ pairs \in Nat /\ pairs' \in 0 .. MaxPairs
        BY <2>4, ShapeFacts DEF Shapes, TypeOK
      <3>2. disk' \in [access : 0..pairs', refresh : 0..pairs'] /\ mine' \in 0 .. pairs'
        BY <2>4, <3>1 DEF Pair
      <3>3. live' \subseteq 1 .. pairs' /\ stale' \subseteq 1 .. pairs'
        BY <2>4, <3>1 DEF Shapes, TypeOK
      <3>4. mem' \in [access : 0..pairs', refresh : 0..pairs']
        BY <2>4, <3>1 DEF Shapes, TypeOK
      <3>5. req' \in [Slots -> [st : {"idle", "sent", "refreshing", "dropping"},
                                tok : 0..pairs', tab : Tabs, again : BOOLEAN]]
        BY <2>4, <3>1 DEF Shapes, TypeOK
      <3>6. flight' \in [Tabs -> BOOLEAN] /\ kind' \in Kinds /\ mishaps' \in 0 .. MaxMishaps[kind]'
        BY <2>4 DEF Shapes, TypeOK
      <3> QED
        BY <2>1, <2>2, <2>3, <3>1, <3>2, <3>3, <3>4, <3>5, <3>6 DEF TypeOK
    <2>5. CASE LoginRefused(t) \/ AdminLogout(t) \/ Navigate(t)
      <3>1. disk' \in [access : 0..pairs, refresh : 0..pairs] /\ pairs' = pairs
        BY <2>5, ShapeFacts DEF Shapes, TypeOK, NoTokens
      <3> QED
        BY <2>1, <2>2, <2>3, <2>5, <3>1 DEF Shapes, TypeOK
    <2> QED
      BY <2>4, <2>5
  <1>2. kind = "admin" /\ kind' = kind /\ pairs' \in Nat /\ pairs <= pairs' /\ pairs \in Nat
        /\ calls' = calls /\ writes' = writes /\ req' = req /\ mem' = mem
        /\ \A n \in live' \ live : n > pairs
    BY ShapeFacts
  <1>3. CallsOK'
    BY <1>2, CallsStay
  <1>4. WritesOK'
    BY <1>2, WritesStay
  <1>5. PageOK'
    BY <1>2 DEF Shapes, TypeOK, PageOK, SigningIn, WritesOK
  <1> QED
    BY <1>1, <1>2, <1>3, <1>4, <1>5 DEF Shapes, ReqsOK, OwnTabs

LEMMA ShapesSend ==
    ASSUME Shapes, NEW t \in OwnTabs, NEW s \in Slots, Send(s, t) \/ Answered(s)
    PROVE  Shapes'
  <1> USE DEF Send, Answered, server, history
  <1>1. PICK row \in Rows :
           /\ req' = [req EXCEPT ![s] = row] /\ row.tab \in OwnTabs
           /\ row.st = "idle" \/ (row.tab = t /\ page[t] # "off")
    <2>1. Held.access \in 0 .. pairs /\ t \in Tabs /\ 1 \in OwnTabs /\ 1 \in Tabs /\ 0 \in 0 .. pairs
      BY ShapeFacts
    <2>2. CASE Send(s, t)
      <3>1. PICK r1 : r1 = [st |-> "sent", tok |-> Held.access, tab |-> t, again |-> FALSE]
        OBVIOUS
      <3>2. req' = [req EXCEPT ![s] = r1]
        BY <2>2, <3>1 DEF Idle
      <3>3. r1 \in Rows /\ r1.tab = t
        BY <2>1, <3>1 DEF Rows
      <3>4. page[t] # "off"
        BY <2>2
      <3> QED
        BY <3>2, <3>3, <3>4
    <2>3. CASE Answered(s)
      <3>1. Idle \in Rows /\ Idle.tab = 1 /\ Idle.st = "idle"
        BY <2>1 DEF Idle, Rows
      <3> QED
        BY <2>1, <2>3, <3>1
    <2> QED
      BY <2>2, <2>3
  <1>2. TypeOK'
    <2>1. req' \in [Slots -> Rows]
      BY <1>1 DEF Shapes, TypeOK, Rows
    <2> QED
      BY <2>1 DEF Shapes, TypeOK, Rows
  <1>3. kind' = kind /\ pairs' = pairs /\ pairs \in Nat /\ live' = live
        /\ calls' = calls /\ writes' = writes /\ disk' = disk /\ page' = page /\ mem' = mem
        /\ OwnTabs' = OwnTabs
    BY ShapeFacts DEF OwnTabs
  <1>4. CallsOK' /\ WritesOK'
    BY <1>3, CallsStay, WritesStay
  <1>5. \A u \in Slots : req'[u] = req[u] \/ req'[u] = row
    BY <1>1 DEF Shapes, TypeOK
  <1>6. ReqsOK'
    BY <1>1, <1>3, <1>5 DEF Shapes, ReqsOK
  <1>7. PageOK'
    BY <1>1, <1>3, <1>5, PageStays DEF Shapes, PageOK
  <1> QED
    BY <1>2, <1>4, <1>6, <1>7 DEF Shapes

LEMMA ShapesKill ==
    ASSUME Shapes, NEW t \in OwnTabs, Kill(t)
    PROVE  Shapes'
  <1>1. TypeOK'
    <2>1. hurt' \in BOOLEAN /\ left' \in {"no", "clean", "loose"}
      BY DEF Kill, Shapes, TypeOK
    <2>2. mishaps' \in 0 .. MaxMishaps[kind]
      BY MishapType DEF Kill, Shapes
    <2>3. req' \in [Slots -> Rows]
      <3>1. Idle \in Rows
        BY ShapeFacts DEF Idle, Rows
      <3>2. req \in [Slots -> Rows]
        BY DEF Shapes, TypeOK, Rows
      <3> QED
        BY <3>1, <3>2 DEF Kill
    <2>4. mem' \in [access : 0..pairs, refresh : 0..pairs]
      BY ShapeFacts DEF Kill, NoTokens
    <2>5. page' \in [Tabs -> {"off", "login", "inside"}] /\ flight' \in [Tabs -> BOOLEAN]
      BY DEF Kill, Shapes, TypeOK
    <2>6. UNCHANGED <<kind, live, stale, pairs, disk, mine, cut>>
      BY DEF Kill, server
    <2> QED
      BY <2>1, <2>2, <2>3, <2>4, <2>5, <2>6 DEF Shapes, TypeOK, Rows
  <1>2. kind' = kind /\ pairs' = pairs /\ pairs \in Nat /\ live' = live /\ disk' = disk
        /\ page' = [page EXCEPT ![t] = "off"] /\ mem' = NoTokens /\ writes' = <<>>
        /\ OwnTabs' = OwnTabs
    BY ShapeFacts DEF OwnTabs, Kill, server
  <1>3. \A d \in calls' : (d \in calls /\ d.tab # t) \/ (CallOK(d)' /\ d.tab = 0)
    <2> SUFFICES ASSUME NEW c \in calls,
                        NEW d \in StillOpen(IF c.tab = t THEN [c EXCEPT !.tab = 0] ELSE c)
                 PROVE  (d \in calls /\ d.tab # t) \/ (CallOK(d)' /\ d.tab = 0)
      BY DEF Kill
    <2>1. CASE c.tab # t
      BY <2>1 DEF StillOpen
    <2>2. CASE c.tab = t
      <3>1. CallOK(c) /\ c \in Calls /\ Calls' = Calls
        BY <1>2 DEF Shapes, CallsOK, CallOK, Calls
      <3>2. d = [c EXCEPT !.tab = 0] /\ d.st \notin {"refused", "granted"}
        BY <2>2, <3>1 DEF StillOpen, Calls
      <3> QED
        BY <1>2, <3>1, <3>2 DEF CallOK, Calls
    <2> QED
      BY <2>1, <2>2
  <1>4. CallsOK'
    BY <1>2, <1>3, CallsStay
  <1>5. WritesOK'
    BY <1>2 DEF WritesOK
  <1>6. ReqsOK' /\ \A u \in Slots : \/ req'[u].st = "idle"
                                    \/ req'[u] = req[u] /\ req[u].tab # t
    BY <1>2, ShapeFacts DEF Kill, Idle, ReqsOK
  <1>7. PageOK'
    <2>1. \A u \in Tabs : page'[u] = "off" => u = t \/ page[u] = "off"
      BY <1>2 DEF Shapes, TypeOK
    <2>2. \A u \in Tabs : page'[u] = "off" => \A c \in calls' : c.tab # u
      BY <1>3, <2>1, ShapeFacts DEF Shapes, PageOK
    <2>3. \A u \in Tabs : page'[u] = "off" =>
              \A s \in Slots : req'[s].tab = u => req'[s].st = "idle"
      BY <1>6, <2>1 DEF Shapes, PageOK
    <2>4. kind # "admin" => page'[1] = "off"
      BY <1>2, ShapeFacts DEF Shapes, TypeOK
    <2> QED
      BY <1>2, <2>2, <2>3, <2>4 DEF PageOK, SigningIn
  <1> QED
    BY <1>1, <1>4, <1>5, <1>6, <1>7 DEF Shapes

-----------------------------------------------------------------------------
(* Requests resent, rejected and kept waiting.                              *)

\* No request begins.
Continues(r) == \A s \in Slots : \/ r[s].st = "idle"
                                 \/ r[s].tab = req[s].tab /\ req[s].st # "idle"
                                 \/ r[s] = req[s]

LEMMA IdleRow == Shapes => Idle \in Rows /\ Idle.st = "idle" /\ Idle.tab \in OwnTabs
  BY ShapeFacts DEF Rows, Idle

LEMMA RejectedFacts ==
    ASSUME Shapes, NEW S \in SUBSET Slots,
           NEW r, r = [s \in Slots |-> IF s \in S THEN Idle ELSE req[s]]
    PROVE  r \in [Slots -> Rows] /\ Continues(r) /\ \A s \in Slots : r[s].tab \in OwnTabs
  <1>1. req \in [Slots -> Rows] /\ Idle \in Rows /\ Idle.st = "idle" /\ Idle.tab \in OwnTabs
    BY IdleRow DEF Shapes, TypeOK, Rows
  <1> QED
    BY <1>1 DEF Continues, Shapes, ReqsOK

LEMMA DroppingFacts ==
    ASSUME Shapes, NEW S \in SUBSET Slots, \A s \in S : req[s].st # "idle"
    PROVE  /\ Dropping(S) \in [Slots -> Rows] /\ Continues(Dropping(S))
           /\ \A s \in Slots : Dropping(S)[s].tab \in OwnTabs
  <1>1. req \in [Slots -> Rows]
    BY DEF Shapes, TypeOK, Rows
  <1>2. \A s \in Slots : /\ [req[s] EXCEPT !.st = "dropping"] \in Rows
                         /\ [req[s] EXCEPT !.st = "dropping"].tab = req[s].tab
    BY <1>1 DEF Rows
  <1> QED
    BY <1>1, <1>2 DEF Dropping, Continues, Shapes, ReqsOK

LEMMA ResentFacts ==
    ASSUME Shapes, NEW t, NEW n \in 0 .. pairs
    PROVE  /\ Resent(t, n) \in [Slots -> Rows] /\ Continues(Resent(t, n))
           /\ \A s \in Slots : Resent(t, n)[s].tab \in OwnTabs
  <1>1. req \in [Slots -> Rows] /\ (kind = "admin") \in BOOLEAN
    BY DEF Shapes, TypeOK, Rows
  <1>2. ASSUME NEW s \in Slots, NEW e,
               e = [req[s] EXCEPT !.st = "sent", !.tok = n, !.again = (kind = "admin")]
        PROVE  e \in Rows /\ e.tab = req[s].tab
    BY <1>1, <1>2 DEF Rows
  <1>3. \A s \in Waiters(t) : req[s].st = "refreshing"
    BY DEF Waiters
  <1>4. \A s \in Slots : \/ Resent(t, n)[s] = req[s]
                         \/ /\ s \in Waiters(t) /\ Resent(t, n)[s] \in Rows
                            /\ Resent(t, n)[s].tab = req[s].tab
    BY <1>2 DEF Resent
  <1>5. DOMAIN Resent(t, n) = Slots /\ Resent(t, n) = [s \in Slots |-> Resent(t, n)[s]]
    BY DEF Resent
  <1> QED
    BY <1>1, <1>3, <1>4, <1>5 DEF Continues, Shapes, ReqsOK

LEMMA WaitingRow ==
    ASSUME Shapes, NEW s \in Slots, req[s].st # "idle"
    PROVE  /\ [req EXCEPT ![s].st = "refreshing"] \in [Slots -> Rows]
           /\ Continues([req EXCEPT ![s].st = "refreshing"])
           /\ \A u \in Slots : [req EXCEPT ![s].st = "refreshing"][u].tab \in OwnTabs
  <1>1. req \in [Slots -> Rows]
    BY DEF Shapes, TypeOK, Rows
  <1>2. [req EXCEPT ![s].st = "refreshing"] = [req EXCEPT ![s] = [req[s] EXCEPT !.st = "refreshing"]]
    OBVIOUS
  <1>3. /\ [req[s] EXCEPT !.st = "refreshing"] \in Rows
        /\ [req[s] EXCEPT !.st = "refreshing"].tab = req[s].tab
    BY <1>1 DEF Rows
  <1> QED
    BY <1>1, <1>2, <1>3 DEF Continues, Shapes, ReqsOK

LEMMA IdleAgain ==
    ASSUME Shapes, NEW s \in Slots
    PROVE  /\ [req EXCEPT ![s] = Idle] \in [Slots -> Rows]
           /\ Continues([req EXCEPT ![s] = Idle])
           /\ \A u \in Slots : [req EXCEPT ![s] = Idle][u].tab \in OwnTabs
  <1>1. req \in [Slots -> Rows]
    BY DEF Shapes, TypeOK, Rows
  <1> QED
    BY <1>1, IdleRow DEF Continues, Shapes, ReqsOK

\* A storage call is queued while the page is shown.
LEMMA PageQueues ==
    ASSUME Shapes, UNCHANGED <<kind, page, mem, disk>>, NEW op \in Ops', Continues(req'),
           kind # "admin", pairs' \in Nat, pairs <= pairs',
           writes' = Append(writes, op), page[1] # "off",
           op.next = "login" => page[1] = "login",
           \A c \in calls' : c.tab \in {0, 1}
    PROVE  PageOK'
  <1>1. pairs \in Nat /\ 0 \notin Tabs
    BY ShapeFacts
  <1>2. writes \in Seq(Ops')
    BY <1>1, MoreOps DEF Shapes, WritesOK
  <1>3. /\ writes' # <<>> /\ DOMAIN writes' = 1 .. Len(writes) + 1
        /\ DOMAIN writes = 1 .. Len(writes) /\ Len(writes) \in Nat
        /\ \A i \in 1 .. Len(writes) : writes'[i] = writes[i]
        /\ writes'[Len(writes) + 1] = op
    BY <1>2, AppendFacts
  <1>4. SigningIn' => page[1] = "login"
    BY <1>3 DEF SigningIn, Shapes, PageOK
  <1>5. ASSUME NEW t \in Tabs, page[t] = "off"
        PROVE  /\ \A c \in calls' : c.tab # t
               /\ \A s \in Slots : req'[s].tab = t => req'[s].st = "idle"
    BY <1>1, <1>5 DEF Shapes, PageOK, Continues
  <1> QED
    BY <1>3, <1>4, <1>5 DEF PageOK

LEMMA QueueShapes ==
    ASSUME Shapes, UNCHANGED <<kind, page, mem, disk, stale, mishaps, flight>>, NEW op \in Ops',
           kind # "admin", pairs' \in 0 .. MaxPairs, pairs <= pairs',
           live' \subseteq 1 .. pairs', \A n \in live' \ live : n > pairs,
           req' \in [Slots -> Rows], Continues(req'), \A s \in Slots : req'[s].tab \in OwnTabs,
           writes' = Append(writes, op), page[1] # "off", ~op.half,
           (op.pair = 0) = (op.next \in Clears),
           op.next = "login" => page[1] = "login" /\ ~SigningIn,
           \A c \in calls' : c \in calls \/ CallOK(c)',
           mine' \in 0 .. pairs', left' \in {"no", "clean", "loose"}, hurt' \in BOOLEAN,
           cut' \in BOOLEAN
    PROVE  Shapes'
  <1>1. pairs \in Nat /\ pairs' \in Nat /\ OwnTabs = {1} /\ OwnTabs' = {1}
    BY ShapeFacts DEF OwnTabs
  <1>2. TypeOK'
    <2>1. disk' \in [access : 0..pairs', refresh : 0..pairs'] /\ stale' \subseteq 1 .. pairs'
      BY <1>1 DEF Shapes, TypeOK
    <2>2. mem' \in [access : 0..pairs', refresh : 0..pairs']
      BY <1>1 DEF Shapes, TypeOK
    <2>3. Rows \subseteq Rows'
      BY <1>1 DEF Rows
    <2>4. req' \in [Slots -> Rows']
      BY <2>3
    <2> QED
      BY <2>1, <2>2, <2>4 DEF Shapes, TypeOK, Rows
  <1>3. CallsOK'
    BY <1>1, CallsStay
  <1>4. WritesOK'
    BY <1>1, WritesQueue
  <1>5. \A c \in calls' : c.tab \in {0, 1}
    BY <1>1 DEF CallOK, Calls, Shapes, CallsOK
  <1>6. PageOK'
    BY <1>1, <1>5, PageQueues
  <1> QED
    BY <1>1, <1>2, <1>3, <1>4, <1>6 DEF Shapes, ReqsOK

\* The store is left alone: requests go on, and the calls are good ones.
LEMMA RequestShapes ==
    ASSUME Shapes, UNCHANGED <<kind, server, mem, disk, page, writes, mishaps>>,
           req' \in [Slots -> Rows], Continues(req'), \A s \in Slots : req'[s].tab \in OwnTabs,
           \A c \in calls' : c \in calls \/ (CallOK(c)' /\ (c.tab = 0 \/ page[c.tab] # "off")),
           flight' \in [Tabs -> BOOLEAN],
           mine' \in 0 .. pairs', left' \in {"no", "clean", "loose"}, hurt' \in BOOLEAN,
           cut' \in BOOLEAN
    PROVE  Shapes'
  <1> USE DEF server
  <1>1. pairs \in Nat /\ kind' = kind /\ pairs' = pairs /\ live' = live /\ OwnTabs' = OwnTabs
        /\ writes' = writes /\ disk' = disk
    BY ShapeFacts DEF OwnTabs
  <1>2. TypeOK'
    BY DEF Shapes, TypeOK, Rows
  <1>3. CallsOK'
    BY <1>1, CallsStay
  <1>4. WritesOK'
    BY <1>1, WritesStay
  <1>5. PageOK'
    BY PageStays DEF Continues
  <1> QED
    BY <1>1, <1>2, <1>3, <1>4, <1>5 DEF Shapes, ReqsOK

\* The admin web changes its tokens and pages with its requests.
LEMMA AdminShapes ==
    ASSUME Shapes, UNCHANGED <<kind, server, mem, writes, mishaps>>, kind = "admin",
           disk' \in [access : 0..pairs, refresh : 0..pairs],
           page' \in [Tabs -> {"off", "login", "inside"}],
           \A t \in Tabs : page'[t] = "off" => page[t] = "off",
           req' \in [Slots -> Rows], Continues(req'), \A s \in Slots : req'[s].tab \in OwnTabs,
           \A c \in calls' : c \in calls \/ (CallOK(c)' /\ c.tab = 0),
           flight' \in [Tabs -> BOOLEAN],
           mine' \in 0 .. pairs', left' \in {"no", "clean", "loose"}, hurt' \in BOOLEAN,
           cut' \in BOOLEAN
    PROVE  Shapes'
  <1> USE DEF server
  <1>1. pairs \in Nat /\ kind' = kind /\ pairs' = pairs /\ live' = live /\ OwnTabs' = OwnTabs
        /\ writes' = writes /\ writes = <<>> /\ 0 \notin Tabs
    BY ShapeFacts DEF OwnTabs, Shapes, WritesOK
  <1>2. TypeOK'
    BY DEF Shapes, TypeOK, Rows
  <1>3. CallsOK'
    BY <1>1, CallsStay
  <1>4. WritesOK'
    BY <1>1, WritesStay
  <1>5. PageOK'
    BY <1>1 DEF Continues, Shapes, PageOK, SigningIn
  <1> QED
    BY <1>1, <1>2, <1>3, <1>4, <1>5 DEF Shapes, ReqsOK

LEMMA AsBefore ==
    ASSUME Shapes
    PROVE  /\ req \in [Slots -> Rows] /\ Continues(req) /\ \A s \in Slots : req[s].tab \in OwnTabs
           /\ left \in {"no", "clean", "loose"} /\ hurt \in BOOLEAN /\ cut \in BOOLEAN
           /\ mine \in 0 .. pairs /\ flight \in [Tabs -> BOOLEAN]
           /\ page \in [Tabs -> {"off", "login", "inside"}]
           /\ \A c \in calls : CallOK(c) /\ c.old \notin {0}
           /\ \A t : Waiters(t) \in SUBSET Slots /\ \A s \in Waiters(t) : req[s].st # "idle"
  <1>1. req \in [Slots -> Rows] /\ \A s \in Slots : req[s].tab \in OwnTabs
    BY DEF Shapes, TypeOK, Rows, ReqsOK
  <1>2. Continues(req)
    BY DEF Shapes, TypeOK, Continues, ReqsOK
  <1>3. /\ left \in {"no", "clean", "loose"} /\ hurt \in BOOLEAN /\ cut \in BOOLEAN
        /\ mine \in 0 .. pairs /\ flight \in [Tabs -> BOOLEAN]
        /\ page \in [Tabs -> {"off", "login", "inside"}]
    BY DEF Shapes, TypeOK
  <1>4. \A c \in calls : CallOK(c) /\ c.old \notin {0}
    BY DEF Shapes, TypeOK, CallsOK, CallOK, Calls
  <1>5. \A t : Waiters(t) \in SUBSET Slots /\ \A s \in Waiters(t) : req[s].st # "idle"
    BY DEF Waiters
  <1> QED
    BY <1>1, <1>2, <1>3, <1>4, <1>5

LEMMA ShapesAppUser ==
    ASSUME Shapes, kind # "admin", AppLogin \/ AppLogout
    PROVE  Shapes'
  <1>0. pairs \in 0 .. MaxPairs /\ MaxPairs \in Nat
    BY ShapeFacts DEF Shapes, TypeOK
  <1> USE DEF AppLogin, AppLogout, SignIn, SignOut, Issue, MayIssue, Queue, server
  <1>1. pairs \in Nat /\ MaxPairs \in Nat /\ pairs' \in 0 .. MaxPairs /\ pairs <= pairs' /\ kind' = kind
    BY <1>0
  <1>2. CASE AppLogin
    <2>1. PICK op : op = StoreOp(pairs', "login", {})
      OBVIOUS
    <2>2. op \in Ops' /\ ~op.half /\ op.next = "login" /\ op.pair = pairs + 1
      BY <1>1, <1>2, <2>1 DEF StoreOp, Ops
    <2>3. writes' = Append(writes, op)
      BY <1>2, <2>1
    <2>4. live' \subseteq 1 .. pairs' /\ \A n \in live' \ live : n > pairs
      BY <1>1, <1>2 DEF Shapes, TypeOK
    <2>5. /\ hurt' \in BOOLEAN /\ cut' \in BOOLEAN /\ mine' \in 0 .. pairs' /\ req' = req
          /\ left' \in {"no", "clean", "loose"}
      <3>1. hurt' = FALSE /\ cut' = cut /\ mine' = pairs' /\ req' = req /\ left' = "no"
        BY <1>2
      <3>2. hurt' \in BOOLEAN
        BY <3>1, Zenon
      <3> QED
        BY <1>1, <3>1, <3>2, AsBefore
    <2>6. UNCHANGED <<kind, page, mem, disk, stale, mishaps, flight, calls>>
      BY <1>2
    <2>7. page[1] = "login" /\ ~SigningIn
      BY <1>2
    <2> QED
      BY <1>1, <2>2, <2>3, <2>4, <2>5, <2>6, <2>7, AsBefore, QueueShapes DEF Clears
  <1>3. CASE AppLogout
    <2>1. PICK op : op = StoreOp(0, "logout", {})
      OBVIOUS
    <2>2. op \in Ops' /\ ~op.half /\ op.next = "logout" /\ op.pair = 0
      BY <1>1, <1>3, <2>1 DEF StoreOp, Ops, Clears
    <2>3. writes' = Append(writes, op)
      BY <1>3, <2>1
    <2>4. left' \in {"no", "clean", "loose"}
      BY <1>3, AsBefore DEF Worse
    <2>5. live' \subseteq 1 .. pairs'
      BY <1>3 DEF Shapes, TypeOK
    <2>6. hurt' \in BOOLEAN /\ cut' \in BOOLEAN /\ mine' \in 0 .. pairs' /\ req' = req
      BY <1>3, AsBefore
    <2>7. UNCHANGED <<kind, page, mem, disk, stale, mishaps, flight, calls, live>>
      BY <1>3
    <2> QED
      BY <1>1, <1>3, <2>2, <2>3, <2>4, <2>5, <2>6, <2>7, AsBefore, QueueShapes DEF Clears
  <1> QED
    BY <1>2, <1>3

LEMMA ShapesAsk ==
    ASSUME Shapes, UNCHANGED <<kind, server, mem, mine, cut>>,
           NEW t \in OwnTabs, NEW s \in Slots, req[s].st = "sent", req[s].tab = t,
           Held.refresh # 0, Ask(s, t)
    PROVE  Shapes'
  <1>1. page[t] # "off" /\ t \in Tabs /\ t # 0
    BY ShapeFacts DEF Shapes, PageOK
  <1>2. PICK c : c = [old |-> Held.refresh, new |-> 0, st |-> "asked", tab |-> t]
    OBVIOUS
  <1>3. Held.refresh \in 1 .. pairs /\ pairs \in Nat
    BY ShapeFacts
  <1>4. c \in Calls /\ c.st = "asked" /\ c.new = 0 /\ c.tab = t
    BY <1>2, <1>3 DEF Calls
  <1>5. CallOK(c)'
    BY <1>4 DEF CallOK, Calls, OwnTabs, server
  <1>6. calls' = calls \cup {c} /\ UNCHANGED <<disk, page, writes, mishaps>>
    BY <1>2 DEF Ask
  <1>7. \A d \in calls' : d \in calls \/ (CallOK(d)' /\ (d.tab = 0 \/ page[d.tab] # "off"))
    BY <1>1, <1>4, <1>5, <1>6
  <1>8. left' \in {"no", "clean", "loose"} /\ hurt' \in BOOLEAN /\ cut' \in BOOLEAN
        /\ mine' \in 0 .. pairs'
    BY AsBefore DEF Ask, server
  <1>9. /\ req' \in [Slots -> Rows] /\ Continues(req') /\ \A u \in Slots : req'[u].tab \in OwnTabs
    BY WaitingRow DEF Ask
  <1>10. flight' \in [Tabs -> BOOLEAN]
    BY <1>1, AsBefore DEF Ask
  <1> QED
    BY <1>6, <1>7, <1>8, <1>9, <1>10, RequestShapes

LEMMA ShapesClear ==
    ASSUME Shapes, UNCHANGED <<kind, server, mem, mine, cut, disk, page, mishaps, flight>>,
           left' = left, hurt' \in BOOLEAN, \A c \in calls' : c \in calls \/ CallOK(c)',
           NEW next \in Clears, NEW S \in SUBSET Slots, \A s \in S : req[s].st # "idle",
           kind # "admin", page[1] # "off", Queue(StoreOp(0, next, S)),
           req' = Dropping(S) \/ req' = req
    PROVE  Shapes'
  <1>1. PICK op : op = StoreOp(0, next, S)
    OBVIOUS
  <1>2. op \in Ops' /\ ~op.half /\ op.next = next /\ op.pair = 0
    BY <1>1, ShapeFacts DEF StoreOp, Ops, server
  <1>3. writes' = Append(writes, op)
    BY <1>1 DEF Queue
  <1>4. /\ req' \in [Slots -> Rows] /\ Continues(req') /\ \A u \in Slots : req'[u].tab \in OwnTabs
    BY DroppingFacts, AsBefore
  <1>5. pairs' \in 0 .. MaxPairs /\ pairs <= pairs' /\ live' \subseteq 1 .. pairs' /\ live' = live
    BY ShapeFacts DEF server, Shapes, TypeOK
  <1>6. left' \in {"no", "clean", "loose"} /\ cut' \in BOOLEAN /\ mine' \in 0 .. pairs'
    BY AsBefore DEF server
  <1>7. next # "login"
    BY DEF Clears
  <1> QED
    BY <1>2, <1>3, <1>4, <1>5, <1>6, <1>7, QueueShapes DEF server

LEMMA ShapesDenied ==
    ASSUME Shapes, AdminFlight, NEW s \in Slots,
           BuyerDenied(s) \/ SellerDenied(s) \/ AdminDenied(s)
    PROVE  Shapes'
  <1>1. /\ req[s].st = "sent" /\ UNCHANGED <<kind, server, mem, mine, cut>>
        /\ kind \in {"buyer", "seller", "admin"} /\ req[s].tab \in OwnTabs
        /\ kind # "admin" => OwnTabs = {1}
    BY ShapeFacts DEF BuyerDenied, SellerDenied, AdminDenied, Refused10002
  <1>2. /\ cut' \in BOOLEAN /\ mine' \in 0 .. pairs' /\ left \in {"no", "clean", "loose"}
        /\ hurt \in BOOLEAN /\ flight \in [Tabs -> BOOLEAN]
    BY <1>1, AsBefore DEF server
  <1>3. page[req[s].tab] # "off" /\ (kind # "admin" => page[1] # "off")
    BY <1>1, ShapeFacts DEF Shapes, PageOK
  <1>4. CASE GiveUp(s)
    BY <1>1, <1>2, <1>4, IdleAgain, RequestShapes DEF GiveUp
  <1>5. CASE Drop(s) /\ kind # "admin"
    <2>1. UNCHANGED <<calls, disk, page, flight, left, mishaps>> /\ hurt' \in BOOLEAN
      BY <1>2, <1>5 DEF Drop
    <2>2. Queue(StoreOp(0, "dropped", {s})) /\ req' = Dropping({s}) /\ {s} \in SUBSET Slots
      BY <1>5 DEF Drop
    <2>3. \A c \in calls' : c \in calls \/ CallOK(c)'
      BY <2>1
    <2>4. \A u \in {s} : req[u].st # "idle"
      BY <1>1
    <2>5. "dropped" \in Clears
      BY DEF Clears
    <2> QED
      BY <1>1, <1>3, <1>5, <2>1, <2>2, <2>3, <2>4, <2>5, ShapesClear
  <1>6. CASE Held.refresh # 0 /\ Ask(s, req[s].tab)
    BY <1>1, <1>6, ShapesAsk
  <1>7. CASE Join(s) /\ Pending(req[s].tab)
    BY <1>1, <1>2, <1>7, WaitingRow, RequestShapes DEF Join
  <1>8. CASE Join(s) /\ ~Pending(req[s].tab) /\ kind # "admin"
    <2>1. UNCHANGED <<calls, disk, page, flight, left, mishaps>> /\ hurt' \in BOOLEAN
      BY <1>2, <1>8 DEF Join
    <2>2. Queue(StoreOp(0, "rejected", {s})) /\ req' = Dropping({s}) /\ {s} \in SUBSET Slots
      BY <1>8 DEF Join
    <2>3. \A c \in calls' : c \in calls \/ CallOK(c)'
      BY <2>1
    <2>4. \A u \in {s} : req[u].st # "idle"
      BY <1>1
    <2>5. "rejected" \in Clears
      BY DEF Clears
    <2> QED
      BY <1>1, <1>3, <1>8, <2>1, <2>2, <2>3, <2>4, <2>5, ShapesClear
  <1>9. CASE /\ disk' = NoTokens /\ page' = [page EXCEPT ![req[s].tab] = "login"]
             /\ req' = [req EXCEPT ![s] = Idle]
             /\ UNCHANGED <<calls, writes, flight, left, hurt, mishaps>> /\ kind = "admin"
    <2>1. /\ disk' = NoTokens /\ page' = [page EXCEPT ![req[s].tab] = "login"]
          /\ req' = [req EXCEPT ![s] = Idle]
          /\ UNCHANGED <<calls, writes, flight, left, hurt, mishaps>> /\ kind = "admin"
      BY <1>9
    <2>2. disk' \in [access : 0..pairs, refresh : 0..pairs]
      BY <2>1, ShapeFacts DEF NoTokens
    <2>3. /\ page' \in [Tabs -> {"off", "login", "inside"}]
          /\ \A t \in Tabs : page'[t] = "off" => page[t] = "off"
      BY <1>1, <2>1, AsBefore, ShapeFacts
    <2> QED
      BY <1>1, <1>2, <2>1, <2>2, <2>3, IdleAgain, AdminShapes
  <1>10. CASE BuyerDenied(s)
    BY <1>1, <1>4, <1>5, <1>6, <1>10 DEF BuyerDenied, Held
  <1>11. CASE SellerDenied(s)
    BY <1>1, <1>5, <1>6, <1>7, <1>8, <1>11 DEF SellerDenied, Held
  <1>12. CASE AdminDenied(s)
    <2>1. flight[req[s].tab] /\ kind = "admin" => Pending(req[s].tab)
      BY <1>1, ShapeFacts DEF AdminFlight, Pending
    <2> QED
      BY <1>1, <1>4, <1>6, <1>7, <1>9, <1>12, <2>1 DEF AdminDenied, Held
  <1> QED
    BY <1>10, <1>11, <1>12

LEMMA ShapesAnswer ==
    ASSUME Shapes, NEW c \in calls, Granted(c) \/ Denied(c) \/ Lost(c)
    PROVE  Shapes'
  <1>1. /\ c.tab # 0 /\ UNCHANGED <<kind, server, mem, mine, left, mishaps, cut>>
        /\ kind \in {"buyer", "seller", "admin"} /\ c.tab \in OwnTabs /\ c.tab \in Tabs
        /\ kind # "admin" => c.tab = 1
    BY ShapeFacts DEF Granted, Denied, Lost
  <1>2. /\ cut' \in BOOLEAN /\ mine' \in 0 .. pairs' /\ left' \in {"no", "clean", "loose"}
        /\ flight \in [Tabs -> BOOLEAN]
    BY <1>1, AsBefore DEF server
  <1>3. hurt' \in BOOLEAN
    BY AsBefore DEF Granted, Denied, Lost
  <1>4. page[c.tab] # "off" /\ (kind # "admin" => page[1] # "off")
    BY <1>1, ShapeFacts DEF Shapes, PageOK
  <1>5. \A d \in calls' : d \in calls \/ (CallOK(d)' /\ d.tab = 0)
    <2>1. CASE Heard(c)
      BY <2>1 DEF Heard
    <2>2. CASE Unheard(c)
      <3>1. CallOK(c) /\ c \in Calls /\ Calls' = Calls
        BY <1>1 DEF Shapes, CallsOK, CallOK, Calls, OwnTabs, server
      <3>2. PICK e : e = [c EXCEPT !.tab = 0]
        OBVIOUS
      <3>3. e.tab = 0 /\ e \in Calls /\ e.st = c.st /\ e.new = c.new
        BY <3>1, <3>2 DEF Calls
      <3>4. e.st \notin {"refused", "granted"} => CallOK(e)'
        BY <3>1, <3>3 DEF CallOK
      <3> QED
        BY <2>2, <3>2, <3>3, <3>4 DEF Unheard, StillOpen
    <2> QED
      BY <2>1, <2>2 DEF Granted, Denied, Lost
  <1>6. [flight EXCEPT ![c.tab] = FALSE] \in [Tabs -> BOOLEAN]
    BY <1>2
  <1>7. /\ Rejected(c.tab) \in [Slots -> Rows] /\ Continues(Rejected(c.tab))
        /\ \A s \in Slots : Rejected(c.tab)[s].tab \in OwnTabs
    BY AsBefore, RejectedFacts DEF Rejected
  <1>8. CASE kind = "admin" /\ AdminSignedOut(c.tab)
    <2>1. /\ disk' = NoTokens /\ page' = [page EXCEPT ![c.tab] = "login"]
          /\ req' = Rejected(c.tab) /\ flight' = [flight EXCEPT ![c.tab] = FALSE]
          /\ writes' = writes
      BY <1>8 DEF AdminSignedOut, RefreshEnds
    <2>2. disk' \in [access : 0..pairs, refresh : 0..pairs]
      BY <2>1, ShapeFacts DEF NoTokens
    <2>3. /\ page' \in [Tabs -> {"off", "login", "inside"}]
          /\ \A t \in Tabs : page'[t] = "off" => page[t] = "off"
      BY <1>1, <2>1, AsBefore, ShapeFacts
    <2> QED
      BY <1>1, <1>2, <1>3, <1>5, <1>6, <1>7, <1>8, <2>1, <2>2, <2>3, AdminShapes
  <1>9. CASE Granted(c)
    <2>1. c.new \in 1 .. pairs
      BY <1>9, AsBefore, ShapeFacts DEF Granted, CallOK
    <2>2. CASE kind = "admin"
      <3>1. /\ disk' = Pair(c.new) /\ req' = Resent(c.tab, c.new)
            /\ flight' = [flight EXCEPT ![c.tab] = FALSE]
            /\ UNCHANGED <<writes, page>>
        BY <1>9, <2>2 DEF Granted
      <3>2. disk' \in [access : 0..pairs, refresh : 0..pairs]
        BY <2>1, <3>1 DEF Pair
      <3> QED
        BY <1>1, <1>2, <1>3, <1>5, <1>6, <2>1, <2>2, <3>1, <3>2, AsBefore, ResentFacts, AdminShapes
    <2>3. CASE kind # "admin"
      <3>1. PICK op : op = StoreOp(c.new, "refreshed", {})
        OBVIOUS
      <3>2. op \in Ops' /\ ~op.half /\ op.next = "refreshed" /\ op.pair # 0
        BY <1>1, <2>1, <3>1, ShapeFacts DEF StoreOp, Ops, server
      <3>3. writes' = Append(writes, op) /\ UNCHANGED <<disk, req, flight, page>>
        BY <1>9, <2>3, <3>1 DEF Granted, Queue
      <3>4. pairs' \in 0 .. MaxPairs /\ pairs <= pairs' /\ live' \subseteq 1 .. pairs' /\ live' = live
            /\ stale' = stale
        BY <1>1, ShapeFacts DEF server, Shapes, TypeOK
      <3> QED
        <4>1. UNCHANGED <<kind, page, mem, disk, stale, mishaps, flight, req>>
          BY <1>1, <3>3, <3>4
        <4>2. page[1] # "off" /\ op.next # "login" /\ op.next \notin Clears
          BY <1>4, <2>3, <3>2 DEF Clears
        <4>3. \A d \in calls' : d \in calls \/ CallOK(d)'
          BY <1>5
        <4>4. req' \in [Slots -> Rows] /\ Continues(req') /\ \A u \in Slots : req'[u].tab \in OwnTabs
          BY <4>1, AsBefore
        <4>5. (op.pair = 0) = (op.next \in Clears) /\ \A n \in live' \ live : n > pairs
          BY <3>2, <3>4, <4>2
        <4>6. op.next = "login" => page[1] = "login" /\ ~SigningIn
          BY <4>2
        <4> QED
          BY <1>2, <1>3, <2>3, <3>2, <3>3, <3>4, <4>1, <4>2, <4>3, <4>4, <4>5, <4>6, QueueShapes
    <2> QED
      BY <2>2, <2>3
  <1>10. CASE Denied(c)
    <2>1. CASE kind # "admin"
      <3>1. Queue(StoreOp(0, "refused", {})) /\ UNCHANGED <<disk, page, req, flight>>
        BY <1>10, <2>1 DEF Denied
      <3>2. "refused" \in Clears /\ {} \in SUBSET Slots
        BY DEF Clears
      <3> QED
        BY <1>1, <1>3, <1>4, <1>5, <2>1, <3>1, <3>2, ShapesClear
    <2> QED
      BY <1>8, <1>10, <2>1 DEF Denied
  <1>11. CASE Lost(c)
    <2>1. CASE kind = "buyer"
      <3>1. RefreshEnds(c.tab) /\ UNCHANGED <<disk, writes, page>>
        BY <1>11, <2>1 DEF Lost
      <3> QED
        BY <1>1, <1>2, <1>3, <1>5, <1>6, <1>7, <3>1, RequestShapes DEF RefreshEnds
    <2>2. CASE kind = "seller"
      <3>1. /\ Queue(StoreOp(0, "rejected", Waiters(c.tab))) /\ req' = Dropping(Waiters(c.tab))
            /\ UNCHANGED <<disk, page, flight>>
        BY <1>11, <2>2 DEF Lost
      <3>2. "rejected" \in Clears
        BY DEF Clears
      <3> QED
        BY <1>1, <1>3, <1>4, <1>5, <2>2, <3>1, <3>2, AsBefore, ShapesClear
    <2> QED
      BY <1>1, <1>8, <1>11, <2>1, <2>2 DEF Lost
  <1> QED
    BY <1>9, <1>10, <1>11

LEMMA ShapesWriteAccess ==
    ASSUME Shapes, WriteAccess
    PROVE  Shapes'
  <1>1. /\ WritesOK' /\ DOMAIN writes' = DOMAIN writes /\ disk'.refresh = disk.refresh
        /\ disk'.access \in 0 .. pairs /\ writes # <<>> /\ writes' # <<>>
        /\ \A i \in DOMAIN writes : writes'[i].next = writes[i].next
    BY WritesBegin
  <1>2. /\ kind' = kind /\ pairs' = pairs /\ pairs \in Nat /\ live' = live /\ stale' = stale
        /\ calls' = calls /\ mem' = mem /\ page' = page /\ req' = req /\ flight' = flight
        /\ mine' = mine /\ left' = left /\ hurt' = hurt /\ mishaps' = mishaps /\ cut' = cut
        /\ OwnTabs' = OwnTabs
    BY ShapeFacts DEF WriteAccess, server, history, OwnTabs
  <1>3. disk' \in [access : 0..pairs, refresh : 0..pairs]
    <2>1. PICK a : a = Head(writes).pair
      OBVIOUS
    <2>2. disk' = [disk EXCEPT !.access = a]
      BY <2>1 DEF WriteAccess
    <2>3. a \in 0 .. pairs
      BY <1>1, <2>2 DEF Shapes, TypeOK
    <2> QED
      BY <2>2, <2>3 DEF Shapes, TypeOK
  <1>4. TypeOK'
    BY <1>2, <1>3 DEF Shapes, TypeOK
  <1>5. CallsOK'
    BY <1>2, CallsStay
  <1>6. SigningIn' = SigningIn
    BY <1>1 DEF SigningIn
  <1>7. PageOK'
    BY <1>1, <1>2, <1>6 DEF Shapes, PageOK
  <1> QED
    BY <1>1, <1>2, <1>4, <1>5, <1>7 DEF Shapes, ReqsOK

LEMMA ShapesWriteRest ==
    ASSUME Shapes, WriteRest
    PROVE  Shapes'
  <1>1. PICK op : op = Head(writes)
    OBVIOUS
  <1>2. /\ op \in Ops /\ op = writes[1] /\ writes \in Seq(Ops) /\ Len(writes) \in Nat \ {0}
        /\ DOMAIN writes = 1 .. Len(writes) /\ 1 \in DOMAIN writes /\ op.pair \in 0 .. pairs
        /\ Tail(writes) \in Seq(Ops) /\ DOMAIN Tail(writes) = 1 .. Len(writes) - 1
        /\ \A i \in 1 .. Len(writes) - 1 : Tail(writes)[i] = writes[i + 1]
        /\ (Tail(writes) = <<>>) = (Len(writes) = 1)
    <2>1. writes \in Seq(Ops) /\ writes # <<>>
      BY DEF WriteRest, Shapes, WritesOK
    <2>2. Len(writes) \in Nat \ {0} /\ DOMAIN writes = 1 .. Len(writes) /\ op = writes[1] /\ op \in Ops
      BY <1>1, <2>1, TailFacts
    <2>3. op.pair \in 0 .. pairs
      BY <2>2 DEF Ops
    <2>4. /\ Tail(writes) \in Seq(Ops) /\ DOMAIN Tail(writes) = 1 .. Len(writes) - 1
          /\ \A i \in 1 .. Len(writes) - 1 : Tail(writes)[i] = writes[i + 1]
          /\ (Tail(writes) = <<>>) = (Len(writes) = 1)
      BY <2>1, TailFacts
    <2>5. 1 \in DOMAIN writes
      BY <2>2
    <2> QED
      BY <2>1, <2>2, <2>3, <2>4, <2>5
  <1>3. /\ writes # <<>> /\ op.half /\ disk' = [disk EXCEPT !.refresh = op.pair]
        /\ mem' = Pair(op.pair) /\ page' = [page EXCEPT ![1] = PageAfter(op)]
        /\ UNCHANGED <<kind, server, calls, mine, left, mishaps>>
    BY <1>1 DEF WriteRest
  <1>4. kind # "admin" /\ OwnTabs = {1} /\ OwnTabs' = OwnTabs /\ page[1] # "off" /\ 1 \in Tabs
        /\ pairs' = pairs /\ pairs \in Nat /\ kind' = kind
    BY <1>3, ShapeFacts DEF Shapes, WritesOK, PageOK, server, OwnTabs
  <1>5. disk.access = op.pair /\ disk' = [access |-> op.pair, refresh |-> op.pair]
        /\ mem' = [access |-> op.pair, refresh |-> op.pair]
    BY <1>2, <1>3 DEF Shapes, TypeOK, WritesOK, OpOK, Pair
  <1>5a. disk' \in [access : 0..pairs, refresh : 0..pairs] /\ mem' = disk'
    BY <1>2, <1>5
  <1>6. PageAfter(op) \in {"off", "login", "inside"} /\ PageAfter(op) # "off"
    BY <1>4, AsBefore DEF PageAfter
  <1>7. page' \in [Tabs -> {"off", "login", "inside"}] /\ page'[1] = PageAfter(op)
        /\ \A t \in Tabs : page'[t] = "off" => page[t] = "off" /\ t # 1
    BY <1>3, <1>4, <1>6, AsBefore
  <1>8. CASE ClearsTwice(op)
    <2>1. PICK o2 : o2 = StoreOp(0, "rejected", Waiters(1))
      OBVIOUS
    <2>2. o2 \in Ops /\ ~o2.half /\ o2.next = "rejected" /\ o2.pair = 0
      BY <1>4, <2>1, AsBefore DEF StoreOp, Ops, Clears
    <2>3. /\ writes' = Append(Tail(writes), o2) /\ req' = Dropping(Waiters(1))
          /\ hurt' = (hurt \/ SigningIn) /\ UNCHANGED <<flight, cut>>
      BY <1>1, <1>8, <2>1 DEF WriteRest
    <2>4. /\ req' \in [Slots -> Rows] /\ Continues(req') /\ \A s \in Slots : req'[s].tab \in OwnTabs
      BY <2>3, AsBefore, DroppingFacts
    <2>5. PICK tl : tl = Tail(writes)
      OBVIOUS
    <2>6. /\ writes' \in Seq(Ops) /\ writes' # <<>> /\ Len(tl) = Len(writes) - 1
          /\ DOMAIN writes' = 1 .. Len(writes) - 1 + 1
          /\ \A i \in 1 .. Len(writes) - 1 : writes'[i] = writes[i + 1] /\ i + 1 \in DOMAIN writes
          /\ writes'[Len(writes)] = o2
      <3>1. tl \in Seq(Ops) /\ writes' = Append(tl, o2) /\ Len(tl) = Len(writes) - 1
        BY <1>2, <2>3, <2>5, LenProperties
      <3>2. /\ writes' \in Seq(Ops) /\ writes' # <<>> /\ DOMAIN writes' = 1 .. Len(tl) + 1
            /\ \A i \in 1 .. Len(tl) : writes'[i] = tl[i]
            /\ writes'[Len(tl) + 1] = o2
        BY <2>2, <3>1, AppendFacts
      <3> QED
        BY <1>2, <2>5, <3>1, <3>2
    <2>7. \A i \in DOMAIN writes' : \/ i = Len(writes) /\ writes'[i] = o2
                                    \/ /\ i \in 1 .. Len(writes) - 1 /\ i + 1 \in DOMAIN writes
                                       /\ writes'[i] = writes[i + 1] /\ i + 1 # 1
      BY <1>2, <2>6
    <2>8. \A i \in DOMAIN writes' : OpOK(i)'
      BY <1>2, <2>2, <2>7 DEF OpOK, Shapes, WritesOK, Clears
    <2>9. \A i, j \in DOMAIN writes' : writes'[i].next = "login" /\ writes'[j].next = "login" => i = j
      <3> SUFFICES ASSUME NEW i \in DOMAIN writes', NEW j \in DOMAIN writes',
                          writes'[i].next = "login", writes'[j].next = "login"
                   PROVE  i = j
        OBVIOUS
      <3>1. i + 1 \in DOMAIN writes /\ j + 1 \in DOMAIN writes /\ i + 1 = j + 1
        BY <2>2, <2>7 DEF Shapes, WritesOK
      <3> QED
        BY <1>2, <2>7, <2>2, <3>1
    <2>10. WritesOK'
      BY <1>4, <2>6, <2>8, <2>9 DEF WritesOK, Ops
    <2>11. SigningIn' => PageAfter(op) = "login"
      BY <1>8 DEF PageAfter, ClearsTwice
    <2>12. PageOK'
      BY <1>3, <1>4, <1>7, <2>4, <2>6, <2>11 DEF Shapes, PageOK, Continues
    <2>13. hurt' \in BOOLEAN /\ cut' \in BOOLEAN
      BY <2>3, AsBefore
    <2>14. TypeOK'
      BY <1>3, <1>4, <1>5a, <1>7, <2>3, <2>4, <2>13 DEF Shapes, TypeOK, Rows, server
    <2>15. CallsOK'
      BY <1>3, <1>4, CallsStay DEF server
    <2> QED
      BY <1>4, <2>4, <2>10, <2>12, <2>14, <2>15 DEF Shapes, ReqsOK
  <1>9. CASE ~ClearsTwice(op)
    <2>1. /\ writes' = Tail(writes) /\ hurt' = hurt
          /\ flight' = [flight EXCEPT ![1] = @ /\ op.next \notin {"refreshed", "refused", "rejected"}]
          /\ cut' = (cut \/ (op.next = "rejected" /\ Pending(1)))
          /\ \/ req' = Resent(1, op.pair) \/ req' = Rejected(1)
             \/ req' = [s \in Slots |-> IF s \in op.who THEN Idle ELSE req[s]]
      BY <1>1, <1>9 DEF WriteRest
    <2>2. /\ req' \in [Slots -> Rows] /\ Continues(req') /\ \A s \in Slots : req'[s].tab \in OwnTabs
      <3>1. op.who \in SUBSET Slots /\ Waiters(1) \in SUBSET Slots
        BY <1>2 DEF Ops, Waiters
      <3>2. CASE req' = Resent(1, op.pair)
        BY <1>2, <3>2, ResentFacts
      <3>3. CASE req' = Rejected(1)
        BY <3>1, <3>3, RejectedFacts DEF Rejected
      <3>4. CASE req' = [s \in Slots |-> IF s \in op.who THEN Idle ELSE req[s]]
        BY <3>1, <3>4, RejectedFacts
      <3> QED
        BY <2>1, <3>2, <3>3, <3>4
    <2>3. /\ WritesOK' /\ DOMAIN writes' = 1 .. Len(writes) - 1
          /\ \A i \in DOMAIN writes' : i + 1 \in DOMAIN writes /\ writes'[i] = writes[i + 1]
      BY <1>3, <1>4, <2>1, WritesPop
    <2>4. SigningIn' => PageAfter(op) = "login"
      <3> SUFFICES ASSUME NEW i \in DOMAIN writes', writes'[i].next = "login"
                   PROVE  PageAfter(op) = "login"
        BY DEF SigningIn
      <3>1. i + 1 \in DOMAIN writes /\ writes[i + 1].next = "login" /\ i + 1 # 1
        BY <1>2, <2>3
      <3>2. op.next # "login" /\ page[1] = "login"
        BY <1>2, <3>1 DEF Shapes, WritesOK, PageOK, SigningIn
      <3> QED
        BY <3>2 DEF PageAfter
    <2>5. PageOK'
      BY <1>3, <1>4, <1>5, <1>7, <2>2, <2>4 DEF Shapes, PageOK, Continues
    <2>6. hurt' \in BOOLEAN /\ cut' \in BOOLEAN
      BY <2>1, AsBefore
    <2>7. flight' \in [Tabs -> BOOLEAN]
      BY <2>1, AsBefore
    <2>8. TypeOK'
      BY <1>3, <1>4, <1>5a, <1>7, <2>2, <2>6, <2>7 DEF Shapes, TypeOK, Rows, server
    <2>9. CallsOK'
      BY <1>3, <1>4, CallsStay DEF server
    <2> QED
      BY <1>4, <2>2, <2>3, <2>5, <2>8, <2>9 DEF Shapes, ReqsOK
  <1> QED
    BY <1>8, <1>9

LEMMA KindFixed == [Next]_vars => kind' = kind
  BY DEF vars, Next, ServerStep, UserStep, RequestStep, RefreshAnswer, StoreStep, CheckRefresh,
         Exchange, Expire, Forget, Restart, BuyerLogin, SellerLogin, BuyerLogout, SellerLogout,
         AppLogin, AppLogout, SignIn, SignOut, Open, Navigate, Kill, AdminLogin, LoginRefused,
         AdminLogout, Send, Answered, BuyerDenied, SellerDenied, AdminDenied, Granted, Denied, Lost,
         WriteAccess, WriteRest

LEMMA AdminFlightKept ==
    ASSUME Shapes, AdminFlight, [Next]_vars
    PROVE  AdminFlight'
  <1> SUFFICES ASSUME kind' = "admin", NEW t \in Tabs, flight'[t]
               PROVE  \E c \in calls' : c.tab = t
    BY DEF AdminFlight
  <1>1. flight \in [Tabs -> BOOLEAN] /\ 0 \notin Tabs /\ writes \in Seq(Ops)
    BY TabsAssumption DEF Shapes, TypeOK, WritesOK
  <1>2. kind = "admin" => writes = <<>> /\ (flight[t] => \E c \in calls : c.tab = t)
    BY DEF AdminFlight, Shapes, WritesOK
  <1>3. CASE kind' = kind /\ calls' = calls /\ (flight'[t] => flight[t])
    BY <1>2, <1>3
  <1>4. ASSUME NEW c \in calls, CheckRefresh(c) \/ Exchange(c)
        PROVE  \E d \in calls' : d.tab = t
    <2>1. PICK e : /\ e.tab = c.tab
                   /\ calls' = (calls \ {c}) \cup StillOpen(e)
      <3>1. c \in Calls
        BY DEF Shapes, CallsOK, CallOK
      <3>2. ASSUME NEW x PROVE [c EXCEPT !.st = x].tab = c.tab
        BY <3>1 DEF Calls
      <3>3. ASSUME NEW x PROVE [c EXCEPT !.st = "granted", !.new = x].tab = c.tab
        BY <3>1 DEF Calls
      <3> QED
        BY <1>4, <3>2, <3>3 DEF CheckRefresh, Exchange
    <2>2. kind = "admin" /\ flight[t]
      BY <1>4 DEF CheckRefresh, Exchange, client
    <2>3. PICK d \in calls : d.tab = t
      BY <1>2, <2>2
    <2>4. CASE d = c
      BY <1>1, <2>1, <2>3, <2>4 DEF StillOpen
    <2>5. CASE d # c
      BY <2>1, <2>3, <2>5
    <2> QED
      BY <2>4, <2>5
  <1>5. ASSUME NEW u \in OwnTabs, Kill(u)
        PROVE  \E d \in calls' : d.tab = t
    <2>1. kind = "admin" /\ flight[t] /\ u # t
      BY <1>1, <1>5, ShapeFacts DEF Kill
    <2>2. PICK d \in calls : d.tab = t
      BY <1>2, <2>1
    <2>3. d \in StillOpen(IF d.tab = u THEN [d EXCEPT !.tab = 0] ELSE d)
      BY <1>1, <2>1, <2>2 DEF StillOpen
    <2>4. d \in calls'
      BY <1>5, <2>3 DEF Kill
    <2> QED
      BY <2>2, <2>4
  <1>6. ASSUME NEW s \in Slots, BuyerDenied(s) \/ SellerDenied(s) \/ AdminDenied(s)
        PROVE  \E d \in calls' : d.tab = t
    <2>1. kind = "admin" /\ AdminDenied(s) /\ req[s].tab \in Tabs
      BY <1>6, ShapeFacts DEF BuyerDenied, SellerDenied, AdminDenied
    <2>2. CASE Ask(s, req[s].tab)
      <3>1. CASE t = req[s].tab
        <4>1. [old |-> Held.refresh, new |-> 0, st |-> "asked", tab |-> t] \in calls'
          BY <2>2, <3>1 DEF Ask
        <4> QED
          BY <4>1
      <3>2. CASE t # req[s].tab
        <4>1. flight[t] /\ calls \subseteq calls'
          BY <1>1, <2>2, <3>2 DEF Ask
        <4> QED
          BY <1>2, <2>1, <4>1
      <3> QED
        BY <3>1, <3>2
    <2>3. CASE ~Ask(s, req[s].tab)
      <3>1. calls' = calls /\ flight' = flight
        BY <2>1, <2>3 DEF AdminDenied, GiveUp, Join
      <3> QED
        BY <1>2, <2>1, <3>1
    <2> QED
      BY <2>2, <2>3
  <1>7. ASSUME NEW c \in calls, Granted(c) \/ Denied(c) \/ Lost(c)
        PROVE  \E d \in calls' : d.tab = t
    <2>1. kind = "admin" /\ c.tab # t /\ flight[t] /\ calls \ {c} \subseteq calls'
      BY <1>1, <1>7, ShapeFacts DEF Granted, Denied, Lost, AdminSignedOut, RefreshEnds, Heard, Unheard
    <2> QED
      BY <1>2, <2>1
  <1>8. ASSUME StoreStep
        PROVE  kind = "admin" => FALSE
    BY <1>2, <1>8 DEF StoreStep, WriteAccess, WriteRest
  <1>9. CASE UNCHANGED vars
    BY <1>3, <1>9 DEF vars, client
  <1>10. CASE UserStep \/ \E s \in Slots : Answered(s)
    <2>1. CASE \A u \in OwnTabs : ~Kill(u)
      BY <1>3, <1>10, <2>1
      DEF UserStep, BuyerLogin, SellerLogin, BuyerLogout, SellerLogout, AppLogin, AppLogout, SignIn,
          SignOut, Open, Navigate, AdminLogin, LoginRefused, AdminLogout, Send, Answered
    <2> QED
      BY <1>5, <2>1
  <1>11. CASE ServerStep
    BY <1>3, <1>4, <1>11 DEF ServerStep, Expire, Forget, Restart, client
  <1> QED
    BY <1>6, <1>7, <1>8, <1>9, <1>10, <1>11, KindFixed DEF Next, RequestStep, RefreshAnswer, StoreStep

-----------------------------------------------------------------------------
(* The shapes hold in every state.                                          *)

ShapesInv == Shapes /\ AdminFlight

LEMMA ShapesKept ==
    ASSUME Shapes, AdminFlight, [Next]_vars
    PROVE  Shapes'
  <1>1. CASE UNCHANGED vars
    <2>1. /\ UNCHANGED <<kind, live, stale, pairs, calls, disk, mem, writes, page, req, flight>>
          /\ UNCHANGED <<mine, left, hurt, mishaps, cut>>
      BY <1>1 DEF vars, server, client, history
    <2>2. TypeOK' /\ ReqsOK'
      BY <2>1 DEF Shapes, TypeOK, ReqsOK, OwnTabs
    <2>3. WritesOK' /\ CallsOK'
      BY <2>1, ShapeFacts, WritesStay, CallsStay
    <2>4. PageOK'
      BY <2>1 DEF Shapes, PageOK, SigningIn
    <2> QED
      BY <2>2, <2>3, <2>4 DEF Shapes
  <1>2. CASE ServerStep
    BY <1>2, ShapesCheck, ShapesExchange, ShapesForget DEF ServerStep
  <1>3. CASE UserStep
    <2>1. CASE BuyerLogin \/ SellerLogin \/ BuyerLogout \/ SellerLogout
      BY <2>1, ShapesAppUser DEF BuyerLogin, SellerLogin, BuyerLogout, SellerLogout
    <2> QED
      BY <1>3, <2>1, ShapesOpen, ShapesAdminTab, ShapesKill, ShapesSend DEF UserStep
  <1>4. CASE RefreshAnswer
    BY <1>4, ShapesAnswer DEF RefreshAnswer
  <1>5. CASE StoreStep
    BY <1>5, ShapesWriteAccess, ShapesWriteRest DEF StoreStep
  <1>6. ASSUME NEW s \in Slots, RequestStep(s)
        PROVE  Shapes'
    BY <1>6, ShapesSend, ShapesDenied, ShapeFacts DEF RequestStep
  <1> QED
    BY <1>1, <1>2, <1>3, <1>4, <1>5, <1>6 DEF Next

LEMMA ShapesAlways == Spec => []ShapesInv
  <1>1. Init => ShapesInv
    BY ShapesInit DEF ShapesInv, Init, AdminFlight
  <1>2. ShapesInv /\ [Next]_vars => ShapesInv'
    BY ShapesKept, AdminFlightKept DEF ShapesInv
  <1> QED
    BY <1>1, <1>2, PTL DEF Spec

\* Whatever the clients do, the tokens, requests and pages have their types: every
\* token a client, a request or a call holds was issued, and mishaps stay bounded.
THEOREM TypeCorrect == Spec => []TypeOK
  <1>1. ShapesInv => TypeOK
    BY DEF ShapesInv, Shapes
  <1> QED
    BY <1>1, ShapesAlways, PTL

-----------------------------------------------------------------------------
(* What the steps do to the calls and to the storage calls.                 *)

LEMMA ServerHandles ==
    ASSUME Shapes, NEW c \in calls, CheckRefresh(c) \/ Exchange(c)
    PROVE  /\ \E e : /\ e.tab = c.tab /\ e.old = c.old
                     /\ calls' = (calls \ {c}) \cup StillOpen(e)
                     /\ e.tab # 0 => e \in calls'
                     /\ e \in calls' => (e.st = "granted" => c.tab # 0)
                     /\ CheckRefresh(c) => e.new = 0 /\ e.st # "granted" /\ c.new = 0
                     /\ Exchange(c) => e.new = pairs + 1 /\ e.st = "granted"
           /\ UNCHANGED <<kind, stale, disk, mem, writes, page, req, flight, left, mishaps, cut>>
  <1>1. CallOK(c) /\ c \in Calls
    BY DEF Shapes, CallsOK, CallOK
  <1>2. CASE CheckRefresh(c)
    <2>1. PICK e : e = [c EXCEPT !.st = IF c.old \in live THEN "checked" ELSE "refused"]
      OBVIOUS
    <2>2. /\ e.tab = c.tab /\ e.old = c.old /\ e.new = c.new /\ c.new = 0
          /\ e.st \in {"checked", "refused"}
      BY <1>1, <1>2, <2>1 DEF CallOK, Calls, CheckRefresh
    <2>3. calls' = (calls \ {c}) \cup StillOpen(e) /\ (e.tab # 0 => e \in calls')
      BY <1>2, <2>1 DEF CheckRefresh, StillOpen
    <2>4. ~Exchange(c)
      BY <1>2 DEF CheckRefresh, Exchange
    <2> QED
      BY <1>2, <2>2, <2>3, <2>4 DEF CheckRefresh, server, client, history
  <1>3. CASE Exchange(c)
    <2>1. PICK e : e = [c EXCEPT !.st = "granted", !.new = pairs']
      OBVIOUS
    <2>2. /\ e.tab = c.tab /\ e.old = c.old /\ e.new = pairs + 1 /\ e.st = "granted"
      BY <1>1, <1>3, <2>1 DEF Calls, Exchange, Issue
    <2>3. calls' = (calls \ {c}) \cup StillOpen(e) /\ (e.tab # 0 => e \in calls')
      BY <1>3, <2>1 DEF Exchange, StillOpen
    <2>4. ~CheckRefresh(c)
      BY <1>3 DEF CheckRefresh, Exchange
    <2>5. e \in calls' => c.tab # 0
      <3>1. ASSUME e \in calls, c.tab = 0 PROVE FALSE
        BY <2>2, <3>1 DEF Shapes, CallsOK, CallOK
      <3> QED
        BY <2>2, <2>3, <3>1 DEF StillOpen
    <2> QED
      BY <1>3, <2>2, <2>3, <2>4, <2>5 DEF Exchange, client
  <1> QED
    BY <1>2, <1>3

LEMMA NotHeard ==
    ASSUME Shapes, NEW c \in calls, Unheard(c)
    PROVE  \E e : /\ e.tab = 0 /\ e.old = c.old /\ e.new = c.new /\ e.st = c.st
                  /\ calls' = (calls \ {c}) \cup StillOpen(e)
                  /\ \A d \in calls' : d \in calls \ {c} \/ (d = e /\ d.st \notin {"refused", "granted"})
  <1>1. CallOK(c) /\ c \in Calls
    BY DEF Shapes, CallsOK, CallOK
  <1>2. PICK e : e = [c EXCEPT !.tab = 0]
    OBVIOUS
  <1>3. e.tab = 0 /\ e.old = c.old /\ e.new = c.new /\ e.st = c.st
    BY <1>1, <1>2 DEF Calls
  <1> QED
    BY <1>2, <1>3 DEF Unheard, StillOpen

LEMMA KillCalls ==
    ASSUME Shapes, NEW t \in OwnTabs, Kill(t)
    PROVE  /\ \A d \in calls' :
                 \/ d \in calls /\ d.tab # t
                 \/ \E c \in calls : /\ c.tab = t /\ d.tab = 0 /\ d.old = c.old /\ d.new = c.new
                                     /\ d.st = c.st /\ d.st \notin {"refused", "granted"}
           /\ \A c \in calls : c.tab # t => c \in calls'
  <1>1. t # 0
    BY ShapeFacts
  <1>2. ASSUME NEW c \in calls, c.tab # t
        PROVE  StillOpen(IF c.tab = t THEN [c EXCEPT !.tab = 0] ELSE c) = {c}
    BY <1>2 DEF StillOpen, Shapes, CallsOK, CallOK
  <1>3. ASSUME NEW c \in calls, c.tab = t,
               NEW d \in StillOpen(IF c.tab = t THEN [c EXCEPT !.tab = 0] ELSE c)
        PROVE  /\ d.tab = 0 /\ d.old = c.old /\ d.new = c.new
               /\ d.st = c.st /\ d.st \notin {"refused", "granted"}
    <2>1. c \in Calls /\ d = [c EXCEPT !.tab = 0]
      BY <1>3 DEF StillOpen, Shapes, CallsOK, CallOK
    <2>2. d.tab = 0 /\ d.old = c.old /\ d.new = c.new /\ d.st = c.st
      BY <2>1 DEF Calls
    <2> QED
      BY <1>3, <2>1, <2>2 DEF StillOpen
  <1>4. calls' = UNION {StillOpen(IF c.tab = t THEN [c EXCEPT !.tab = 0] ELSE c) : c \in calls}
    BY DEF Kill
  <1>5. \A d : d \in calls' <=>
              \E c \in calls : d \in StillOpen(IF c.tab = t THEN [c EXCEPT !.tab = 0] ELSE c)
    BY <1>4
  <1>6. ASSUME NEW d \in calls'
        PROVE  \/ d \in calls /\ d.tab # t
               \/ \E c \in calls : /\ c.tab = t /\ d.tab = 0 /\ d.old = c.old /\ d.new = c.new
                                   /\ d.st = c.st /\ d.st \notin {"refused", "granted"}
    <2>1. PICK c \in calls : d \in StillOpen(IF c.tab = t THEN [c EXCEPT !.tab = 0] ELSE c)
      BY <1>5
    <2>2. CASE c.tab = t
      BY <1>3, <2>1, <2>2
    <2>3. CASE c.tab # t
      <3>1. d \in {c}
        BY <1>2, <2>1, <2>3
      <3> QED
        BY <2>3, <3>1
    <2> QED
      BY <2>2, <2>3
  <1>7. ASSUME NEW c \in calls, c.tab # t
        PROVE  c \in calls'
    <2>1. c \in StillOpen(IF c.tab = t THEN [c EXCEPT !.tab = 0] ELSE c)
      BY <1>2, <1>7
    <2> QED
      BY <1>5, <2>1
  <1> QED
    BY <1>6, <1>7

LEMMA Queued ==
    ASSUME Shapes, NEW op, writes' = Append(writes, op)
    PROVE  /\ Len(writes) \in Nat /\ Len(writes') = Len(writes) + 1 /\ writes' # <<>>
           /\ DOMAIN writes' = 1 .. Len(writes) + 1 /\ DOMAIN writes = 1 .. Len(writes)
           /\ \A i \in DOMAIN writes : i \in DOMAIN writes' /\ writes'[i] = writes[i]
           /\ Len(writes) + 1 \in DOMAIN writes' /\ writes'[Len(writes) + 1] = op
           /\ \A i \in DOMAIN writes' : i \in DOMAIN writes \/ i = Len(writes) + 1
  <1>1. writes \in Seq(Ops)
    BY DEF Shapes, WritesOK
  <1> QED
    BY <1>1, AppendFacts

\* The end of a storage call: the first is gone, or the clearing of a refused
\* refresh makes room for another.
LEMMA Popped ==
    ASSUME Shapes, WriteRest
    PROVE  /\ Head(writes) = writes[1] /\ writes[1] \in Ops /\ 1 \in DOMAIN writes
           /\ kind # "admin" /\ writes # <<>> /\ Len(writes) \in Nat \ {0}
           /\ DOMAIN writes = 1 .. Len(writes)
           /\ disk' = Pair(writes[1].pair) /\ mem' = Pair(writes[1].pair)
           /\ (writes[1].pair = 0) = (writes[1].next \in Clears)
           /\ \A i \in DOMAIN writes : i # 1 => i - 1 \in DOMAIN writes' /\ writes'[i - 1] = writes[i]
           /\ \/ /\ ClearsTwice(writes[1])
                 /\ \A i \in DOMAIN writes' :
                       \/ i = Len(writes) /\ writes'[i] = StoreOp(0, "rejected", Waiters(1))
                       \/ /\ i \in 1 .. Len(writes) - 1 /\ i + 1 \in DOMAIN writes
                          /\ writes'[i] = writes[i + 1]
                 /\ Len(writes) \in DOMAIN writes' /\ Len(writes') = Len(writes) /\ writes' # <<>>
                 /\ writes'[Len(writes)] = StoreOp(0, "rejected", Waiters(1))
              \/ /\ ~ClearsTwice(writes[1])
                 /\ \A i \in DOMAIN writes' : /\ i \in 1 .. Len(writes) - 1 /\ i + 1 \in DOMAIN writes
                                              /\ writes'[i] = writes[i + 1]
                 /\ Len(writes') = Len(writes) - 1
                 /\ (writes' = <<>>) = (Len(writes) = 1)
  <1>1. writes \in Seq(Ops) /\ writes # <<>> /\ kind # "admin"
    BY DEF WriteRest, Shapes, WritesOK
  <1>2. PICK tl : tl = Tail(writes)
    OBVIOUS
  <1>3. /\ Len(writes) \in Nat \ {0} /\ Head(writes) = writes[1] /\ writes[1] \in Ops
        /\ tl \in Seq(Ops) /\ Len(tl) = Len(writes) - 1
        /\ DOMAIN tl = 1 .. Len(writes) - 1 /\ DOMAIN writes = 1 .. Len(writes)
        /\ \A i \in 1 .. Len(writes) - 1 : tl[i] = writes[i + 1]
        /\ (tl = <<>>) = (Len(writes) = 1)
    BY <1>1, <1>2, TailFacts
  <1>4. 1 \in DOMAIN writes /\ \A i \in 1 .. Len(writes) - 1 : i + 1 \in DOMAIN writes
    BY <1>3
  <1>5. (writes[1].pair = 0) = (writes[1].next \in Clears)
    BY <1>4 DEF Shapes, WritesOK, OpOK
  <1>6. disk' = Pair(writes[1].pair) /\ mem' = Pair(writes[1].pair)
    <2>1. writes[1].half /\ disk.access = writes[1].pair
      BY <1>3, <1>4 DEF WriteRest, Shapes, WritesOK, OpOK
    <2> QED
      BY <1>3, <2>1 DEF WriteRest, Shapes, TypeOK, Pair
  <1>7. CASE ClearsTwice(writes[1])
    <2>1. writes' = Append(tl, StoreOp(0, "rejected", Waiters(1)))
      BY <1>2, <1>3, <1>7 DEF WriteRest
    <2>2. PICK o2 : o2 = StoreOp(0, "rejected", Waiters(1))
      OBVIOUS
    <2>3. /\ Len(writes') = Len(tl) + 1 /\ writes' # <<>> /\ DOMAIN writes' = 1 .. Len(tl) + 1
          /\ \A i \in 1 .. Len(tl) : writes'[i] = tl[i]
          /\ writes'[Len(tl) + 1] = o2
      BY <1>3, <2>1, <2>2, AppendFacts
    <2>4. /\ DOMAIN writes' = 1 .. Len(writes) /\ Len(writes') = Len(writes)
          /\ \A i \in 1 .. Len(writes) - 1 : writes'[i] = writes[i + 1]
          /\ writes'[Len(writes)] = o2
      BY <1>3, <2>3
    <2>5. \A i \in DOMAIN writes' : i = Len(writes) \/ i \in 1 .. Len(writes) - 1
      BY <1>3, <2>4
    <2>6. \A i \in DOMAIN writes : i # 1 => i - 1 \in DOMAIN writes' /\ writes'[i - 1] = writes[i]
      BY <1>3, <2>4
    <2> QED
      BY <1>1, <1>3, <1>4, <1>5, <1>6, <1>7, <2>2, <2>3, <2>4, <2>5, <2>6
  <1>8. CASE ~ClearsTwice(writes[1])
    <2>1. writes' = tl
      BY <1>2, <1>3, <1>8 DEF WriteRest
    <2>2. \A i \in DOMAIN writes : i # 1 => i - 1 \in DOMAIN writes' /\ writes'[i - 1] = writes[i]
      BY <1>3, <2>1
    <2> QED
      BY <1>1, <1>3, <1>4, <1>5, <1>6, <1>8, <2>1, <2>2
  <1> QED
    BY <1>7, <1>8

-----------------------------------------------------------------------------
(* Waiting requests are served.                                             *)

LEMMA StillPending ==
    ASSUME NEW t, Pending(t),
           \A c \in calls : c.tab = t => \E d \in calls' : d.tab = t,
           \A i \in DOMAIN writes : writes[i].next \in EndsRefresh =>
               \E j \in DOMAIN writes' : writes'[j].next \in EndsRefresh
    PROVE  Pending(t)'
  BY DEF Pending, EndsRefresh

LEMMA NoWaiterLeft ==
    ASSUME Shapes, NEW t, NEW n, NEW s \in Slots,
           NEW r \in {Resent(t, n), Rejected(t), Dropping(Waiters(t))}, r[s].st = "refreshing"
    PROVE  r[s] = req[s] /\ s \notin Waiters(t)
  <1>1. req[s] \in Rows
    BY DEF Shapes, TypeOK, Rows
  <1>2. ASSUME NEW x, NEW y PROVE [req[s] EXCEPT !.st = "sent", !.tok = x, !.again = y].st = "sent"
    BY <1>1 DEF Rows
  <1>3. [req[s] EXCEPT !.st = "dropping"].st = "dropping"
    BY <1>1 DEF Rows
  <1>4. CASE r = Resent(t, n)
    BY <1>2, <1>4 DEF Resent
  <1>5. CASE r = Rejected(t)
    BY <1>5 DEF Rejected, Idle
  <1>6. CASE r = Dropping(Waiters(t))
    BY <1>3, <1>6 DEF Dropping
  <1> QED
    BY <1>4, <1>5, <1>6

LEMMA WaitersKept ==
    ASSUME Shapes, WaitersAreServed, [Next]_vars
    PROVE  WaitersAreServed'
  <1> SUFFICES ASSUME NEW s \in Slots, req'[s].st = "refreshing", NEW w, w = req'[s].tab
               PROVE  Pending(w)'
    BY DEF WaitersAreServed, Pending
  <1>1. /\ req \in [Slots -> Rows] /\ req[s].tab \in OwnTabs /\ 0 \notin Tabs
        /\ kind # "admin" => OwnTabs = {1} /\ 1 \in OwnTabs
        /\ kind = "admin" => writes = <<>> /\ DOMAIN writes = {}
        /\ OwnTabs \subseteq Tabs
    BY ShapeFacts, AsBefore DEF Shapes, WritesOK
  <1>2. req[s].st = "refreshing" /\ req[s].tab = w => Pending(w)
    BY DEF WaitersAreServed, Pending
  <1>3. CASE req'[s] = req[s] /\ calls \subseteq calls' /\ writes' = writes
    BY <1>2, <1>3, StillPending
  <1>4. ASSUME NEW op, writes' = Append(writes, op), calls \subseteq calls', req'[s] = req[s]
        PROVE  Pending(w)'
    BY <1>2, <1>4, Queued, StillPending
  <1>5. ASSUME NEW c \in calls, CheckRefresh(c) \/ Exchange(c)
        PROVE  Pending(w)'
    <2>1. PICK e : /\ e.tab = c.tab /\ calls' = (calls \ {c}) \cup StillOpen(e)
                   /\ e.tab # 0 => e \in calls'
                   /\ req' = req /\ writes' = writes
      BY <1>5, ServerHandles
    <2> QED
      BY <1>1, <1>2, <2>1, StillPending
  <1>6. ASSUME NEW t \in OwnTabs, Kill(t)
        PROVE  Pending(w)'
    <2>1. req'[s] = IF req[s].tab = t THEN Idle ELSE req[s]
      BY <1>6 DEF Kill
    <2>2. req'[s] = req[s] /\ req[s].tab # t /\ kind = "admin"
      BY <1>1, <2>1 DEF Idle
    <2>3. Pending(w) /\ \A c \in calls : c.tab # t => c \in calls'
      BY <1>2, <1>6, <2>2, KillCalls
    <2> QED
      BY <1>1, <2>2, <2>3, StillPending
  <1>7. ASSUME NEW u \in Slots, BuyerDenied(u) \/ SellerDenied(u) \/ AdminDenied(u)
        PROVE  Pending(w)'
    <2>1. req[u].st = "sent" /\ req[u].tab \in OwnTabs
      BY <1>7, ShapeFacts DEF BuyerDenied, SellerDenied, AdminDenied, Refused10002
    <2>2. CASE Ask(u, req[u].tab)
      <3>1. PICK c : c = [old |-> Held.refresh, new |-> 0, st |-> "asked", tab |-> req[u].tab]
        OBVIOUS
      <3>2. c \in calls' /\ c.tab = req[u].tab /\ calls \subseteq calls' /\ writes' = writes
        BY <2>2, <3>1 DEF Ask
      <3>3. req'[s].tab = req[s].tab /\ (s # u => req'[s] = req[s])
        BY <1>1, <2>2 DEF Ask, Rows
      <3>4. CASE s = u
        BY <3>2, <3>3, <3>4 DEF Pending
      <3>5. CASE s # u
        BY <1>3, <3>2, <3>3, <3>5
      <3> QED
        BY <3>4, <3>5
    <2>3. CASE Join(u) /\ Pending(req[u].tab)
      <3>1. req'[s].tab = req[s].tab /\ (s # u => req'[s] = req[s])
            /\ calls' = calls /\ writes' = writes
        BY <1>1, <2>3 DEF Join, Rows
      <3>2. CASE s = u
        <4>1. Pending(w)
          BY <2>3, <3>1, <3>2 DEF Pending
        <4> QED
          BY <3>1, <4>1, StillPending
      <3>3. CASE s # u
        BY <1>3, <3>1, <3>3
      <3> QED
        BY <3>2, <3>3
    <2>4. CASE Drop(u) \/ (Join(u) /\ ~Pending(req[u].tab))
      <3>1. req' = Dropping({u}) /\ calls' = calls /\ \E op : writes' = Append(writes, op)
        BY <2>4 DEF Drop, Join, Queue
      <3>2. s # u => req'[s] = req[s]
        BY <3>1 DEF Dropping
      <3>3. s # u
        BY <1>1, <3>1 DEF Dropping, Rows
      <3> QED
        BY <1>4, <3>1, <3>2, <3>3
    <2>5. CASE req' = [req EXCEPT ![u] = Idle] /\ calls' = calls /\ writes' = writes
      BY <1>1, <1>3, <2>5 DEF Idle
    <2>6. kind # "admin" => req[u].tab = 1
      BY <1>1, <2>1
    <2>7. \/ Ask(u, req[u].tab) \/ Join(u) \/ Drop(u)
          \/ req' = [req EXCEPT ![u] = Idle] /\ calls' = calls /\ writes' = writes
      BY <1>7, <2>6 DEF BuyerDenied, SellerDenied, AdminDenied, GiveUp
    <2> QED
      BY <2>2, <2>3, <2>4, <2>5, <2>7
  <1>8. ASSUME NEW c \in calls, Granted(c) \/ Denied(c) \/ Lost(c)
        PROVE  Pending(w)'
    <2>1. c.tab \in OwnTabs /\ calls \ {c} \subseteq calls' /\ (kind # "admin" => c.tab = 1)
      BY <1>8, ShapeFacts DEF Granted, Denied, Lost, Heard, Unheard
    <2>2. CASE \E op : writes' = Append(writes, op) /\ op.next \in EndsRefresh
      <3>1. PICK op : writes' = Append(writes, op) /\ op.next \in EndsRefresh
        BY <2>2
      <3>2. Len(writes) + 1 \in DOMAIN writes' /\ writes'[Len(writes) + 1] = op
        BY <3>1, Queued
      <3> QED
        BY <3>1, <3>2 DEF Pending, EndsRefresh
    <2>3. CASE req' \in {Resent(c.tab, c.new), Rejected(c.tab), Dropping(Waiters(c.tab))}
      <3>1. req'[s] = req[s] /\ s \notin Waiters(c.tab)
        BY <2>3, NoWaiterLeft
      <3>2. req[s].tab # c.tab /\ kind = "admin"
        BY <1>1, <2>1, <3>1 DEF Waiters
      <3> QED
        BY <1>1, <1>2, <2>1, <3>1, <3>2, StillPending
    <2>4. CASE kind = "admin"
      BY <1>8, <2>3, <2>4 DEF Granted, Denied, Lost, AdminSignedOut, RefreshEnds
    <2>5. CASE kind # "admin"
      <3>1. CASE Granted(c) \/ Denied(c)
        <4>1. PICK op : /\ writes' = Append(writes, op)
                        /\ op \in {StoreOp(c.new, "refreshed", {}), StoreOp(0, "refused", {})}
          BY <2>5, <3>1 DEF Granted, Denied, Queue
        <4>2. op.next \in EndsRefresh
          BY <4>1 DEF StoreOp, EndsRefresh
        <4> QED
          BY <2>2, <4>1, <4>2
      <3>2. CASE Lost(c)
        BY <2>3, <2>5, <3>2 DEF Lost, RefreshEnds
      <3> QED
        BY <1>8, <3>1, <3>2
    <2> QED
      BY <2>4, <2>5
  <1>9. CASE WriteAccess
    <2>1. /\ DOMAIN writes' = DOMAIN writes /\ calls' = calls /\ req' = req
          /\ \A i \in DOMAIN writes : writes'[i].next = writes[i].next
      BY <1>9, WritesBegin DEF WriteAccess
    <2> QED
      BY <1>2, <2>1, StillPending
  <1>10. CASE WriteRest
    <2>1. PICK op : op = writes[1]
      OBVIOUS
    <2>2. /\ kind # "admin" /\ calls' = calls /\ Head(writes) = op
          /\ \A i \in DOMAIN writes : i # 1 => i - 1 \in DOMAIN writes' /\ writes'[i - 1] = writes[i]
      BY <1>10, <2>1, Popped DEF WriteRest
    <2>3. CASE op.next \in EndsRefresh
      <3>1. req' \in {Resent(1, op.pair), Rejected(1), Dropping(Waiters(1))}
        BY <1>10, <2>2, <2>3 DEF WriteRest, EndsRefresh, ClearsTwice
      <3>2. req'[s] = req[s] /\ s \notin Waiters(1)
        BY <3>1, NoWaiterLeft
      <3> QED
        BY <1>1, <2>2, <3>2 DEF Waiters
    <2>4. CASE op.next \notin EndsRefresh
      <3>1. req'[s] = req[s]
        BY <1>10, <2>2, <2>4 DEF WriteRest, EndsRefresh, ClearsTwice, Idle
      <3>2. \A i \in DOMAIN writes : writes[i].next \in EndsRefresh => i # 1
        BY <2>1, <2>4
      <3> QED
        BY <1>2, <2>2, <3>1, <3>2, StillPending
    <2> QED
      BY <2>3, <2>4
  <1>11. CASE UNCHANGED vars
    BY <1>3, <1>11 DEF vars, client
  <1>12. CASE UserStep
    <2>1. CASE BuyerLogin \/ SellerLogin \/ BuyerLogout \/ SellerLogout
      BY <1>4, <2>1 DEF BuyerLogin, SellerLogin, BuyerLogout, SellerLogout, AppLogin, AppLogout,
                        SignIn, SignOut, Queue
    <2>2. ASSUME NEW t \in OwnTabs, NEW u \in Slots, Send(u, t)
          PROVE  Pending(w)'
      BY <1>1, <1>3, <2>2 DEF Send, Idle
    <2>3. ASSUME NEW t \in OwnTabs, Open(t) \/ Navigate(t) \/ AdminLogin(t) \/ LoginRefused(t) \/ AdminLogout(t)
          PROVE  Pending(w)'
      BY <1>3, <2>3 DEF Open, Navigate, AdminLogin, LoginRefused, AdminLogout, SignIn, SignOut
    <2> QED
      BY <1>6, <1>12, <2>1, <2>2, <2>3 DEF UserStep
  <1>13. ASSUME NEW u \in Slots, Answered(u)
         PROVE  Pending(w)'
    BY <1>1, <1>3, <1>13 DEF Answered, Idle
  <1>14. CASE ServerStep
    BY <1>3, <1>5, <1>14 DEF ServerStep, Expire, Forget, Restart, client
  <1> QED
    BY <1>7, <1>8, <1>9, <1>10, <1>11, <1>12, <1>13, <1>14 DEF Next, RequestStep, RefreshAnswer, StoreStep

\* No request waits for a refresh for ever because nobody is left to answer it:
\* in every tab that waits a call is open or its result is being stored.
THEOREM WaitersCorrect == Spec => []WaitersAreServed
  <1>1. Init => WaitersAreServed
    BY DEF Init, WaitersAreServed, Idle
  <1>2. ShapesInv /\ WaitersAreServed /\ [Next]_vars => WaitersAreServed'
    BY WaitersKept DEF ShapesInv
  <1> QED
    BY <1>1, <1>2, ShapesAlways, PTL DEF Spec

-----------------------------------------------------------------------------
(* The screens of the seller app.                                           *)

LEMMA InsideKept ==
    ASSUME Shapes, InsideHoldsTokens, [Next]_vars
    PROVE  InsideHoldsTokens'
  <1> SUFFICES ASSUME kind' = "seller", page'[1] = "inside"
               PROVE  mem'.access # 0
    BY DEF InsideHoldsTokens
  <1>1. kind = "seller" /\ OwnTabs = {1} /\ 1 \in Tabs /\ page \in [Tabs -> {"off", "login", "inside"}]
    BY KindFixed, ShapeFacts, AsBefore
  <1>2. CASE mem' = mem /\ page' = page
    BY <1>1, <1>2 DEF InsideHoldsTokens
  <1>3. ASSUME NEW t \in OwnTabs, Open(t)
        PROVE  mem'.access # 0
    BY <1>1, <1>3 DEF Open, EntryPage
  <1>4. ASSUME NEW t \in OwnTabs, Kill(t)
        PROVE  mem'.access # 0
    BY <1>1, <1>4 DEF Kill
  <1>5. CASE WriteRest
    <2>1. /\ mem' = Pair(writes[1].pair) /\ Head(writes) = writes[1] /\ writes[1] \in Ops
          /\ (writes[1].pair = 0) = (writes[1].next \in Clears)
      BY <1>5, Popped
    <2>2. page'[1] = PageAfter(writes[1])
      BY <1>1, <1>5, <2>1 DEF WriteRest
    <2>3. writes[1].next \notin Clears
      BY <1>1, <2>2 DEF PageAfter, Clears
    <2> QED
      BY <2>1, <2>3 DEF Pair
  <1>6. CASE UNCHANGED vars
    BY <1>2, <1>6 DEF vars, client
  <1>7. CASE ServerStep
    BY <1>2, <1>7, ServerHandles DEF ServerStep, Expire, Forget, Restart, client
  <1>8. CASE UserStep
    BY <1>1, <1>2, <1>3, <1>4, <1>8
    DEF UserStep, BuyerLogin, SellerLogin, BuyerLogout, SellerLogout, AppLogin, AppLogout, SignIn,
        SignOut, Navigate, AdminLogin, LoginRefused, AdminLogout, Send
  <1>9. ASSUME NEW s \in Slots, RequestStep(s)
        PROVE  mem'.access # 0
    BY <1>1, <1>2, <1>9 DEF RequestStep, Answered, BuyerDenied, SellerDenied, AdminDenied, GiveUp, Drop,
                            Ask, Join
  <1>10. CASE RefreshAnswer
    BY <1>1, <1>2, <1>10 DEF RefreshAnswer, Granted, Denied, Lost
  <1>11. CASE WriteAccess
    BY <1>2, <1>11 DEF WriteAccess
  <1> QED
    BY <1>5, <1>6, <1>7, <1>8, <1>9, <1>10, <1>11 DEF Next, StoreStep

\* Whatever clears the store of the seller app also shows its login page, so its
\* screens are never left open over an empty store.
THEOREM InsideCorrect == Spec => []InsideHoldsTokens
  <1>1. Init => InsideHoldsTokens
    BY TabsAssumption DEF Init, InsideHoldsTokens
  <1>2. ShapesInv /\ InsideHoldsTokens /\ [Next]_vars => InsideHoldsTokens'
    BY InsideKept DEF ShapesInv
  <1> QED
    BY <1>1, <1>2, ShapesAlways, PTL DEF Spec

-----------------------------------------------------------------------------
(* One refresh at a time.                                                   *)

LEMMA OneRefreshKept ==
    ASSUME Shapes, cut \/ OneRefresh, [Next]_vars
    PROVE  (cut \/ OneRefresh)'
  <1> SUFFICES ASSUME ~cut'
               PROVE  OneRefresh'
    OBVIOUS
  <1>1. cut => cut'
    BY DEF vars, Next, ServerStep, UserStep, RequestStep, RefreshAnswer, StoreStep, CheckRefresh,
           Exchange, Expire, Forget, Restart, BuyerLogin, SellerLogin, BuyerLogout, SellerLogout,
           AppLogin, AppLogout, SignIn, SignOut, Open, Navigate, Kill, AdminLogin, LoginRefused,
           AdminLogout, Send, Answered, BuyerDenied, SellerDenied, AdminDenied, Granted, Denied, Lost,
           WriteAccess, WriteRest, history
  <1>2. OneRefresh
    BY <1>1
  <1>3. /\ flight \in [Tabs -> BOOLEAN] /\ 0 \notin Tabs /\ OwnTabs \subseteq Tabs /\ 1 \in OwnTabs
        /\ kind # "admin" => OwnTabs = {1}
        /\ kind = "admin" => writes = <<>> /\ DOMAIN writes = {}
        /\ \A c \in calls : c.tab \in OwnTabs \cup {0}
    BY ShapeFacts, AsBefore DEF Shapes, WritesOK
  <1>4. CASE UNCHANGED <<calls, writes, flight>>
    BY <1>2, <1>4 DEF OneRefresh
  <1>5. ASSUME NEW op, writes' = Append(writes, op), op.next \notin EndsRefresh, flight' = flight,
               calls' = calls \/ \E c \in calls : Unheard(c)
        PROVE  OneRefresh'
    <2>1. \A d \in calls' : d \in calls \/ d.tab = 0
      BY <1>5, NotHeard
    <2>2. \A i \in DOMAIN writes' : \/ i \in DOMAIN writes /\ writes'[i] = writes[i]
                                    \/ writes'[i].next \notin EndsRefresh
      BY <1>5, Queued
    <2> QED
      BY <1>2, <1>3, <1>5, <2>1, <2>2 DEF OneRefresh
  <1>6. ASSUME NEW c \in calls, CheckRefresh(c) \/ Exchange(c)
        PROVE  OneRefresh'
    <2>1. PICK e : e.tab = c.tab /\ calls' = (calls \ {c}) \cup StillOpen(e)
      BY <1>6, ServerHandles
    <2>2. flight' = flight /\ writes' = writes
      BY <1>6, ServerHandles
    <2>3. \A d \in calls' : d \in calls \ {c} \/ d = e
      BY <2>1 DEF StillOpen
    <2> QED
      BY <1>2, <2>1, <2>2, <2>3 DEF OneRefresh
  <1>7. ASSUME NEW t \in OwnTabs, Kill(t)
        PROVE  OneRefresh'
    <2>1. /\ writes' = <<>> /\ flight' = [flight EXCEPT ![t] = FALSE]
          /\ \A d \in calls' : (d \in calls /\ d.tab # t) \/ d.tab = 0
      BY <1>7, KillCalls DEF Kill
    <2> QED
      BY <1>2, <1>3, <2>1 DEF OneRefresh
  <1>8. ASSUME NEW s \in Slots, NEW t \in OwnTabs, ~flight[t], Ask(s, t)
        PROVE  OneRefresh'
    <2>1. PICK c : c = [old |-> Held.refresh, new |-> 0, st |-> "asked", tab |-> t]
      OBVIOUS
    <2>2. /\ calls' = calls \cup {c} /\ c.tab = t /\ writes' = writes
          /\ flight' = [flight EXCEPT ![t] = TRUE]
      BY <1>8, <2>1 DEF Ask
    <2>3. \A d \in calls : d.tab # t
      BY <1>2, <1>3, <1>8 DEF OneRefresh
    <2>4. \A i \in DOMAIN writes : writes[i].next \notin EndsRefresh
      BY <1>2, <1>3, <1>8 DEF OneRefresh
    <2> QED
      BY <1>2, <1>3, <2>2, <2>3, <2>4 DEF OneRefresh
  <1>9. ASSUME NEW c \in calls, Heard(c), c.tab # 0, kind # "admin",
               NEW op, writes' = Append(writes, op), op.next \in EndsRefresh, flight' = flight
        PROVE  OneRefresh'
    <2>1. c.tab = 1 /\ flight[1] /\ calls' = calls \ {c} /\ \A d \in calls' : d.tab # 1
      BY <1>2, <1>3, <1>9 DEF OneRefresh, Heard
    <2>2. \A i \in DOMAIN writes : writes[i].next \notin EndsRefresh
      BY <1>2, <2>1 DEF OneRefresh
    <2>3. \A i \in DOMAIN writes' : \/ i \in DOMAIN writes /\ writes'[i] = writes[i]
                                    \/ i = Len(writes) + 1
      BY <1>9, Queued
    <2> QED
      BY <1>2, <1>3, <1>9, <2>1, <2>2, <2>3 DEF OneRefresh
  <1>10. ASSUME NEW c \in calls, Heard(c) \/ Unheard(c), c.tab # 0, writes' = writes,
                flight' = [flight EXCEPT ![c.tab] = FALSE], kind = "admin" \/ Unheard(c)
         PROVE  OneRefresh'
    <2>1. \A d \in calls' : (d \in calls /\ d # c) \/ d.tab = 0
      BY <1>10, NotHeard DEF Heard
    <2>2. \A i \in DOMAIN writes : writes[i].next \notin EndsRefresh
      BY <1>2, <1>3, <1>10 DEF OneRefresh
    <2> QED
      BY <1>2, <1>3, <1>10, <2>1, <2>2 DEF OneRefresh
  <1>11. CASE WriteAccess
    <2>1. /\ DOMAIN writes' = DOMAIN writes /\ calls' = calls /\ flight' = flight
          /\ \A i \in DOMAIN writes : writes'[i].next = writes[i].next
      BY <1>11, WritesBegin DEF WriteAccess
    <2> QED
      BY <1>2, <2>1 DEF OneRefresh
  <1>12. CASE WriteRest
    <2>1. PICK op : op = writes[1]
      OBVIOUS
    <2>2. /\ 1 \in DOMAIN writes /\ kind # "admin" /\ calls' = calls /\ Head(writes) = op
          /\ DOMAIN writes = 1 .. Len(writes) /\ Len(writes) \in Nat \ {0}
      BY <1>12, <2>1, Popped DEF WriteRest
    <2>3. \A i \in DOMAIN writes' : \/ i + 1 \in DOMAIN writes /\ writes'[i] = writes[i + 1] /\ i + 1 # 1 /\ i \in Int
                                    \/ writes'[i].next = "rejected"
      <3>1. StoreOp(0, "rejected", Waiters(1)).next = "rejected"
        BY DEF StoreOp
      <3>2. \A i \in DOMAIN writes' :
               \/ writes'[i] = StoreOp(0, "rejected", Waiters(1))
               \/ i \in 1 .. Len(writes) - 1 /\ i + 1 \in DOMAIN writes /\ writes'[i] = writes[i + 1]
        BY <1>12, Popped
      <3> QED
        BY <2>2, <3>1, <3>2
    <2>4. CASE op.next \in EndsRefresh
      <3>1. \A i \in DOMAIN writes' : writes'[i].next \notin EndsRefresh
        BY <1>2, <2>1, <2>2, <2>3, <2>4 DEF OneRefresh, EndsRefresh
      <3>2. \A c \in calls : c.tab = 0
        BY <1>2, <1>3, <2>1, <2>2, <2>4 DEF OneRefresh
      <3> QED
        BY <2>2, <3>1, <3>2 DEF OneRefresh
    <2>5. CASE op.next = "rejected"
      <3>1. ~Pending(1)
        BY <1>12, <2>2, <2>5 DEF WriteRest, ClearsTwice
      <3>2. /\ \A c \in calls : c.tab = 0
            /\ \A i \in DOMAIN writes : writes[i].next \notin EndsRefresh
        BY <1>3, <2>2, <3>1 DEF Pending, EndsRefresh
      <3>3. \A i \in DOMAIN writes' : writes'[i].next \notin EndsRefresh
        BY <2>3, <3>2 DEF EndsRefresh
      <3> QED
        BY <2>2, <3>2, <3>3 DEF OneRefresh
    <2>6. CASE op.next \notin EndsRefresh \cup {"rejected"}
      <3>1. flight' = flight
        <4>1. flight' = [flight EXCEPT ![1] = @ /\ op.next \notin {"refreshed", "refused", "rejected"}]
          BY <1>12, <2>2, <2>6 DEF WriteRest, ClearsTwice, EndsRefresh
        <4> QED
          BY <1>3, <2>6, <4>1 DEF EndsRefresh
      <3>2. \A i, j \in DOMAIN writes' :
               writes'[i].next \in EndsRefresh /\ writes'[j].next \in EndsRefresh => i = j
        <4> SUFFICES ASSUME NEW i \in DOMAIN writes', NEW j \in DOMAIN writes',
                            writes'[i].next \in EndsRefresh, writes'[j].next \in EndsRefresh
                     PROVE  i = j
          OBVIOUS
        <4>1. i \in Int /\ j \in Int /\ i + 1 = j + 1
          BY <1>2, <2>3 DEF OneRefresh, EndsRefresh
        <4> QED
          BY <4>1
      <3>3. \A i \in DOMAIN writes' : writes'[i].next \in EndsRefresh =>
               flight[1] /\ \A c \in calls : c.tab # 1
        BY <1>2, <2>3 DEF OneRefresh, EndsRefresh
      <3> QED
        BY <1>2, <2>2, <3>1, <3>2, <3>3 DEF OneRefresh
    <2> QED
      BY <2>4, <2>5, <2>6
  <1>13. ASSUME NEW s \in Slots, BuyerDenied(s) \/ SellerDenied(s) \/ AdminDenied(s)
         PROVE  OneRefresh'
    <2>1. req[s].tab \in OwnTabs /\ (kind # "admin" => req[s].tab = 1)
      BY <1>3, ShapeFacts
    <2>2. \/ ~flight[req[s].tab] /\ Ask(s, req[s].tab)
          \/ UNCHANGED <<calls, writes, flight>>
          \/ /\ calls' = calls /\ flight' = flight
             /\ \E next \in {"dropped", "rejected"} : writes' = Append(writes, StoreOp(0, next, {s}))
      BY <1>13, <2>1 DEF BuyerDenied, SellerDenied, AdminDenied, GiveUp, Drop, Join, Queue
    <2>3. ASSUME NEW next \in {"dropped", "rejected"}
          PROVE  StoreOp(0, next, {s}).next \notin EndsRefresh
      BY DEF StoreOp, EndsRefresh
    <2> QED
      BY <1>4, <1>5, <1>8, <2>1, <2>2, <2>3
  <1>14. ASSUME NEW c \in calls, Granted(c) \/ Denied(c) \/ Lost(c)
         PROVE  OneRefresh'
    <2>1. CASE kind = "admin"
      BY <1>10, <1>14, <2>1 DEF Granted, Denied, Lost, AdminSignedOut, RefreshEnds
    <2>2. CASE kind # "admin" /\ ~Lost(c)
      <3>1. PICK op : /\ writes' = Append(writes, op)
                      /\ op \in {StoreOp(c.new, "refreshed", {}), StoreOp(0, "refused", {})}
        BY <1>14, <2>2 DEF Granted, Denied, Queue
      <3>2. op.next \in EndsRefresh
        BY <3>1 DEF StoreOp, EndsRefresh
      <3>3. Heard(c) /\ c.tab # 0 /\ flight' = flight
        BY <1>14, <2>2 DEF Granted, Denied
      <3> QED
        BY <1>9, <2>2, <3>1, <3>2, <3>3
    <2>3. CASE kind = "buyer" /\ Lost(c)
      BY <1>10, <2>3 DEF Lost, RefreshEnds
    <2>4. CASE kind = "seller" /\ Lost(c)
      <3>1. PICK op : writes' = Append(writes, op) /\ op = StoreOp(0, "rejected", Waiters(c.tab))
        BY <2>4 DEF Lost, Queue
      <3>2. op.next \notin EndsRefresh
        BY <3>1 DEF StoreOp, EndsRefresh
      <3> QED
        BY <1>5, <2>4, <3>1, <3>2 DEF Lost
    <2> QED
      BY <1>14, <2>1, <2>2, <2>3, <2>4, ShapeFacts
  <1>15. CASE UserStep
    <2>1. CASE BuyerLogin \/ SellerLogin \/ BuyerLogout \/ SellerLogout
      <3>1. PICK op : /\ writes' = Append(writes, op)
                      /\ op \in {StoreOp(pairs', "login", {}), StoreOp(0, "logout", {})}
        BY <2>1 DEF BuyerLogin, SellerLogin, BuyerLogout, SellerLogout, AppLogin, AppLogout, Queue
      <3>2. op.next \notin EndsRefresh
        BY <3>1 DEF StoreOp, EndsRefresh
      <3>3. calls' = calls /\ flight' = flight
        BY <2>1 DEF BuyerLogin, SellerLogin, BuyerLogout, SellerLogout, AppLogin, AppLogout, SignIn, SignOut
      <3> QED
        BY <1>5, <3>1, <3>2, <3>3
    <2>2. CASE \E t \in OwnTabs : \/ Open(t) \/ Navigate(t) \/ AdminLogin(t) \/ LoginRefused(t)
                                  \/ AdminLogout(t) \/ \E s \in Slots : Send(s, t)
      BY <1>4, <2>2 DEF Open, Navigate, AdminLogin, LoginRefused, AdminLogout, SignIn, SignOut, Send
    <2> QED
      BY <1>7, <1>15, <2>1, <2>2 DEF UserStep
  <1>16. CASE ServerStep
    BY <1>4, <1>6, <1>16 DEF ServerStep, Expire, Forget, Restart, client
  <1>17. CASE UNCHANGED vars
    BY <1>4, <1>17 DEF vars, client
  <1>18. ASSUME NEW s \in Slots, Answered(s)
         PROVE  OneRefresh'
    BY <1>4, <1>18 DEF Answered
  <1> QED
    BY <1>11, <1>12, <1>13, <1>14, <1>15, <1>16, <1>17, <1>18 DEF Next, RequestStep, RefreshAnswer, StoreStep

LEMMA OneRefreshAlways == Spec => [](cut \/ OneRefresh)
  <1>1. Init => cut \/ OneRefresh
    BY DEF Init, OneRefresh
  <1>2. ShapesInv /\ (cut \/ OneRefresh) /\ [Next]_vars => (cut \/ OneRefresh)'
    BY OneRefreshKept DEF ShapesInv
  <1> QED
    BY <1>1, <1>2, ShapesAlways, PTL DEF Spec

\* However many requests are denied at once, a tab has one refresh call open: the
\* flag of the tab is set before the call is made and cleared when it is over.
THEOREM OneRefreshCorrect == Spec => []OneRefreshAtATime
  <1>1. ASSUME OneRefresh, NEW t \in OwnTabs, Shapes
        PROVE  Cardinality({c \in calls : c.tab = t}) <= 1
    <2>1. PICK S : S = {c \in calls : c.tab = t}
      OBVIOUS
    <2>2. \A c, d \in S : c = d
      BY <1>1, <2>1, ShapeFacts DEF OneRefresh
    <2>3. CASE S = {}
      BY <2>1, <2>3, FS_EmptySet
    <2>4. CASE S # {}
      <3>1. PICK c \in S : S = {c}
        BY <2>2, <2>4
      <3>2. Cardinality(S) = 1
        BY <3>1, FS_Singleton
      <3> QED
        BY <2>1, <3>2
    <2> QED
      BY <2>3, <2>4
  <1>2. ShapesInv /\ (cut \/ OneRefresh) => OneRefreshAtATime
    BY <1>1 DEF ShapesInv, OneRefreshAtATime
  <1> QED
    BY <1>2, ShapesAlways, OneRefreshAlways, PTL

-----------------------------------------------------------------------------
(* After a sign-out.                                                        *)

\* A denied request refreshes, clears the store of an app, or does neither.
Clearing(s, next) ==
    /\ kind # "admin" /\ UNCHANGED <<calls, flight, left, disk>>
    /\ writes' = Append(writes, StoreOp(0, next, {s}))
    /\ hurt' = (hurt \/ SigningIn)
    /\ next = "dropped" => mem.refresh = 0 /\ (flight[1] => kind = "seller")
    /\ next = "rejected" => mem.refresh # 0 /\ flight[1] /\ ~Pending(1)

LEMMA DeniedSteps ==
    ASSUME Shapes, AdminFlight, NEW s \in Slots, BuyerDenied(s) \/ SellerDenied(s) \/ AdminDenied(s)
    PROVE  /\ UNCHANGED <<kind, live, pairs, mem, mine, cut>> /\ req[s].tab \in OwnTabs
           /\ kind # "admin" => req[s].tab = 1 /\ page[1] # "off" /\ UNCHANGED <<disk, page>>
           /\ \/ Held.refresh # 0 /\ ~flight[req[s].tab] /\ Ask(s, req[s].tab)
              \/ /\ UNCHANGED <<calls, writes, flight, left, hurt>>
                 /\ disk' = disk \/ (kind = "admin" /\ disk' = NoTokens /\ disk.refresh = 0)
              \/ Clearing(s, "dropped")
              \/ Clearing(s, "rejected")
  <1>1. /\ req[s].tab \in OwnTabs /\ (kind # "admin" => req[s].tab = 1)
        /\ kind = "admin" /\ flight[req[s].tab] => Pending(req[s].tab)
    BY ShapeFacts DEF AdminFlight, Pending
  <1>2. req[s].st = "sent" /\ UNCHANGED <<kind, server, mem, mine, cut>>
    BY DEF BuyerDenied, SellerDenied, AdminDenied, Refused10002
  <1>3. kind # "admin" => page[1] # "off"
    BY <1>1, <1>2, ShapeFacts DEF Shapes, PageOK
  <1>4. CASE BuyerDenied(s)
    BY <1>1, <1>2, <1>3, <1>4 DEF BuyerDenied, GiveUp, Drop, Ask, Held, Clearing, Queue, server
  <1>5. CASE SellerDenied(s)
    <2>1. CASE mem.refresh = 0 /\ Drop(s)
      BY <1>1, <1>2, <1>3, <1>5, <2>1 DEF SellerDenied, Drop, Clearing, Queue, server
    <2>2. CASE mem.refresh # 0 /\ ~flight[1] /\ Ask(s, 1)
      BY <1>1, <1>2, <1>3, <1>5, <2>2 DEF SellerDenied, Ask, Held, server
    <2>3. CASE mem.refresh # 0 /\ flight[1] /\ Join(s) /\ Pending(1)
      BY <1>1, <1>2, <1>3, <1>5, <2>3 DEF SellerDenied, Join, server
    <2>4. CASE mem.refresh # 0 /\ flight[1] /\ Join(s) /\ ~Pending(1)
      <3>1. /\ kind # "admin" /\ writes' = Append(writes, StoreOp(0, "rejected", {s}))
            /\ hurt' = (hurt \/ SigningIn) /\ UNCHANGED <<calls, flight, left, disk, page>>
        BY <1>1, <1>5, <2>4 DEF SellerDenied, Join, Queue
      <3>2. Clearing(s, "rejected")
        BY <2>4, <3>1 DEF Clearing
      <3> QED
        BY <1>1, <1>2, <1>3, <3>1, <3>2 DEF server
    <2> QED
      BY <1>5, <2>1, <2>2, <2>3, <2>4 DEF SellerDenied
  <1>6. CASE AdminDenied(s)
    <2>1. kind = "admin"
      BY <1>6 DEF AdminDenied
    <2>2. CASE Ask(s, req[s].tab) /\ disk.refresh # 0 /\ ~flight[req[s].tab]
      BY <1>1, <1>2, <2>1, <2>2 DEF Held, server
    <2>3. CASE Join(s) /\ Pending(req[s].tab)
      BY <1>1, <1>2, <2>1, <2>3 DEF Join, server
    <2>4. CASE GiveUp(s)
      BY <1>1, <1>2, <2>1, <2>4 DEF GiveUp, server
    <2>5. CASE disk' = NoTokens /\ disk.refresh = 0 /\ UNCHANGED <<calls, writes, flight, left, hurt>>
      BY <1>1, <1>2, <2>1, <2>5 DEF server
    <2> QED
      BY <1>1, <1>6, <2>1, <2>2, <2>3, <2>4, <2>5 DEF AdminDenied
  <1> QED
    BY <1>4, <1>5, <1>6

\* The calls keep their tabs, the storage its calls and the clients their tokens.
LEMMA StaysSignedOut ==
    ASSUME SignedOut, kind' = kind, left' = "clean" => left = "clean", writes' = writes,
           \A c \in calls' : c \in calls \/ c.tab = 0,
           disk' \in {disk, NoTokens},
           mem' \in {mem, NoTokens, disk} \/ kind = "admin"
    PROVE  SignedOut'
  BY DEF SignedOut, SigningOut

LEMMA SignedOutKept ==
    ASSUME Shapes, AdminFlight, SignedOut, [Next]_vars
    PROVE  SignedOut'
  <1> SUFFICES ASSUME left' = "clean"
               PROVE  SignedOut'
    BY DEF SignedOut
  <1>1. /\ 0 \notin Tabs /\ OwnTabs \subseteq Tabs /\ 1 \in OwnTabs
        /\ kind # "admin" => OwnTabs = {1}
        /\ kind = "admin" => writes = <<>> /\ DOMAIN writes = {}
        /\ \A c \in calls : c.tab \in OwnTabs \cup {0}
        /\ \A i \in DOMAIN writes : writes[i].next \in {"login", "refreshed"} \cup Clears
    <2>1. writes \in Seq(Ops) /\ \A i \in DOMAIN writes : writes[i] \in Ops
      BY ElementOfSeq, LenProperties DEF Shapes, WritesOK
    <2> QED
      BY <2>1, ShapeFacts DEF Shapes, WritesOK, Ops
  <1>2. left = "clean" =>
           /\ \A c \in calls : c.tab = 0
           /\ \A i \in DOMAIN writes : writes[i].next \in Clears \ {"refused"}
           /\ ~SigningOut => disk = NoTokens /\ (kind = "admin" \/ mem = NoTokens)
    BY DEF SignedOut
  <1>3. ASSUME NEW op, writes' = Append(writes, op), op.next \in {"dropped", "rejected"},
               UNCHANGED <<kind, calls, disk, mem, left>>
        PROVE  SignedOut'
    <2>1. \A i \in DOMAIN writes' : \/ i \in DOMAIN writes /\ writes'[i] = writes[i]
                                    \/ writes'[i] = op
      BY <1>3, Queued
    <2>2. SigningOut => SigningOut'
      BY <1>3, Queued DEF SigningOut
    <2> QED
      BY <1>2, <1>3, <2>1, <2>2 DEF SignedOut, Clears
  <1>4. CASE AppLogout /\ kind # "admin"
    <2>1. PICK op : op = StoreOp(0, "logout", {})
      OBVIOUS
    <2>2. op.next = "logout" /\ writes' = Append(writes, op)
      BY <1>4, <2>1 DEF StoreOp, AppLogout, Queue
    <2>3. ~Pending(1) /\ calls' = calls /\ kind' = kind
      BY <1>1, <1>4 DEF AppLogout, SignOut
    <2>4. \A c \in calls : c.tab = 0
      BY <1>1, <1>4, <2>3 DEF Pending
    <2>5. ~SigningIn
      BY <1>4 DEF AppLogout, Shapes, PageOK
    <2>6. \A i \in DOMAIN writes : writes[i].next \in Clears \ {"refused"}
      BY <1>1, <2>3, <2>5 DEF Pending, SigningIn
    <2>7. /\ Len(writes) + 1 \in DOMAIN writes' /\ writes'[Len(writes) + 1] = op
          /\ \A i \in DOMAIN writes' : \/ i \in DOMAIN writes /\ writes'[i] = writes[i]
                                       \/ writes'[i] = op
      BY <2>2, Queued
    <2>8. SigningOut'
      BY <2>2, <2>7 DEF SigningOut
    <2> QED
      BY <2>2, <2>3, <2>4, <2>6, <2>7, <2>8 DEF SignedOut, Clears
  <1>5. ASSUME NEW t \in OwnTabs, AdminLogout(t)
        PROVE  SignedOut'
    <2>1. /\ kind = "admin" /\ kind' = kind /\ calls' = calls /\ writes' = writes /\ disk' = NoTokens
          /\ \A u \in OwnTabs : ~Pending(u)
      BY <1>5 DEF AdminLogout, SignOut
    <2> QED
      BY <1>1, <2>1 DEF SignedOut, Pending
  <1>6. ASSUME NEW c \in calls, Granted(c) \/ Denied(c) \/ Lost(c)
        PROVE  FALSE
    BY <1>2, <1>6 DEF Granted, Denied, Lost
  <1>7. ASSUME NEW s \in Slots, BuyerDenied(s) \/ SellerDenied(s) \/ AdminDenied(s)
        PROVE  SignedOut'
    <2>1. CASE Held.refresh # 0 /\ Ask(s, req[s].tab)
      <3>1. left = "clean" /\ ~SigningOut
        BY <2>1 DEF Ask
      <3> QED
        BY <1>2, <2>1, <3>1 DEF Held, NoTokens
    <2>2. ASSUME NEW next \in {"dropped", "rejected"}, Clearing(s, next)
          PROVE  SignedOut'
      <3>1. PICK op : op = StoreOp(0, next, {s})
        OBVIOUS
      <3>2. op.next = next /\ writes' = Append(writes, op) /\ UNCHANGED <<calls, disk, left>>
        BY <2>2, <3>1 DEF StoreOp, Clearing
      <3>3. UNCHANGED <<kind, mem>>
        BY <1>7, DeniedSteps
      <3> QED
        BY <1>3, <3>2, <3>3
    <2>3. CASE UNCHANGED <<calls, writes, left>> /\ disk' \in {disk, NoTokens} /\ UNCHANGED <<kind, mem>>
      BY <2>3, StaysSignedOut
    <2> QED
      BY <1>7, <2>1, <2>2, <2>3, DeniedSteps
  <1>8. CASE WriteAccess
    <2>1. /\ DOMAIN writes' = DOMAIN writes /\ writes # <<>> /\ 1 \in DOMAIN writes
          /\ \A i \in DOMAIN writes : writes'[i].next = writes[i].next
          /\ UNCHANGED <<kind, calls, mem, left>> /\ disk' = [disk EXCEPT !.access = writes[1].pair]
      <3>1. writes \in Seq(Ops) /\ writes # <<>>
        BY <1>8 DEF WriteAccess, Shapes, WritesOK
      <3>2. Head(writes) = writes[1] /\ 1 \in DOMAIN writes
        BY <3>1, TailFacts
      <3> QED
        BY <1>8, <3>1, <3>2, WritesBegin DEF WriteAccess, history
    <2>2. writes[1].pair = 0
      BY <1>2, <2>1 DEF Shapes, WritesOK, OpOK
    <2>3. disk = NoTokens => disk' = NoTokens
      BY <2>1, <2>2 DEF NoTokens
    <2>4. SigningOut' = SigningOut
      BY <2>1 DEF SigningOut
    <2> QED
      BY <1>2, <2>1, <2>3, <2>4 DEF SignedOut
  <1>9. CASE WriteRest
    <2>1. left = "clean" /\ UNCHANGED <<kind, calls>>
      BY <1>9 DEF WriteRest
    <2>2. /\ 1 \in DOMAIN writes /\ disk' = Pair(writes[1].pair) /\ mem' = Pair(writes[1].pair)
          /\ (writes[1].pair = 0) = (writes[1].next \in Clears)
      BY <1>9, Popped
    <2>3. ~ClearsTwice(writes[1])
      BY <1>2, <2>1, <2>2 DEF ClearsTwice
    <2>4. \A i \in DOMAIN writes' : i + 1 \in DOMAIN writes /\ writes'[i] = writes[i + 1]
      BY <1>9, <2>3, Popped
    <2>5. disk' = NoTokens /\ mem' = NoTokens
      BY <1>2, <2>1, <2>2 DEF Pair, NoTokens
    <2> QED
      BY <1>2, <2>1, <2>4, <2>5 DEF SignedOut
  <1>10. ASSUME NEW t \in OwnTabs, Kill(t)
         PROVE  SignedOut'
    <2>1. left = "clean" /\ ~SigningOut /\ UNCHANGED <<kind, disk>> /\ mem' = NoTokens /\ writes' = <<>>
      BY <1>10 DEF Kill
    <2>2. \A d \in calls' : d \in calls \/ d.tab = 0
      BY <1>10, KillCalls
    <2> QED
      BY <1>2, <2>1, <2>2 DEF SignedOut
  <1>11. ASSUME NEW c \in calls, CheckRefresh(c) \/ Exchange(c)
         PROVE  SignedOut'
    <2>1. PICK e : e.tab = c.tab /\ calls' = (calls \ {c}) \cup StillOpen(e)
      BY <1>11, ServerHandles
    <2>2. UNCHANGED <<kind, disk, mem, writes, left>>
      BY <1>11, ServerHandles
    <2>3. \A d \in calls' : d \in calls \/ d.tab = 0
      BY <1>2, <2>1, <2>2 DEF StillOpen
    <2> QED
      BY <2>2, <2>3, StaysSignedOut
  <1>12. ASSUME NEW t \in OwnTabs, Open(t)
         PROVE  SignedOut'
    BY <1>12, StaysSignedOut DEF Open, history
  <1>13. CASE UserStep
    <2>1. CASE AppLogin \/ \E t \in OwnTabs : AdminLogin(t)
      BY <2>1 DEF AppLogin, AdminLogin, SignIn
    <2>2. CASE \E t \in OwnTabs : Navigate(t) \/ LoginRefused(t) \/ \E s \in Slots : Send(s, t)
      BY <2>2, StaysSignedOut DEF Navigate, LoginRefused, Send, history
    <2> QED
      BY <1>4, <1>5, <1>10, <1>12, <1>13, <2>1, <2>2
      DEF UserStep, BuyerLogin, SellerLogin, BuyerLogout, SellerLogout
  <1>14. CASE ServerStep
    <2>1. CASE Restart \/ \E p \in 1 .. pairs : Expire(p) \/ Forget(p)
      BY <2>1, StaysSignedOut DEF Restart, Expire, Forget, client, history
    <2> QED
      BY <1>11, <1>14, <2>1 DEF ServerStep
  <1>15. CASE UNCHANGED vars
    BY <1>15, StaysSignedOut DEF vars, client, history
  <1>16. ASSUME NEW s \in Slots, Answered(s)
         PROVE  SignedOut'
    BY <1>16, StaysSignedOut DEF Answered, history
  <1> QED
    BY <1>6, <1>7, <1>8, <1>9, <1>13, <1>14, <1>15, <1>16 DEF Next, RequestStep, RefreshAnswer, StoreStep

LEMMA SignedOutAlways == Spec => []SignedOut
  <1>1. Init => SignedOut
    BY DEF Init, SignedOut
  <1>2. ShapesInv /\ SignedOut /\ [Next]_vars => SignedOut'
    BY SignedOutKept DEF ShapesInv
  <1> QED
    BY <1>1, <1>2, ShapesAlways, PTL DEF Spec

\* No late answer and no storage call brings the tokens back after a sign-out that
\* met no refresh under way and was stored before the app was killed.
THEOREM SignOutCorrect == Spec => []SignOutSticks
  <1>1. ShapesInv /\ SignedOut => SignOutSticks
    <2> SUFFICES ASSUME ShapesInv, SignedOut, left = "clean", Rest
                 PROVE  Held = NoTokens /\ disk = NoTokens
      BY DEF SignOutSticks
    <2>1. ~SigningOut
      BY DEF Rest, SigningOut
    <2> QED
      BY <2>1 DEF SignedOut, Held
  <1> QED
    BY <1>1, ShapesAlways, SignedOutAlways, PTL

-----------------------------------------------------------------------------
(* The session of an app.                                                   *)

LEMMA FlightKept ==
    ASSUME Shapes, AdminFlight, FlightMeans, [Next]_vars
    PROVE  FlightMeans'
  <1> SUFFICES ASSUME kind' # "admin", flight'[1]
               PROVE  (Pending(1) \/ \E i \in DOMAIN writes : writes[i].next = "rejected")'
    BY DEF FlightMeans
  <1>1. /\ kind # "admin" /\ OwnTabs = {1} /\ 1 \in Tabs /\ flight \in [Tabs -> BOOLEAN]
        /\ \A c \in calls : c.tab \in {0, 1}
    BY KindFixed, ShapeFacts, AsBefore
  <1>2. flight[1] => \/ \E c \in calls : c.tab = 1
                     \/ \E i \in DOMAIN writes : writes[i].next \in EndsRefresh \cup {"rejected"}
    BY <1>1 DEF FlightMeans, Pending, EndsRefresh
  <1>3. SUFFICES \/ \E c \in calls' : c.tab = 1
                 \/ \E i \in DOMAIN writes' : writes'[i].next \in EndsRefresh \cup {"rejected"}
    BY DEF Pending, EndsRefresh
  <1>4. CASE UNCHANGED <<calls, flight, writes>>
    BY <1>2, <1>4
  <1>5. ASSUME NEW op, writes' = Append(writes, op), calls' = calls, flight' = flight
        PROVE  \/ \E c \in calls' : c.tab = 1
               \/ \E i \in DOMAIN writes' : writes'[i].next \in EndsRefresh \cup {"rejected"}
    BY <1>2, <1>5, Queued
  <1>6. ASSUME NEW op, writes' = Append(writes, op), op.next \in EndsRefresh \cup {"rejected"}
        PROVE  \E i \in DOMAIN writes' : writes'[i].next \in EndsRefresh \cup {"rejected"}
    BY <1>6, Queued
  <1>7. ASSUME NEW c \in calls, CheckRefresh(c) \/ Exchange(c)
        PROVE  \/ \E d \in calls' : d.tab = 1
               \/ \E i \in DOMAIN writes' : writes'[i].next \in EndsRefresh \cup {"rejected"}
    <2>1. PICK e : /\ e.tab = c.tab /\ calls' = (calls \ {c}) \cup StillOpen(e)
                   /\ e.tab # 0 => e \in calls'
                   /\ UNCHANGED <<flight, writes>>
      BY <1>7, ServerHandles
    <2> QED
      BY <1>2, <2>1
  <1>8. ASSUME NEW t \in OwnTabs, Kill(t)
        PROVE  FALSE
    BY <1>1, <1>8 DEF Kill
  <1>9. ASSUME NEW s \in Slots, BuyerDenied(s) \/ SellerDenied(s) \/ AdminDenied(s)
        PROVE  \/ \E d \in calls' : d.tab = 1
               \/ \E i \in DOMAIN writes' : writes'[i].next \in EndsRefresh \cup {"rejected"}
    <2>1. CASE Ask(s, req[s].tab)
      <3>1. [old |-> Held.refresh, new |-> 0, st |-> "asked", tab |-> 1] \in calls'
        BY <1>1, <1>9, <2>1, DeniedSteps DEF Ask
      <3> QED
        BY <3>1
    <2>2. CASE Clearing(s, "dropped") \/ Clearing(s, "rejected")
      BY <1>5, <2>2 DEF Clearing
    <2> QED
      BY <1>4, <1>9, <2>1, <2>2, DeniedSteps
  <1>10. ASSUME NEW c \in calls, Granted(c) \/ Denied(c) \/ Lost(c)
         PROVE  \/ \E d \in calls' : d.tab = 1
                \/ \E i \in DOMAIN writes' : writes'[i].next \in EndsRefresh \cup {"rejected"}
    <2>1. CASE kind = "buyer" /\ Lost(c)
      BY <1>1, <2>1 DEF Lost, RefreshEnds
    <2>2. CASE ~(kind = "buyer" /\ Lost(c))
      <3>1. PICK op : /\ writes' = Append(writes, op)
                      /\ op \in {StoreOp(c.new, "refreshed", {}), StoreOp(0, "refused", {}),
                                 StoreOp(0, "rejected", Waiters(c.tab))}
        BY <1>1, <1>10, <2>2 DEF Granted, Denied, Lost, Queue
      <3>2. op.next \in EndsRefresh \cup {"rejected"}
        BY <3>1 DEF StoreOp, EndsRefresh
      <3> QED
        BY <1>6, <3>1, <3>2
    <2> QED
      BY <2>1, <2>2
  <1>11. CASE WriteAccess
    <2>1. /\ DOMAIN writes' = DOMAIN writes /\ calls' = calls /\ flight' = flight
          /\ \A i \in DOMAIN writes : writes'[i].next = writes[i].next
      BY <1>11, WritesBegin DEF WriteAccess
    <2> QED
      BY <1>2, <2>1
  <1>12. CASE WriteRest
    <2>1. /\ Head(writes) = writes[1] /\ calls' = calls
          /\ \A i \in DOMAIN writes : i # 1 => i - 1 \in DOMAIN writes' /\ writes'[i - 1] = writes[i]
      BY <1>12, Popped DEF WriteRest
    <2>2. CASE ClearsTwice(writes[1])
      <3>1. /\ Len(writes) \in DOMAIN writes'
            /\ writes'[Len(writes)] = StoreOp(0, "rejected", Waiters(1))
        BY <1>12, <2>2, Popped
      <3> QED
        BY <3>1 DEF StoreOp
    <2>3. CASE ~ClearsTwice(writes[1])
      <3>1. flight' = [flight EXCEPT ![1] = @ /\ writes[1].next \notin {"refreshed", "refused", "rejected"}]
        BY <1>12, <2>1, <2>3 DEF WriteRest
      <3>2. flight[1] /\ writes[1].next \notin EndsRefresh \cup {"rejected"}
        BY <1>1, <3>1 DEF EndsRefresh
      <3> QED
        BY <1>2, <2>1, <3>2
    <2> QED
      BY <2>2, <2>3
  <1>13. CASE UserStep
    <2>1. CASE BuyerLogin \/ SellerLogin \/ BuyerLogout \/ SellerLogout
      BY <1>5, <2>1 DEF BuyerLogin, SellerLogin, BuyerLogout, SellerLogout, AppLogin, AppLogout,
                        SignIn, SignOut, Queue
    <2>2. CASE \E t \in OwnTabs : \/ Open(t) \/ Navigate(t) \/ AdminLogin(t) \/ LoginRefused(t)
                                  \/ AdminLogout(t) \/ \E s \in Slots : Send(s, t)
      BY <1>4, <2>2 DEF Open, Navigate, AdminLogin, LoginRefused, AdminLogout, SignIn, SignOut, Send
    <2> QED
      BY <1>8, <1>13, <2>1, <2>2 DEF UserStep
  <1>14. CASE ServerStep
    BY <1>4, <1>7, <1>14 DEF ServerStep, Expire, Forget, Restart, client
  <1>15. CASE UNCHANGED vars
    BY <1>4, <1>15 DEF vars, client
  <1>16. ASSUME NEW s \in Slots, Answered(s)
         PROVE  UNCHANGED <<calls, flight, writes>>
    BY <1>16 DEF Answered
  <1> QED
    BY <1>4, <1>9, <1>10, <1>11, <1>12, <1>13, <1>14, <1>15, <1>16
    DEF Next, RequestStep, RefreshAnswer, StoreStep

LEMMA PairFacts ==
    ASSUME Shapes
    PROVE  /\ pairs \in Nat /\ mem.refresh \in 0 .. pairs
           /\ writes \in Seq(Ops)
           /\ \A i \in DOMAIN writes : writes[i] \in Ops /\ writes[i].pair \in 0 .. pairs
           /\ \A c \in calls : /\ c.old \in 1 .. pairs /\ c.new \in 0 .. pairs
                               /\ (c.st = "granted") = (c.new # 0)
                               /\ c.st \in {"refused", "granted"} => c.tab # 0 /\ c.old \notin live
  <1>1. writes \in Seq(Ops) /\ \A i \in DOMAIN writes : writes[i] \in Ops
    BY ElementOfSeq, LenProperties DEF Shapes, WritesOK
  <1>2. \A i \in DOMAIN writes : writes[i].pair \in 0 .. pairs
    BY <1>1 DEF Ops
  <1> QED
    BY <1>1, <1>2, ShapeFacts DEF Shapes, TypeOK, CallsOK, CallOK

LEMMA NewPairsStay ==
    ASSUME Shapes, NewPairs, kind' = kind, mem' = mem,
           \A i \in DOMAIN writes' : \/ i \in DOMAIN writes /\ writes'[i].pair = writes[i].pair
                                     \/ writes'[i].pair = 0,
           \A d \in calls' : \/ d \in calls
                             \/ /\ d.st # "granted" /\ d.new = 0
                                /\ d.old = mem.refresh \/ \E c \in calls : d.old = c.old
    PROVE  NewPairs'
  <1> SUFFICES ASSUME kind # "admin"
               PROVE  NewPairs'
    BY DEF NewPairs
  <1>1. ASSUME NEW i \in DOMAIN writes', writes'[i].pair # 0
        PROVE  /\ writes'[i].pair # mem'.refresh
               /\ \A d \in calls' : d.old # writes'[i].pair /\ d.new # writes'[i].pair
               /\ \A j \in DOMAIN writes' : writes'[j].pair = writes'[i].pair => i = j
    BY <1>1 DEF NewPairs
  <1>2. ASSUME NEW c \in calls', c.st = "granted"
        PROVE  /\ c.new # mem'.refresh
               /\ \A d \in calls' : d.old # c.new /\ (d.new = c.new => c = d)
    <2>1. c \in calls
      BY <1>2
    <2>2. c.new # 0 /\ c.new # mem.refresh /\ \A d \in calls : d.old # c.new /\ (d.new = c.new => c = d)
      BY <1>2, <2>1, PairFacts DEF NewPairs
    <2> QED
      BY <1>2, <2>1, <2>2
  <1> QED
    BY <1>1, <1>2 DEF NewPairs

LEMMA NewPairsKept ==
    ASSUME Shapes, AdminFlight, NewPairs, [Next]_vars
    PROVE  NewPairs'
  <1> SUFFICES ASSUME kind # "admin"
               PROVE  NewPairs'
    BY KindFixed DEF NewPairs
  <1>1. /\ kind' = kind /\ OwnTabs = {1}
        /\ \A c \in calls : c.tab \in {0, 1}
    BY KindFixed, ShapeFacts
  <1>2. CASE UNCHANGED <<mem, writes, calls>>
    BY <1>1, <1>2, NewPairsStay
  <1>3. ASSUME NEW op, writes' = Append(writes, op), op.pair = 0, mem' = mem, calls' \subseteq calls
        PROVE  NewPairs'
    <2>1. \A i \in DOMAIN writes' : \/ i \in DOMAIN writes /\ writes'[i].pair = writes[i].pair
                                    \/ writes'[i].pair = 0
      BY <1>3, Queued
    <2> QED
      BY <1>1, <1>3, <2>1, NewPairsStay
  <1>4. ASSUME NEW c \in calls, CheckRefresh(c)
        PROVE  NewPairs'
    <2>1. PICK e : /\ e.old = c.old /\ calls' = (calls \ {c}) \cup StillOpen(e)
                   /\ e.new = 0 /\ e.st # "granted" /\ UNCHANGED <<mem, writes>>
      BY <1>4, ServerHandles
    <2>2. \A d \in calls' : d \in calls \/ d = e
      BY <2>1 DEF StillOpen
    <2> QED
      BY <1>1, <2>1, <2>2, NewPairsStay
  <1>5. ASSUME NEW c \in calls, Exchange(c)
        PROVE  NewPairs'
    <2>1. PICK e : /\ e.old = c.old /\ calls' = (calls \ {c}) \cup StillOpen(e)
                   /\ e.new = pairs + 1 /\ e.st = "granted" /\ UNCHANGED <<mem, writes>>
      BY <1>5, ServerHandles
    <2>2. \A d \in calls' : d \in calls \/ d = e
      BY <2>1 DEF StillOpen
    <2>3. ASSUME NEW i \in DOMAIN writes, writes[i].pair # 0
          PROVE  /\ writes[i].pair # mem.refresh
                 /\ \A d \in calls' : d.old # writes[i].pair /\ d.new # writes[i].pair
                 /\ \A j \in DOMAIN writes : writes[j].pair = writes[i].pair => i = j
      <3>1. writes[i].pair \in 0 .. pairs /\ pairs \in Nat
        BY PairFacts
      <3> QED
        BY <1>1, <2>1, <2>2, <2>3, <3>1 DEF NewPairs
    <2>4. ASSUME NEW d \in calls', d.st = "granted"
          PROVE  /\ d.new # mem.refresh
                 /\ \A f \in calls' : f.old # d.new /\ (f.new = d.new => d = f)
      <3>1. pairs \in Nat /\ mem.refresh \in 0 .. pairs
            /\ \A f \in calls : f.old \in 1 .. pairs /\ f.new \in 0 .. pairs
        BY PairFacts
      <3>2. CASE d = e
        BY <2>1, <2>2, <3>1, <3>2
      <3>3. CASE d \in calls /\ d # e
        <4>1. d.new # mem.refresh /\ \A f \in calls : f.old # d.new /\ (f.new = d.new => d = f)
          BY <1>1, <2>4, <3>3 DEF NewPairs
        <4> QED
          BY <2>1, <2>2, <3>1, <3>3, <4>1
      <3> QED
        BY <2>2, <3>2, <3>3
    <2> QED
      BY <1>1, <2>1, <2>3, <2>4 DEF NewPairs
  <1>6. CASE AppLogin
    <2>1. PICK op : op = StoreOp(pairs', "login", {})
      OBVIOUS
    <2>2. op.pair = pairs + 1 /\ writes' = Append(writes, op) /\ UNCHANGED <<mem, calls>>
      BY <1>6, <2>1 DEF StoreOp, AppLogin, SignIn, Issue, Queue
    <2>3. /\ Len(writes) \in Nat /\ DOMAIN writes = 1 .. Len(writes)
          /\ \A i \in DOMAIN writes' : \/ i \in DOMAIN writes /\ writes'[i] = writes[i]
                                       \/ i = Len(writes) + 1 /\ writes'[i] = op
      BY <2>2, Queued
    <2>4. /\ pairs \in Nat /\ mem.refresh \in 0 .. pairs
          /\ \A i \in DOMAIN writes : writes[i].pair \in 0 .. pairs
          /\ \A f \in calls : f.old \in 1 .. pairs /\ f.new \in 0 .. pairs
      BY PairFacts
    <2>5. ASSUME NEW i \in DOMAIN writes', writes'[i].pair # 0
          PROVE  /\ writes'[i].pair # mem.refresh
                 /\ \A d \in calls : d.old # writes'[i].pair /\ d.new # writes'[i].pair
                 /\ \A j \in DOMAIN writes' : writes'[j].pair = writes'[i].pair => i = j
      <3>1. CASE i = Len(writes) + 1 /\ writes'[i] = op
        BY <2>2, <2>3, <2>4, <3>1
      <3>2. CASE i \in DOMAIN writes /\ writes'[i] = writes[i]
        <4>1. /\ writes[i].pair # mem.refresh
              /\ \A d \in calls : d.old # writes[i].pair /\ d.new # writes[i].pair
              /\ \A j \in DOMAIN writes : writes[j].pair = writes[i].pair => i = j
          BY <1>1, <2>5, <3>2 DEF NewPairs
        <4>2. writes[i].pair # op.pair
          BY <2>2, <2>4, <3>2
        <4> QED
          BY <2>3, <3>2, <4>1, <4>2
      <3> QED
        BY <2>3, <3>1, <3>2
    <2> QED
      BY <1>1, <2>2, <2>5 DEF NewPairs
  <1>7. ASSUME NEW t \in OwnTabs, Kill(t) \/ Open(t)
        PROVE  NewPairs'
    <2>1. writes' = <<>> /\ \A d \in calls' : d.st # "granted"
      <3>1. CASE Kill(t)
        <4>1. writes' = <<>> /\ t = 1 /\ (\A d \in calls : d.st = "granted" => d.tab = 1)
          BY <1>1, <3>1, PairFacts DEF Kill
        <4> QED
          BY <3>1, <4>1, KillCalls
      <3>2. CASE Open(t)
        <4>1. page[1] = "off" /\ writes' = writes /\ calls' = calls
          BY <1>1, <3>2 DEF Open
        <4> QED
          BY <1>1, <4>1, PairFacts, ShapeFacts DEF Shapes, PageOK
      <3> QED
        BY <1>7, <3>1, <3>2
    <2> QED
      BY <2>1 DEF NewPairs
  <1>8. ASSUME NEW s \in Slots, BuyerDenied(s) \/ SellerDenied(s) \/ AdminDenied(s)
        PROVE  NewPairs'
    <2>1. mem' = mem
      BY <1>8, DeniedSteps
    <2>2. CASE Ask(s, req[s].tab)
      <3>1. PICK d : d = [old |-> Held.refresh, new |-> 0, st |-> "asked", tab |-> req[s].tab]
        OBVIOUS
      <3>2. calls' = calls \cup {d} /\ writes' = writes /\ d.old = mem.refresh /\ d.new = 0 /\ d.st = "asked"
        BY <2>2, <3>1 DEF Ask, Held
      <3> QED
        BY <1>1, <2>1, <3>2, NewPairsStay
    <2>3. ASSUME NEW next, Clearing(s, next)
          PROVE  NewPairs'
      <3>1. PICK op : op = StoreOp(0, next, {s})
        OBVIOUS
      <3>2. op.pair = 0 /\ writes' = Append(writes, op) /\ calls' = calls
        BY <2>3, <3>1 DEF StoreOp, Clearing
      <3> QED
        BY <1>3, <2>1, <3>2
    <2> QED
      BY <1>2, <1>8, <2>1, <2>2, <2>3, DeniedSteps
  <1>9. ASSUME NEW c \in calls, Granted(c)
        PROVE  NewPairs'
    <2>1. PICK op : op = StoreOp(c.new, "refreshed", {})
      OBVIOUS
    <2>2. /\ op.pair = c.new /\ writes' = Append(writes, op) /\ mem' = mem /\ calls' = calls \ {c}
          /\ c.st = "granted"
      BY <1>9, <2>1 DEF StoreOp, Granted, Queue, Heard
    <2>3. /\ Len(writes) \in Nat /\ DOMAIN writes = 1 .. Len(writes)
          /\ \A i \in DOMAIN writes' : \/ i \in DOMAIN writes /\ writes'[i] = writes[i]
                                       \/ i = Len(writes) + 1 /\ writes'[i] = op
      BY <2>2, Queued
    <2>4. /\ c.new # mem.refresh /\ c.new # 0
          /\ \A d \in calls : d.old # c.new /\ (d.new = c.new => c = d)
      BY <2>2, PairFacts DEF NewPairs
    <2>5. ASSUME NEW i \in DOMAIN writes', writes'[i].pair # 0
          PROVE  /\ writes'[i].pair # mem.refresh
                 /\ \A d \in calls' : d.old # writes'[i].pair /\ d.new # writes'[i].pair
                 /\ \A j \in DOMAIN writes' : writes'[j].pair = writes'[i].pair => i = j
      <3>0. \A j \in DOMAIN writes : writes[j].pair # 0 => writes[j].pair # c.new
        BY DEF NewPairs
      <3>1. CASE i = Len(writes) + 1 /\ writes'[i] = op
        BY <2>2, <2>3, <2>4, <3>0, <3>1
      <3>2. CASE i \in DOMAIN writes /\ writes'[i] = writes[i]
        <4>1. /\ writes[i].pair # mem.refresh
              /\ \A d \in calls : d.old # writes[i].pair /\ d.new # writes[i].pair
              /\ \A j \in DOMAIN writes : writes[j].pair = writes[i].pair => i = j
          BY <1>1, <2>5, <3>2 DEF NewPairs
        <4>2. writes[i].pair # op.pair
          BY <2>2, <2>5, <3>0, <3>2
        <4> QED
          BY <2>2, <2>3, <3>2, <4>1, <4>2
      <3> QED
        BY <2>3, <3>1, <3>2
    <2>6. \A d \in calls' : d.st = "granted" =>
             /\ d.new # mem.refresh
             /\ \A f \in calls' : f.old # d.new /\ (f.new = d.new => d = f)
      BY <2>2 DEF NewPairs
    <2> QED
      BY <1>1, <2>2, <2>5, <2>6 DEF NewPairs
  <1>10. ASSUME NEW c \in calls, Denied(c)
         PROVE  NewPairs'
    <2>1. PICK op : op = StoreOp(0, "refused", {})
      OBVIOUS
    <2>2. op.pair = 0 /\ writes' = Append(writes, op) /\ mem' = mem /\ calls' \subseteq calls
      BY <1>10, <2>1 DEF StoreOp, Denied, Queue, Heard
    <2> QED
      BY <1>3, <2>2
  <1>11. ASSUME NEW c \in calls, Lost(c)
         PROVE  NewPairs'
    <2>1. PICK e : /\ e.old = c.old /\ e.new = c.new /\ e.st = c.st
                   /\ \A d \in calls' : d \in calls \ {c} \/ (d = e /\ d.st \notin {"refused", "granted"})
      BY <1>11, NotHeard DEF Lost
    <2>2. c.st # "granted" => c.new = 0
      BY PairFacts
    <2>3. \A d \in calls' : d \in calls \/ (d.st # "granted" /\ d.new = 0 /\ d.old = c.old)
      BY <2>1, <2>2
    <2>4. mem' = mem
      BY <1>11 DEF Lost
    <2>5. \A i \in DOMAIN writes' : \/ i \in DOMAIN writes /\ writes'[i].pair = writes[i].pair
                                    \/ writes'[i].pair = 0
      <3>1. CASE writes' = writes
        BY <3>1
      <3>2. CASE writes' # writes
        <4>1. PICK op : writes' = Append(writes, op) /\ op = StoreOp(0, "rejected", Waiters(c.tab))
          BY <1>1, <1>11, <3>2 DEF Lost, Queue
        <4>2. op.pair = 0
          BY <4>1 DEF StoreOp
        <4> QED
          BY <4>1, <4>2, Queued
      <3> QED
        BY <3>1, <3>2
    <2> QED
      BY <1>1, <2>3, <2>4, <2>5, NewPairsStay
  <1>12. CASE WriteAccess
    <2>1. /\ DOMAIN writes' = DOMAIN writes /\ calls' = calls /\ mem' = mem
          /\ \A i \in DOMAIN writes : writes'[i].pair = writes[i].pair
      BY <1>12, WritesBegin DEF WriteAccess
    <2> QED
      BY <1>1, <2>1, NewPairsStay
  <1>13. CASE WriteRest
    <2>1. /\ calls' = calls /\ mem'.refresh = writes[1].pair /\ 1 \in DOMAIN writes
          /\ DOMAIN writes = 1 .. Len(writes) /\ Len(writes) \in Nat \ {0}
      BY <1>13, Popped DEF WriteRest, Pair
    <2>2. \A i \in DOMAIN writes' : \/ /\ i \in Int /\ i + 1 \in DOMAIN writes /\ i + 1 # 1
                                       /\ writes'[i] = writes[i + 1]
                                    \/ writes'[i].pair = 0
      <3>1. StoreOp(0, "rejected", Waiters(1)).pair = 0
        BY DEF StoreOp
      <3>2. \A i \in DOMAIN writes' :
               \/ writes'[i] = StoreOp(0, "rejected", Waiters(1))
               \/ i \in 1 .. Len(writes) - 1 /\ i + 1 \in DOMAIN writes /\ writes'[i] = writes[i + 1]
        BY <1>13, Popped
      <3> QED
        BY <2>1, <3>1, <3>2
    <2>3. ASSUME NEW i \in DOMAIN writes', writes'[i].pair # 0
          PROVE  /\ writes'[i].pair # mem'.refresh
                 /\ \A d \in calls' : d.old # writes'[i].pair /\ d.new # writes'[i].pair
                 /\ \A j \in DOMAIN writes' : writes'[j].pair = writes'[i].pair => i = j
      <3>1. i \in Int /\ i + 1 \in DOMAIN writes /\ i + 1 # 1 /\ writes'[i] = writes[i + 1]
        BY <2>2, <2>3
      <3>2. /\ \A d \in calls : d.old # writes[i + 1].pair /\ d.new # writes[i + 1].pair
            /\ \A j \in DOMAIN writes : writes[j].pair = writes[i + 1].pair => i + 1 = j
        BY <1>1, <2>3, <3>1 DEF NewPairs
      <3>3. ASSUME NEW j \in DOMAIN writes', writes'[j].pair = writes'[i].pair
            PROVE  i = j
        <4>1. j \in Int /\ j + 1 \in DOMAIN writes /\ writes'[j] = writes[j + 1]
          BY <2>2, <2>3, <3>3
        <4>2. i + 1 = j + 1
          BY <3>1, <3>2, <3>3, <4>1
        <4> QED
          BY <3>1, <4>1, <4>2
      <3>4. writes'[i].pair # mem'.refresh
        BY <2>1, <3>1, <3>2
      <3> QED
        BY <2>1, <3>1, <3>2, <3>3, <3>4
    <2>4. \A c \in calls : c.st = "granted" =>
             /\ c.new # mem'.refresh
             /\ \A d \in calls : d.old # c.new /\ (d.new = c.new => c = d)
      <3>1. \A c \in calls : c.st = "granted" => c.new # 0
        BY PairFacts
      <3> QED
        BY <1>1, <2>1, <3>1 DEF NewPairs
    <2> QED
      BY <1>1, <2>1, <2>3, <2>4 DEF NewPairs
  <1>14. CASE UserStep
    <2>1. CASE AppLogout
      <3>1. PICK op : op = StoreOp(0, "logout", {})
        OBVIOUS
      <3>2. op.pair = 0 /\ writes' = Append(writes, op) /\ mem' = mem /\ calls' = calls
        BY <2>1, <3>1 DEF StoreOp, AppLogout, SignOut, Queue
      <3> QED
        BY <1>3, <3>2
    <2>2. CASE \E t \in OwnTabs : \/ Navigate(t) \/ AdminLogin(t) \/ LoginRefused(t)
                                  \/ AdminLogout(t) \/ \E s \in Slots : Send(s, t)
      BY <1>2, <2>2 DEF Navigate, AdminLogin, LoginRefused, AdminLogout, SignIn, SignOut, Send
    <2> QED
      BY <1>6, <1>7, <1>14, <2>1, <2>2 DEF UserStep, BuyerLogin, SellerLogin, BuyerLogout, SellerLogout
  <1>15. CASE ServerStep
    BY <1>2, <1>4, <1>5, <1>15 DEF ServerStep, Expire, Forget, Restart, client
  <1>16. CASE UNCHANGED vars
    BY <1>2, <1>16 DEF vars, client
  <1>17. ASSUME NEW s \in Slots, Answered(s)
         PROVE  NewPairs'
    BY <1>2, <1>17 DEF Answered
  <1> QED
    BY <1>8, <1>9, <1>10, <1>11, <1>12, <1>13, <1>14, <1>15, <1>16, <1>17
    DEF Next, RequestStep, RefreshAnswer, StoreStep

LEMMA HurtStays ==
    [Next]_vars /\ ~hurt' => ~hurt \/ (AppLogin /\ kind # "admin") \/ \E t \in OwnTabs : AdminLogin(t)
  BY DEF vars, Next, ServerStep, UserStep, RequestStep, RefreshAnswer, StoreStep, CheckRefresh,
         Exchange, Expire, Forget, Restart, BuyerLogin, SellerLogin, BuyerLogout, SellerLogout,
         AppLogout, SignOut, Open, Navigate, Kill, LoginRefused,
         AdminLogout, Send, Answered, BuyerDenied, SellerDenied, AdminDenied, GiveUp, Drop, Ask, Join,
         Granted, Denied, Lost, WriteAccess, WriteRest, history

LEMMA LastQueued ==
    ASSUME Shapes, NEW op, writes' = Append(writes, op)
    PROVE  Last' = op /\ writes' # <<>>
  BY Queued DEF Last

\* The answer to a refresh that nobody disturbed finds the storage at rest.
LEMMA AnswerInTime ==
    ASSUME Shapes, kind # "admin", Undisturbed, NEW c \in calls, c.tab # 0, ~Outdated(c)
    PROVE  writes = <<>> /\ Current = {c} /\ flight[1] /\ mem.refresh = c.old /\ mem.refresh # 0
  <1>1. ~SigningIn /\ c.old = mem.refresh /\ c \in Current /\ c.old # 0
    BY PairFacts DEF Outdated, Held, Current
  <1>2. writes = <<>>
    BY <1>1 DEF Undisturbed
  <1>3. \A d \in Current : d = c /\ flight[1]
    BY <1>1, <1>2 DEF Undisturbed
  <1> QED
    BY <1>1, <1>2, <1>3

\* Storage, store and flag stay, and no refresh of the token held now is new.
LEMMA UndisturbedStays ==
    ASSUME Undisturbed, UNCHANGED <<writes, mem, flight>>,
           Current = {} => Current' = {},
           (\A c, d \in Current : c = d) => \A c, d \in Current' : c = d
    PROVE  Undisturbed'
  <1>1. SigningIn' = SigningIn /\ Last' = Last
    BY DEF SigningIn, Last
  <1>2. (writes = <<>> => \A c, d \in Current : c = d /\ flight[1])'
    BY DEF Undisturbed
  <1> QED
    BY <1>1, <1>2 DEF Undisturbed

LEMMA FewerCurrent ==
    ASSUME Undisturbed, UNCHANGED <<writes, mem, flight>>,
           \A d \in calls' : d \in calls \/ d.tab = 0
    PROVE  Undisturbed'
  <1>1. Current' \subseteq Current
    BY DEF Current
  <1> QED
    BY <1>1, UndisturbedStays

LEMMA UndisturbedKept ==
    ASSUME Shapes, AdminFlight, FlightMeans, NewPairs, kind # "admin", ~hurt => Undisturbed,
           [Next]_vars, ~hurt'
    PROVE  Undisturbed'
  <1>1. /\ OwnTabs = {1} /\ 1 \in Tabs /\ flight \in [Tabs -> BOOLEAN] /\ kind' = kind
        /\ \A c \in calls : c.tab \in {0, 1}
        /\ ~hurt \/ AppLogin
    BY KindFixed, HurtStays, ShapeFacts, AsBefore DEF AdminLogin
  <1>2. CASE AppLogin
    <2>1. PICK op : op = StoreOp(pairs', "login", {})
      OBVIOUS
    <2>2. op.next = "login" /\ writes' = Append(writes, op)
      BY <1>2, <2>1 DEF StoreOp, AppLogin, Queue
    <2>3. Last' = op /\ writes' # <<>> /\ SigningIn'
      BY <2>2, LastQueued, Queued DEF SigningIn
    <2> QED
      BY <2>2, <2>3 DEF Undisturbed
  <1>3. SUFFICES ASSUME ~hurt, Undisturbed, ~AppLogin
                 PROVE  Undisturbed'
    BY <1>1, <1>2
  <1>4. CASE UNCHANGED <<writes, mem, flight, calls>>
    BY <1>3, <1>4, FewerCurrent
  <1>5. ASSUME NEW c \in calls, CheckRefresh(c) \/ Exchange(c)
        PROVE  Undisturbed'
    <2>1. PICK e : e.tab = c.tab /\ e.old = c.old /\ calls' = (calls \ {c}) \cup StillOpen(e)
      BY <1>5, ServerHandles
    <2>2. UNCHANGED <<writes, mem, flight>>
      BY <1>5, ServerHandles
    <2>3. \A d \in calls' : d \in calls \ {c} \/ d = e
      BY <2>1 DEF StillOpen
    <2>4. \A d \in Current' : d \in Current \ {c} \/ (d = e /\ c \in Current)
      BY <2>1, <2>2, <2>3 DEF Current
    <2> QED
      BY <1>3, <2>2, <2>4, UndisturbedStays
  <1>6. ASSUME NEW t \in OwnTabs, Kill(t)
        PROVE  Undisturbed'
    <2>1. writes' = <<>> /\ t = 1
      BY <1>1, <1>6 DEF Kill
    <2>2. \A d \in calls' : d.tab = 0
      BY <1>1, <1>6, <2>1, KillCalls
    <2>3. Current' = {}
      BY <2>2 DEF Current
    <2> QED
      BY <2>1, <2>3 DEF Undisturbed, SigningIn
  <1>7. ASSUME NEW t \in OwnTabs, Open(t)
        PROVE  Undisturbed'
    <2>1. page[1] = "off" /\ writes' = writes /\ calls' = calls
      BY <1>1, <1>7 DEF Open
    <2>2. writes = <<>> /\ \A c \in calls : c.tab # 1
      BY <1>1, <2>1 DEF Shapes, PageOK
    <2>3. Current' = {}
      BY <1>1, <2>1, <2>2 DEF Current
    <2> QED
      BY <2>1, <2>2, <2>3 DEF Undisturbed, SigningIn
  <1>8. ASSUME NEW s \in Slots, BuyerDenied(s) \/ SellerDenied(s) \/ AdminDenied(s)
        PROVE  Undisturbed'
    <2>1. mem' = mem /\ req[s].tab = 1
      BY <1>8, DeniedSteps
    <2>2. CASE Held.refresh # 0 /\ ~flight[1] /\ Ask(s, 1)
      <3>1. PICK d : d = [old |-> Held.refresh, new |-> 0, st |-> "asked", tab |-> 1]
        OBVIOUS
      <3>2. calls' = calls \cup {d} /\ writes' = writes /\ flight'[1]
        BY <1>1, <2>2, <3>1 DEF Ask
      <3>3. mem.refresh # 0
        BY <2>2 DEF Held
      <3>4. CASE SigningIn
        <4>1. SigningIn' /\ Last' = Last /\ writes # <<>>
          BY <3>2, <3>4 DEF SigningIn, Last
        <4> QED
          BY <1>3, <3>2, <3>4, <4>1 DEF Undisturbed
      <3>5. CASE ~SigningIn
        <4>1. writes = <<>> /\ Current = {}
          BY <1>3, <2>2, <3>3, <3>5 DEF Undisturbed
        <4>2. \A x \in Current' : x = d
          BY <2>1, <3>2, <4>1 DEF Current
        <4> QED
          BY <3>2, <4>1, <4>2 DEF Undisturbed, SigningIn
      <3> QED
        BY <3>4, <3>5
    <2>3. CASE Clearing(s, "rejected")
      <3>1. ~SigningIn /\ mem.refresh # 0 /\ flight[1] /\ ~Pending(1)
        BY <2>3 DEF Clearing
      <3>2. PICK i \in DOMAIN writes : writes[i].next = "rejected"
        BY <3>1 DEF FlightMeans
      <3>3. writes # <<>> /\ Last.next \notin {"refreshed", "refused"}
        <4>1. writes # <<>> /\ Len(writes) \in DOMAIN writes
          <5>1. writes \in Seq(Ops) /\ writes # <<>>
            BY <3>2 DEF Shapes, WritesOK
          <5> QED
            BY <5>1, TailFacts
        <4> QED
          BY <3>1, <4>1 DEF Pending, Last
      <3> QED
        BY <1>3, <3>1, <3>3 DEF Undisturbed
    <2>4. CASE Clearing(s, "dropped")
      <3>1. PICK op : op = StoreOp(0, "dropped", {s})
        OBVIOUS
      <3>2. /\ ~SigningIn /\ mem.refresh = 0 /\ writes' = Append(writes, op)
            /\ op.pair = 0 /\ op.next = "dropped"
        BY <2>4, <3>1 DEF Clearing, StoreOp
      <3>3. \A i \in DOMAIN writes : writes[i].pair = 0
        <4>1. CASE writes = <<>>
          BY <4>1
        <4>2. CASE writes # <<>> /\ Len(writes) = 1 /\ Last.next = "refused"
          <5>1. writes \in Seq(Ops) /\ DOMAIN writes = 1 .. Len(writes) /\ 1 \in DOMAIN writes
            BY <4>2, TailFacts DEF Shapes, WritesOK
          <5>2. writes[1].pair = 0
            BY <4>2, <5>1 DEF Last, Shapes, WritesOK, OpOK, Clears
          <5> QED
            BY <4>2, <5>1, <5>2
        <4> QED
          BY <1>3, <3>2, <4>1, <4>2 DEF Undisturbed
      <3>4. \A i \in DOMAIN writes' : \/ i \in DOMAIN writes /\ writes'[i] = writes[i]
                                      \/ writes'[i] = op
        BY <3>2, Queued
      <3>5. ~SigningIn' /\ writes' # <<>> /\ \A i \in DOMAIN writes' : writes'[i].pair = 0
        BY <3>2, <3>3, <3>4, Queued DEF SigningIn
      <3> QED
        BY <2>1, <3>2, <3>5 DEF Undisturbed
    <2>5. CASE UNCHANGED <<calls, writes, flight>>
      BY <1>4, <2>1, <2>5
    <2> QED
      BY <1>8, <2>1, <2>2, <2>3, <2>4, <2>5, DeniedSteps
  <1>9. ASSUME NEW c \in calls, Granted(c) \/ Denied(c)
        PROVE  Undisturbed'
    <2>1. PICK op : \/ Granted(c) /\ op = StoreOp(c.new, "refreshed", {})
                    \/ Denied(c) /\ op = StoreOp(0, "refused", {})
      BY <1>9
    <2>2. /\ writes' = Append(writes, op) /\ op.next \in {"refreshed", "refused"}
          /\ UNCHANGED <<mem, flight>> /\ calls' = calls \ {c} /\ c.tab # 0 /\ ~Outdated(c)
      <3>1. op.next \in {"refreshed", "refused"}
        BY <2>1 DEF StoreOp
      <3>2. writes' = Append(writes, op) /\ UNCHANGED <<mem, flight>>
        BY <2>1 DEF Granted, Denied, Queue
      <3>3. calls' = calls \ {c} /\ c.tab # 0
        BY <2>1 DEF Granted, Denied, Heard
      <3>4. hurt' = (hurt \/ Outdated(c))
        BY <2>1 DEF Granted, Denied
      <3> QED
        BY <3>1, <3>2, <3>3, <3>4
    <2>3. writes = <<>> /\ Current = {c} /\ flight[1] /\ mem.refresh # 0
      BY <1>3, <2>2, AnswerInTime
    <2>4. Current' = {}
      BY <2>2, <2>3 DEF Current
    <2>5. Last' = op /\ writes' # <<>> /\ Len(writes') = 1
      BY <2>2, <2>3, LastQueued, Queued
    <2>6. ~SigningIn'
      BY <2>2, <2>3 DEF SigningIn
    <2> QED
      BY <2>2, <2>3, <2>4, <2>5, <2>6 DEF Undisturbed
  <1>10. ASSUME NEW c \in calls, Lost(c)
         PROVE  FALSE
    BY <1>10 DEF Lost
  <1>11. CASE WriteAccess
    <2>1. /\ Len(writes') = Len(writes) /\ DOMAIN writes' = DOMAIN writes
          /\ writes # <<>> /\ writes' # <<>> /\ UNCHANGED <<mem, calls, flight>>
          /\ \A i \in DOMAIN writes : /\ writes'[i].next = writes[i].next
                                      /\ writes'[i].pair = writes[i].pair
      BY <1>11, WritesBegin DEF WriteAccess
    <2>2. Len(writes) \in DOMAIN writes
      BY <2>1, TailFacts DEF Shapes, WritesOK
    <2>3. SigningIn' = SigningIn /\ Last'.next = Last.next /\ Current' = Current
      BY <2>1, <2>2 DEF SigningIn, Last, Current
    <2> QED
      BY <1>3, <2>1, <2>3 DEF Undisturbed
  <1>12. CASE WriteRest
    <2>1. /\ Head(writes) = writes[1] /\ writes[1] \in Ops /\ 1 \in DOMAIN writes
          /\ writes # <<>> /\ Len(writes) \in Nat \ {0} /\ DOMAIN writes = 1 .. Len(writes)
          /\ mem'.refresh = writes[1].pair
          /\ (writes[1].pair = 0) = (writes[1].next \in Clears)
          /\ calls' = calls /\ Last \in Ops
      BY <1>12, Popped, ElementOfSeq DEF WriteRest, Pair, Last, Shapes, WritesOK
    <2>2. CASE ClearsTwice(writes[1])
      <3>1. PICK o2 : o2 = StoreOp(0, "rejected", Waiters(1))
        OBVIOUS
      <3>2. o2.pair = 0 /\ o2.next = "rejected" /\ writes[1].next = "refused" /\ writes[1].pair = 0
        BY <2>1, <2>2, <3>1 DEF StoreOp, ClearsTwice, Clears
      <3>3. ~SigningIn
        BY <1>12, <2>1, <2>2 DEF WriteRest
      <3>4. \A i \in DOMAIN writes' :
               \/ writes'[i] = o2
               \/ i + 1 \in DOMAIN writes /\ writes'[i] = writes[i + 1]
        BY <1>12, <2>2, <3>1, Popped
      <3>5. writes' # <<>> /\ ~SigningIn'
        BY <1>12, <2>2, <3>2, <3>3, <3>4, Popped DEF SigningIn
      <3>6. \A i \in DOMAIN writes : writes[i].pair = 0
        BY <1>3, <2>1, <3>2, <3>3 DEF Undisturbed, Last
      <3> QED
        BY <2>1, <3>2, <3>4, <3>5, <3>6 DEF Undisturbed
    <2>3. CASE ~ClearsTwice(writes[1]) /\ Len(writes) = 1
      <3>1. writes' = <<>>
        BY <1>12, <2>3, Popped
      <3>2. \A c \in calls : c.old # writes[1].pair
        BY <2>1, PairFacts DEF NewPairs
      <3>3. Current' = {}
        BY <2>1, <3>2 DEF Current
      <3> QED
        BY <3>1, <3>3 DEF Undisturbed, SigningIn
    <2>4. CASE ~ClearsTwice(writes[1]) /\ Len(writes) # 1
      <3>1. /\ writes' # <<>> /\ Len(writes') = Len(writes) - 1
            /\ \A i \in DOMAIN writes' : /\ i \in 1 .. Len(writes) - 1 /\ i + 1 \in DOMAIN writes
                                         /\ writes'[i] = writes[i + 1]
            /\ Len(writes') \in DOMAIN writes'
        <4>1. /\ writes' # <<>> /\ Len(writes') = Len(writes) - 1
              /\ \A i \in DOMAIN writes' : /\ i \in 1 .. Len(writes) - 1 /\ i + 1 \in DOMAIN writes
                                           /\ writes'[i] = writes[i + 1]
              /\ \A i \in DOMAIN writes : i # 1 => i - 1 \in DOMAIN writes'
          BY <1>12, <2>4, Popped
        <4>2. Len(writes) \in DOMAIN writes /\ Len(writes) # 1
          BY <2>1, <2>4
        <4> QED
          BY <4>1, <4>2
      <3>2. Last' = Last
        BY <2>1, <3>1 DEF Last
      <3>3. CASE SigningIn
        <4>1. Last.next = "login"
          BY <1>3, <3>3 DEF Undisturbed
        <4>2. SigningIn'
          BY <3>1, <3>2, <4>1 DEF SigningIn, Last
        <4> QED
          BY <3>1, <3>2, <4>1, <4>2 DEF Undisturbed
      <3>4. CASE ~SigningIn
        <4>1. \A i \in DOMAIN writes : writes[i].pair = 0
          BY <1>3, <2>1, <2>4, <3>4 DEF Undisturbed
        <4>2. ~SigningIn'
          BY <3>1, <3>4 DEF SigningIn
        <4> QED
          BY <2>1, <3>1, <4>1, <4>2 DEF Undisturbed
      <3> QED
        BY <3>3, <3>4
    <2> QED
      BY <2>2, <2>3, <2>4
  <1>13. CASE UserStep
    <2>1. CASE AppLogout
      BY <2>1 DEF AppLogout, SignOut
    <2>2. CASE \E t \in OwnTabs : \/ Navigate(t) \/ AdminLogin(t) \/ LoginRefused(t)
                                  \/ AdminLogout(t) \/ \E s \in Slots : Send(s, t)
      BY <1>4, <2>2 DEF Navigate, AdminLogin, LoginRefused, AdminLogout, SignIn, SignOut, Send
    <2> QED
      BY <1>2, <1>6, <1>7, <1>13, <2>1, <2>2 DEF UserStep, BuyerLogin, SellerLogin, BuyerLogout, SellerLogout
  <1>14. CASE ServerStep
    BY <1>4, <1>5, <1>14 DEF ServerStep, Expire, Forget, Restart, client
  <1>15. CASE UNCHANGED vars
    BY <1>4, <1>15 DEF vars, client
  <1>16. ASSUME NEW s \in Slots, Answered(s)
         PROVE  Undisturbed'
    BY <1>4, <1>16 DEF Answered
  <1> QED
    BY <1>8, <1>9, <1>10, <1>11, <1>12, <1>13, <1>14, <1>15, <1>16
    DEF Next, RequestStep, RefreshAnswer, StoreStep

\* What the client holds in the end, and the answer it may wait for.
LEMMA FinalStays ==
    ASSUME mine \in live => Final = mine \/ Arriving, mine' = mine, live' \subseteq live,
           Final' = Final,
           \A c \in calls : c.st = "granted" => c \in calls'
    PROVE  (mine \in live => Final = mine \/ Arriving)'
  BY DEF Arriving

LEMMA FinalFacts ==
    Shapes => /\ kind = "admin" => Final = disk.refresh
              /\ kind # "admin" /\ writes # <<>> => Final = Last.pair
              /\ kind # "admin" /\ writes = <<>> /\ page[1] # "off" => Final = mem.refresh
              /\ kind # "admin" /\ writes = <<>> => Final = disk.refresh
  BY DEF Final, Shapes, PageOK

LEMMA FinalNext ==
    Shapes' => /\ kind' = "admin" => Final' = disk'.refresh
               /\ kind' # "admin" /\ writes' = <<>> => Final' = disk'.refresh
  BY DEF Final, Shapes, PageOK

LEMMA FinalKept ==
    ASSUME Shapes, Shapes', AdminFlight, FlightMeans, NewPairs, SessionHeld, [Next]_vars, ~hurt'
    PROVE  (mine \in live => Final = mine \/ Arriving)'
  <1>1. /\ kind' = kind /\ OwnTabs \subseteq Tabs /\ 0 \notin Tabs
        /\ kind # "admin" => OwnTabs = {1}
        /\ \A c \in calls : c.tab \in OwnTabs \cup {0}
        /\ ~hurt \/ (AppLogin /\ kind # "admin") \/ \E t \in OwnTabs : AdminLogin(t)
    BY KindFixed, HurtStays, ShapeFacts
  <1>2. CASE AppLogin /\ kind # "admin"
    <2>1. PICK op : op = StoreOp(pairs', "login", {})
      OBVIOUS
    <2>2. op.pair = pairs' /\ writes' = Append(writes, op) /\ mine' = pairs'
      BY <1>2, <2>1 DEF StoreOp, AppLogin, SignIn, Queue
    <2>3. Last' = op /\ writes' # <<>>
      BY <2>2, LastQueued
    <2> QED
      BY <1>1, <1>2, <2>2, <2>3 DEF Final
  <1>3. ASSUME NEW t \in OwnTabs, AdminLogin(t)
        PROVE  (mine \in live => Final = mine \/ Arriving)'
    <2>1. disk' = Pair(pairs') /\ mine' = pairs' /\ kind' = "admin"
      BY <1>1, <1>3 DEF AdminLogin, SignIn
    <2>2. Final' = disk'.refresh /\ disk'.refresh = pairs'
      BY <2>1, FinalNext DEF Pair
    <2> QED
      BY <2>1, <2>2
  <1>4. SUFFICES ASSUME ~hurt, mine \in live => Final = mine \/ Arriving, kind # "admin" => Undisturbed
                 PROVE  (mine \in live => Final = mine \/ Arriving)'
    BY <1>1, <1>2, <1>3 DEF SessionHeld, AppLogin, AdminLogin
  <1>5. CASE UNCHANGED <<writes, mem, disk, page, calls, mine>> /\ live' \subseteq live
    <2>1. Final' = Final
      BY <1>1, <1>5 DEF Final, Last
    <2> QED
      BY <1>4, <1>5, <2>1, FinalStays
  <1>6. ASSUME NEW c \in calls, CheckRefresh(c)
        PROVE  (mine \in live => Final = mine \/ Arriving)'
    <2>1. UNCHANGED <<writes, mem, disk, page, mine, live>> /\ c.st = "asked" /\ calls \ {c} \subseteq calls'
      BY <1>6 DEF CheckRefresh, server, client, history
    <2>2. Final' = Final
      BY <1>1, <2>1 DEF Final, Last
    <2> QED
      BY <1>4, <2>1, <2>2, FinalStays
  <1>7. ASSUME NEW c \in calls, Exchange(c)
        PROVE  (mine \in live => Final = mine \/ Arriving)'
    <2>1. PICK e : /\ e.tab = c.tab /\ calls' = (calls \ {c}) \cup StillOpen(e)
                   /\ e.tab # 0 => e \in calls'
                   /\ e.new = pairs + 1 /\ e.st = "granted" /\ UNCHANGED <<disk, mem, writes, page>>
      BY <1>7, ServerHandles
    <2>2. /\ pairs' = pairs + 1 /\ live' = (live \ {c.old}) \cup {pairs + 1} /\ c.st = "checked"
          /\ mine' = IF c.tab # 0 THEN pairs + 1 ELSE mine
      BY <1>7 DEF Exchange, Issue
    <2>3. CASE c.tab # 0
      BY <2>1, <2>2, <2>3 DEF Arriving
    <2>4. CASE c.tab = 0
      <3>1. mine \in 0 .. pairs /\ pairs \in Nat
        BY AsBefore, PairFacts
      <3>2. Final' = Final /\ mine' = mine /\ (mine' \in live' => mine \in live)
        BY <1>1, <2>1, <2>2, <2>4, <3>1 DEF Final, Last
      <3>3. \A d \in calls : d.st = "granted" => d \in calls'
        BY <2>1, <2>2
      <3> QED
        BY <1>4, <3>2, <3>3 DEF Arriving
    <2> QED
      BY <2>3, <2>4
  <1>8. ASSUME NEW t \in OwnTabs, Kill(t)
        PROVE  (mine \in live => Final = mine \/ Arriving)'
    <2>1. /\ writes = <<>> /\ ~Pending(t) /\ UNCHANGED <<disk, live, mine>> /\ writes' = <<>>
          /\ page' = [page EXCEPT ![t] = "off"]
      BY <1>8 DEF Kill, server
    <2>2. Final' = Final
      BY <1>1, <2>1, FinalFacts, FinalNext
    <2>3. \A c \in calls : c.tab # t => c \in calls'
      BY <1>8, KillCalls
    <2>4. \A c \in calls : c.tab # t
      BY <2>1 DEF Pending
    <2> QED
      BY <1>4, <2>1, <2>2, <2>3, <2>4, FinalStays
  <1>9. ASSUME NEW t \in OwnTabs, Open(t)
        PROVE  (mine \in live => Final = mine \/ Arriving)'
    <2>1. UNCHANGED <<live, mine, disk, calls, writes>>
      BY <1>9 DEF Open, server, history
    <2>2. kind # "admin" => page[1] = "off"
      BY <1>1, <1>9 DEF Open
    <2>3. kind # "admin" => writes = <<>>
      BY <2>2 DEF Shapes, PageOK
    <2>4. Final' = Final
      BY <1>1, <2>1, <2>3, FinalFacts, FinalNext
    <2> QED
      BY <1>4, <2>1, <2>4, FinalStays
  <1>10. ASSUME NEW s \in Slots, BuyerDenied(s) \/ SellerDenied(s) \/ AdminDenied(s)
         PROVE  (mine \in live => Final = mine \/ Arriving)'
    <2>1. /\ UNCHANGED <<mem, mine, live>> /\ (kind # "admin" => UNCHANGED <<disk, page>> /\ page[1] # "off")
      BY <1>10, DeniedSteps
    <2>2. CASE Ask(s, req[s].tab)
      <3>1. calls \subseteq calls' /\ UNCHANGED <<writes, disk, page>>
        BY <2>2 DEF Ask
      <3>2. Final' = Final
        BY <1>1, <2>1, <3>1 DEF Final, Last
      <3> QED
        BY <1>4, <2>1, <3>1, <3>2, FinalStays
    <2>3. CASE /\ UNCHANGED <<calls, writes>>
               /\ disk' = disk \/ (kind = "admin" /\ disk' = NoTokens /\ disk.refresh = 0)
      <3>1. Final' = Final
        BY <1>1, <2>1, <2>3 DEF Final, Last, NoTokens
      <3> QED
        BY <1>4, <2>1, <2>3, <3>1, FinalStays
    <2>4. CASE Clearing(s, "rejected")
      <3>1. ~SigningIn /\ mem.refresh # 0 /\ flight[1] /\ ~Pending(1) /\ kind # "admin"
        BY <1>4, <2>4 DEF Clearing
      <3>2. PICK i \in DOMAIN writes : writes[i].next = "rejected"
        BY <3>1 DEF FlightMeans
      <3>3. writes \in Seq(Ops) /\ writes # <<>>
        BY <3>2 DEF Shapes, WritesOK
      <3>4. Len(writes) \in DOMAIN writes
        BY <3>3, TailFacts
      <3>5. Last.next \notin {"refreshed", "refused"}
        BY <3>1, <3>4 DEF Pending, Last
      <3> QED
        BY <1>4, <3>1, <3>3, <3>5 DEF Undisturbed
    <2>5. CASE Clearing(s, "dropped")
      <3>1. PICK op : op = StoreOp(0, "dropped", {s})
        OBVIOUS
      <3>2. /\ kind # "admin" /\ ~SigningIn /\ mem.refresh = 0 /\ writes' = Append(writes, op) /\ calls' = calls
            /\ op.pair = 0
        BY <1>4, <2>5, <3>1 DEF Clearing, StoreOp
      <3>3. Final = 0
        <4>1. CASE writes = <<>>
          BY <2>1, <3>2, <4>1, FinalFacts
        <4>2. CASE writes # <<>>
          <5>1. writes \in Seq(Ops) /\ Len(writes) \in DOMAIN writes
            BY <4>2, TailFacts DEF Shapes, WritesOK
          <5>2. Last.pair = 0
            BY <1>4, <3>2, <4>2, <5>1 DEF Undisturbed, Last, Shapes, WritesOK, OpOK, Clears
          <5> QED
            BY <3>2, <4>2, <5>2, FinalFacts
        <4> QED
          BY <4>1, <4>2
      <3>4. Final' = 0
        BY <1>1, <3>2, LastQueued DEF Final
      <3> QED
        BY <1>4, <2>1, <3>2, <3>3, <3>4, FinalStays
    <2> QED
      BY <1>10, <2>2, <2>3, <2>4, <2>5, DeniedSteps
  <1>11. ASSUME NEW c \in calls, Granted(c) \/ Denied(c)
         PROVE  (mine \in live => Final = mine \/ Arriving)'
    <2>1. /\ calls' = calls \ {c} /\ c.tab # 0 /\ c.st \in {"granted", "refused"}
          /\ UNCHANGED <<live, mine>> /\ hurt' = (hurt \/ Outdated(c))
      BY <1>11 DEF Granted, Denied, Heard, server
    <2>2. ~Outdated(c)
      BY <2>1
    <2>3. c.old \notin live /\ c.old = Held.refresh
      BY <2>1, <2>2, PairFacts DEF Outdated
    <2>4. Final = Held.refresh
      <3>1. CASE kind = "admin"
        BY <3>1, FinalFacts DEF Held
      <3>2. CASE kind # "admin"
        <4>1. writes = <<>> /\ page[1] # "off"
          <5>1. writes = <<>>
            BY <1>4, <2>1, <2>2, <3>2, AnswerInTime
          <5>2. page[1] # "off"
            BY <1>1, <2>1, <3>2, ShapeFacts DEF Shapes, PageOK
          <5> QED
            BY <5>1, <5>2
        <4> QED
          BY <3>2, <4>1, FinalFacts DEF Held
      <3> QED
        BY <3>1, <3>2
    <2>5. Final' = IF Granted(c) THEN c.new ELSE 0
      <3>1. CASE kind = "admin" /\ Granted(c)
        BY <1>1, <3>1 DEF Granted, Pair, Final
      <3>2. CASE kind = "admin" /\ Denied(c)
        BY <1>1, <3>2 DEF Granted, Denied, AdminSignedOut, NoTokens, Final
      <3>3. CASE kind # "admin"
        <4>1. PICK op : /\ op = StoreOp(IF Granted(c) THEN c.new ELSE 0,
                                        IF Granted(c) THEN "refreshed" ELSE "refused", {})
                        /\ writes' = Append(writes, op)
          BY <1>11, <3>3 DEF Granted, Denied, Queue
        <4>2. Last' = op /\ writes' # <<>> /\ op.pair = IF Granted(c) THEN c.new ELSE 0
          BY <4>1, LastQueued DEF StoreOp
        <4> QED
          BY <1>1, <3>3, <4>2 DEF Final
      <3> QED
        BY <1>11, <3>1, <3>2, <3>3
    <2>6. mine \in live => \E d \in calls : d.st = "granted" /\ d.new = mine
      BY <1>4, <2>3, <2>4 DEF Arriving
    <2>7. c.st = "granted" => Granted(c)
      BY <1>11 DEF Denied
    <2> QED
      BY <2>1, <2>5, <2>6, <2>7 DEF Arriving
  <1>12. ASSUME NEW c \in calls, Lost(c)
         PROVE  FALSE
    BY <1>12 DEF Lost
  <1>13. CASE WriteAccess
    <2>1. /\ Len(writes') = Len(writes) /\ disk'.refresh = disk.refresh
          /\ writes # <<>> /\ writes' # <<>>
          /\ \A i \in DOMAIN writes : writes'[i].pair = writes[i].pair
      BY <1>13, WritesBegin
    <2>2. Len(writes) \in DOMAIN writes /\ kind # "admin"
      BY <2>1, TailFacts DEF Shapes, WritesOK
    <2>3. Final' = Final
      BY <1>1, <2>1, <2>2 DEF Final, Last
    <2>4. UNCHANGED <<mine, live, calls>>
      BY <1>13 DEF WriteAccess, server, history
    <2> QED
      BY <1>4, <2>3, <2>4, FinalStays
  <1>14. CASE WriteRest
    <2>1. /\ Head(writes) = writes[1] /\ writes[1] \in Ops /\ 1 \in DOMAIN writes /\ kind # "admin"
          /\ writes # <<>> /\ Len(writes) \in Nat \ {0} /\ DOMAIN writes = 1 .. Len(writes)
          /\ mem'.refresh = writes[1].pair /\ disk'.refresh = writes[1].pair
          /\ (writes[1].pair = 0) = (writes[1].next \in Clears)
      <3>1. mem' = Pair(writes[1].pair) /\ disk' = Pair(writes[1].pair)
        BY <1>14, Popped
      <3>2. mem'.refresh = writes[1].pair /\ disk'.refresh = writes[1].pair
        BY <3>1 DEF Pair
      <3> QED
        BY <1>14, <3>2, Popped
    <2>2. Final = Last.pair /\ UNCHANGED <<mine, live, calls>>
      BY <1>14, <2>1, FinalFacts DEF WriteRest, server
    <2>3. Final' = Final
      <3>1. CASE ClearsTwice(writes[1])
        <4>1. writes' # <<>> /\ Len(writes') = Len(writes)
              /\ writes'[Len(writes)] = StoreOp(0, "rejected", Waiters(1))
          BY <1>14, <3>1, Popped
        <4>2. Final' = 0
          BY <1>1, <2>1, <4>1 DEF Final, Last, StoreOp
        <4>3. ~SigningIn /\ writes[1].next = "refused"
          BY <1>4, <1>14, <2>1, <3>1 DEF WriteRest, ClearsTwice
        <4>4. Last.pair = 0
          BY <1>4, <2>1, <4>3 DEF Undisturbed, Last, Clears
        <4> QED
          BY <2>2, <4>2, <4>4
      <3>2. CASE ~ClearsTwice(writes[1]) /\ Len(writes) = 1
        <4>1. writes' = <<>>
          BY <1>14, <3>2, Popped
        <4>2. Final' = disk'.refresh
          BY <1>1, <2>1, <4>1, FinalNext
        <4> QED
          BY <2>1, <2>2, <3>2, <4>2 DEF Last
      <3>3. CASE ~ClearsTwice(writes[1]) /\ Len(writes) # 1
        <4>1. /\ writes' # <<>> /\ Len(writes') = Len(writes) - 1
              /\ \A i \in DOMAIN writes : i # 1 => i - 1 \in DOMAIN writes' /\ writes'[i - 1] = writes[i]
          BY <1>14, <3>3, Popped
        <4>2. Last' = Last
          BY <2>1, <3>3, <4>1 DEF Last
        <4> QED
          BY <1>1, <2>1, <2>2, <4>1, <4>2 DEF Final
      <3> QED
        BY <3>1, <3>2, <3>3
    <2> QED
      BY <1>4, <2>2, <2>3, FinalStays
  <1>15. CASE UserStep
    <2>1. CASE AppLogout \/ \E t \in OwnTabs : LoginRefused(t) \/ AdminLogout(t)
      BY <2>1 DEF AppLogout, LoginRefused, AdminLogout, SignOut
    <2>2. ASSUME NEW t \in OwnTabs, NEW s \in Slots, Send(s, t)
          PROVE  (mine \in live => Final = mine \/ Arriving)'
      BY <1>5, <2>2 DEF Send, server, history
    <2>3. ASSUME NEW t \in OwnTabs, Navigate(t)
          PROVE  (mine \in live => Final = mine \/ Arriving)'
      <3>1. UNCHANGED <<writes, disk, calls, mine, live>> /\ kind = "admin"
        BY <2>3 DEF Navigate, server, history
      <3>2. Final' = Final
        BY <1>1, <3>1 DEF Final
      <3> QED
        BY <1>4, <3>1, <3>2, FinalStays
    <2> QED
      BY <1>2, <1>3, <1>8, <1>9, <1>15, <2>1, <2>2, <2>3
      DEF UserStep, BuyerLogin, SellerLogin, BuyerLogout, SellerLogout
  <1>16. CASE ServerStep
    <2>1. CASE Restart \/ \E p \in 1 .. pairs : Expire(p) \/ Forget(p)
      BY <1>5, <2>1 DEF Restart, Expire, Forget, client, history
    <2> QED
      BY <1>6, <1>7, <1>16, <2>1 DEF ServerStep
  <1>17. CASE UNCHANGED vars
    BY <1>5, <1>17 DEF vars, server, client, history
  <1>18. ASSUME NEW s \in Slots, Answered(s)
         PROVE  (mine \in live => Final = mine \/ Arriving)'
    BY <1>5, <1>18 DEF Answered, server, history
  <1> QED
    BY <1>10, <1>11, <1>12, <1>13, <1>14, <1>15, <1>16, <1>17, <1>18
    DEF Next, RequestStep, RefreshAnswer, StoreStep

SessionInv == ShapesInv /\ FlightMeans /\ NewPairs /\ SessionHeld

LEMMA SessionAlways == Spec => []SessionInv
  <1>1. Init => SessionInv
    <2>1. Init => ShapesInv
      BY ShapesInit DEF ShapesInv, Init, AdminFlight
    <2>2. Init => FlightMeans /\ NewPairs
      BY TabsAssumption DEF Init, FlightMeans, NewPairs
    <2>3. Init => SessionHeld
      BY DEF Init, SessionHeld, Undisturbed, SigningIn, Current
    <2> QED
      BY <2>1, <2>2, <2>3 DEF SessionInv
  <1>2. SessionInv /\ [Next]_vars => SessionInv'
    <2> SUFFICES ASSUME SessionInv, [Next]_vars
                 PROVE  SessionInv'
      OBVIOUS
    <2>1. Shapes' /\ AdminFlight' /\ FlightMeans' /\ NewPairs' /\ kind' = kind
      BY ShapesKept, AdminFlightKept, FlightKept, NewPairsKept, KindFixed DEF SessionInv, ShapesInv
    <2>2. kind # "admin" /\ ~hurt' => Undisturbed'
      BY UndisturbedKept DEF SessionInv, ShapesInv, SessionHeld
    <2>3. ~hurt' => (mine \in live => Final = mine \/ Arriving)'
      BY <2>1, FinalKept DEF SessionInv, ShapesInv
    <2> QED
      BY <2>1, <2>2, <2>3 DEF SessionInv, ShapesInv, SessionHeld
  <1> QED
    BY <1>1, <1>2, PTL DEF Spec

\* A client at rest holds the refresh token that the server still honours, unless its
\* session was disturbed in one of the ways hurt records: refreshing, storing, restarting
\* the app and clearing late do not lose a session on their own.
THEOREM SessionCorrect == Spec => []HonouredSessionKept
  <1>1. SessionInv => HonouredSessionKept
    <2> SUFFICES ASSUME SessionInv, Rest, mine \in live, ~hurt
                 PROVE  Held.refresh = mine
      BY DEF HonouredSessionKept
    <2>1. Shapes
      BY DEF SessionInv, ShapesInv
    <2>2. \A c \in calls : c.tab = 0
      BY <2>1, ShapeFacts DEF Rest, Pending
    <2>3. ~Arriving
      BY <2>1, <2>2, PairFacts DEF Arriving
    <2>4. Final = mine
      BY <2>3 DEF SessionInv, SessionHeld
    <2>5. writes = <<>> /\ page[1] # "off"
      BY <2>1, ShapeFacts DEF Rest
    <2> QED
      BY <2>1, <2>4, <2>5, FinalFacts DEF Held
  <1> QED
    BY <1>1, SessionAlways, PTL

=============================================================================
