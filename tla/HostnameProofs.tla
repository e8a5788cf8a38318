---------------------------- MODULE HostnameProofs ----------------------------
(***************************************************************************)
(* TLAPS proofs about Hostname, for any variants, tenants, handlers and     *)
(* bounds.                                                                 *)
(***************************************************************************)
EXTENDS Hostname, FiniteSetTheorems, SequenceTheorems, TLAPS

OpType == [kind : Kinds, pc : {"asking", "writing"}, at : Hosts, slug : Slugs,
           rec : Record \cup {None}, todo : Seq(Write), alone : BOOLEAN]

\* A handler is idle or well formed, and writes while it has something to write.
WellFormed(r) ==
    /\ r = Idle \/ r \in OpType
    /\ (r.pc = "writing") = (r.todo # <<>>)

LEMMA Typed ==
    TypeOK <=>
        /\ route \in [Hosts -> Slugs \cup {None}]
        /\ rec \in [Hosts -> Record \cup {None}]
        /\ checkout \subseteq Hosts /\ switched \subseteq Slugs
        /\ op \in [Ops -> {Idle} \cup OpType] /\ \A o \in Ops : WellFormed(op[o])
        /\ started \in 0 .. MaxOps /\ faults \in 0 .. MaxFaults
        /\ crossed \in BOOLEAN /\ skipped \subseteq Hosts
BY DEF TypeOK, WellFormed, OpType

LEMMA IdleFacts ==
    /\ WellFormed(Idle) /\ Idle.kind \notin Kinds /\ Idle.pc = "idle"
    /\ Idle.todo = <<>>
    /\ \A r \in OpType : r # Idle
BY HostnameAssumption DEF Idle, WellFormed, OpType

\* One route per variant.
LEMMA RouteAllFacts ==
    /\ RouteAll \in Seq(Write)
    /\ \A i \in 1 .. Len(RouteAll) : RouteAll[i].do = "route"
    /\ \A h \in Hosts : \E i \in 1 .. Len(RouteAll) : RouteAll[i] = Route(h)
<1>. DEFINE n == Cardinality(Hosts)
            R == {Route(h) : h \in Hosts}
<1>1. n \in Nat /\ ExistsBijection(1 .. n, Hosts)
      BY FS_CardinalityType, HostnameAssumption
<1>2. PICK f \in [1 .. n -> Hosts] : \A h \in Hosts : \E i \in 1 .. n : f[i] = h
      BY <1>1 DEF ExistsBijection, Bijection, Surjection
<1>. HIDE DEF n
<1>3. \E s \in [1 .. n -> R] : {s[i] : i \in DOMAIN s} = R
  <2>. DEFINE s == [i \in 1 .. n |-> Route(f[i])]
  <2>1. s \in [1 .. n -> R]
        BY <1>2
  <2>2. ASSUME NEW h \in Hosts PROVE \E i \in DOMAIN s : s[i] = Route(h)
    <3>1. PICK i \in 1 .. n : f[i] = h
          BY <1>2
    <3>. QED BY <3>1
  <2>3. {s[i] : i \in DOMAIN s} = R
    <3>. HIDE DEF s
    <3>. QED BY <2>1, <2>2
  <2>. QED BY <2>1, <2>3
<1>4. RouteAll \in [1 .. n -> R] /\ {RouteAll[i] : i \in DOMAIN RouteAll} = R
      BY <1>3 DEF RouteAll, n
<1>5. R \subseteq Write /\ \A r \in R : r.do = "route"
      BY DEF Route, Write
<1>6. RouteAll \in Seq(Write) /\ Len(RouteAll) = n
      BY <1>1, <1>4, <1>5
<1>. QED BY <1>1, <1>4, <1>5, <1>6
-----------------------------------------------------------------------------
(* Type correctness *)

Activations == {"activate", "admin"}

\* What a handler of each kind has left to write.  Only an activation has no record
\* in hand, only a disable takes a route away, and a record is saved where it was
\* read.
Formed(r) ==
    r # Idle =>
        /\ r.kind \notin Activations => r.rec \in Record
        /\ r.kind \in Activations /\ r.pc = "writing" =>
              r.todo \in {<<Route(r.at), Load(r.at), Save(r.at)>>,
                          <<Load(r.at), Save(r.at)>>, <<Save(r.at)>>}
        /\ r.kind = "disable" =>
              /\ r.pc = "writing" /\ r.rec.status = "disabled"
              /\ r.todo \in {<<Save(r.at), Unroute(r.at)>>, <<Unroute(r.at)>>}
        /\ \A i \in 1 .. Len(r.todo) :
              /\ r.todo[i].do = "record" => r.todo[i].at = r.at
              /\ r.todo[i].do = "unroute" => r.kind = "disable"
              /\ r.todo[i].do = "load" => r.kind \in Activations

AllFormed == \A o \in Ops : Formed(op[o])

\* A handler that may be in op.
Handler(r) == r \in {Idle} \cup OpType /\ WellFormed(r) /\ Formed(r)

LEMMA Handlers ==
    ASSUME TypeOK, AllFormed, NEW o \in Ops
    PROVE  /\ Handler(op[o]) /\ op \in [Ops -> {Idle} \cup OpType]
           /\ op[o] # Idle => op[o] \in OpType
           /\ op[o].pc \in {"asking", "writing"} => op[o] # Idle
BY Typed, IdleFacts DEF Handler, AllFormed

\* What the handlers write is a list of writes.
LEMMA WritesTyped ==
    ASSUME NEW h \in Hosts
    PROVE  {Route(h), Unroute(h), Load(h), Save(h), D1(h)} \subseteq Write
BY DEF Route, Unroute, Load, Save, D1, Write

\* A step of one handler: it goes on as v.
LEMMA Move ==
    ASSUME TypeOK, AllFormed, NEW o \in Ops, NEW v, Handler(v),
           op' = [op EXCEPT ![o] = v],
           route' \in [Hosts -> Slugs \cup {None}],
           rec' \in [Hosts -> Record \cup {None}],
           checkout' \subseteq Hosts, switched' \subseteq Slugs,
           faults' \in 0 .. MaxFaults, skipped' \subseteq Hosts,
           UNCHANGED <<started, crossed>>
    PROVE  TypeOK' /\ AllFormed'
<1>1. op' \in [Ops -> {Idle} \cup OpType] /\ \A p \in Ops : Handler(op'[p])
      BY Handlers DEF Handler
<1>. QED BY <1>1, Typed DEF TypeOK, WellFormed, OpType, Handler, AllFormed

\* Losing its solitude does not change what a handler writes.
LEMMA NotAlone ==
    ASSUME NEW r \in OpType, WellFormed(r), Formed(r)
    PROVE  Handler([r EXCEPT !.alone = FALSE])
<1>. DEFINE v == [r EXCEPT !.alone = FALSE]
<1>1. /\ v \in OpType
      /\ v.kind = r.kind /\ v.pc = r.pc /\ v.at = r.at /\ v.rec = r.rec /\ v.todo = r.todo
      BY DEF OpType
<1>. HIDE DEF v
<1>2. WellFormed(v) /\ Formed(v)
      BY <1>1, IdleFacts DEF WellFormed, Formed
<1>3. Handler(v)
      BY <1>1, <1>2 DEF Handler
<1>. QED BY <1>3 DEF v

\* A handler that starts with the list todo; the others are as they were, or no
\* longer alone.
LEMMA BeginFacts ==
    ASSUME TypeOK, NEW o \in Ops, NEW kind, NEW h, NEW s, NEW r, NEW pc, NEW todo,
           Begin(o, kind, h, s, r, pc, todo)
    PROVE  LET others == {p \in Ops : op[p] # Idle}
               v == [kind |-> kind, pc |-> pc, at |-> h, slug |-> s,
                     rec |-> r, todo |-> todo, alone |-> others = {}]
           IN /\ op[o] = Idle
              /\ op' = [p \in Ops |-> op'[p]]
              /\ op'[o] = v
              /\ \A p \in Ops \ {o} : \/ op[p] = Idle /\ op'[p] = Idle
                                      \/ /\ op[p] # Idle
                                         /\ op'[p] = [op[p] EXCEPT !.alone = FALSE]
              /\ UNCHANGED <<route, rec, checkout, switched, faults, skipped>>
              /\ crossed' = (crossed \/ (others # {} /\
                     (kind = "disable" \/ \E p \in others : op[p].kind = "disable")))
BY DEF Begin

LEMMA BeginTyped ==
    ASSUME TypeOK, AllFormed, NEW o \in Ops, NEW kind \in Kinds, NEW h \in Hosts,
           NEW s \in Slugs, NEW r \in Record \cup {None},
           NEW pc, NEW todo,
           \/ pc = "asking" /\ todo = <<>> /\ kind # "disable"
           \/ /\ pc = "writing" /\ todo = <<Save(h), Unroute(h)>>
              /\ kind = "disable" /\ r.status = "disabled",
           kind \notin Activations => r \in Record,
           Begin(o, kind, h, s, r, pc, todo)
    PROVE  TypeOK' /\ AllFormed'
<1>. DEFINE others == {p \in Ops : op[p] # Idle}
            v == [kind |-> kind, pc |-> pc, at |-> h, slug |-> s,
                  rec |-> r, todo |-> todo, alone |-> others = {}]
<1>1. todo \in Seq(Write) /\ (pc = "writing") = (todo # <<>>)
  <2>1. CASE pc = "asking" /\ todo = <<>>
        BY <2>1
  <2>2. CASE pc = "writing" /\ todo = <<Save(h), Unroute(h)>>
    <3>1. Save(h) \in Write /\ Unroute(h) \in Write
          BY WritesTyped
    <3>2. <<Save(h), Unroute(h)>> \in Seq(Write) /\ <<Save(h), Unroute(h)>> # <<>>
          BY <3>1
    <3>. QED BY <2>2, <3>2
  <2>. QED BY <2>1, <2>2
<1>2. v \in OpType /\ WellFormed(v)
      BY <1>1 DEF OpType, WellFormed
<1>3. Formed(v)
  <2>1. CASE pc = "asking" /\ todo = <<>> /\ kind # "disable"
        BY <2>1 DEF Formed
  <2>2. CASE /\ pc = "writing" /\ todo = <<Save(h), Unroute(h)>>
             /\ kind = "disable" /\ r.status = "disabled"
        BY <2>2 DEF Formed, Save, Unroute, Activations
  <2>. QED BY <2>1, <2>2
<1>. HIDE DEF v, others
<1>4. ASSUME NEW p \in Ops PROVE Handler(op'[p])
  <2>1. CASE p = o
        BY <1>2, <1>3, <2>1, BeginFacts DEF Handler, v, others
  <2>2. CASE p # o /\ op'[p] = Idle
        BY <2>2, IdleFacts DEF Handler, Formed
  <2>3. CASE op[p] # Idle /\ op'[p] = [op[p] EXCEPT !.alone = FALSE]
        BY <2>3, Handlers, NotAlone DEF Handler
  <2>. QED BY <2>1, <2>2, <2>3, BeginFacts
<1>5. op' \in [Ops -> {Idle} \cup OpType]
      BY <1>4, BeginFacts DEF Handler
<1>6. /\ started' \in 0 .. MaxOps /\ crossed' \in BOOLEAN
      /\ UNCHANGED <<route, rec, checkout, switched, faults, skipped>>
      BY Typed, HostnameAssumption DEF Begin
<1>. QED BY <1>4, <1>5, <1>6, Typed DEF TypeOK, WellFormed, OpType, Handler, AllFormed

\* A handler that has its answer and a list of its own to write.
LEMMA ProceedTyped ==
    ASSUME TypeOK, AllFormed, NEW o \in Ops, op[o].pc = "asking",
           NEW r \in Record \cup {None}, NEW todo \in Seq(Write), todo # <<>>,
           \/ /\ op[o].kind \notin Activations /\ r \in Record
              /\ \A i \in 1 .. Len(todo) :
                    /\ todo[i].do \notin {"unroute", "load"}
                    /\ todo[i].do = "record" => todo[i].at = op[o].at
           \/ /\ op[o].kind \in Activations
              /\ todo = <<Route(op[o].at), Load(op[o].at), Save(op[o].at)>>,
           Proceed(o, r, todo),
           UNCHANGED <<route, rec, switched, started, faults, crossed, skipped>>,
           checkout' \subseteq Hosts
    PROVE  TypeOK' /\ AllFormed'
<1>. DEFINE v == [op[o] EXCEPT !.pc = "writing", !.rec = r, !.todo = todo]
<1>1. op[o] \in OpType /\ Formed(op[o])
      BY Handlers DEF Handler
<1>2. /\ v \in OpType /\ v.pc = "writing" /\ v.todo = todo /\ v.rec = r
      /\ v.kind = op[o].kind /\ v.at = op[o].at
      BY <1>1 DEF OpType
<1>3. op' = [op EXCEPT ![o] = v]
      BY DEF Proceed
<1>. HIDE DEF v
<1>4. v.kind # "disable"
      BY <1>1, <1>2, IdleFacts DEF Formed
<1>5. Formed(v)
  <2>1. CASE op[o].kind \notin Activations
        BY <1>2, <1>4, <2>1 DEF Formed
  <2>2. CASE op[o].kind \in Activations
        BY <1>2, <1>4, <2>2 DEF Formed, Route, Load, Save
  <2>. QED BY <2>1, <2>2
<1>6. Handler(v)
      BY <1>2, <1>5 DEF Handler, WellFormed
<1>. QED BY <1>3, <1>6, Move, Typed

LEMMA EndTyped ==
    ASSUME TypeOK, AllFormed, NEW o \in Ops, End(o),
           UNCHANGED <<route, rec, switched, started, crossed, skipped>>,
           checkout' \subseteq Hosts, faults' \in 0 .. MaxFaults
    PROVE  TypeOK' /\ AllFormed'
<1>1. Handler(Idle)
      BY IdleFacts DEF Handler, Formed
<1>. QED BY <1>1, Move, Typed DEF End

LEMMA RegisteredTyped ==
    ASSUME NEW r \in Record, NEW a \in Registered(r)
    PROVE  a.rec \in Record
<1>1. /\ [r EXCEPT !.status = "needs_manual_review"] \in Record
      /\ \A c \in BOOLEAN : [r EXCEPT !.cf = c] \in Record
      BY DEF Record, TenantStatus
<1>2. /\ [r EXCEPT !.status = "failed", !.cf = FALSE] \in Record
      /\ [r EXCEPT !.status = "active", !.cf = TRUE] \in Record
      BY DEF Record, TenantStatus
<1>. QED BY <1>1, <1>2 DEF Registered

\* The list of a handler that registers all variants.
RegisterList(k, h) ==
    RouteAll \o <<Save(h)>> \o (CASE k = "onboard" -> <<Save(h)>>
                                  [] k = "switch"  -> <<D1(h)>>
                                  [] OTHER         -> <<>>)

\* All routes, then the record at h, and nothing that a registration may not write.
RegisteringList(todo, h) ==
    /\ todo \in Seq(Write) /\ todo # <<>>
    /\ \A i \in 1 .. Len(todo) :
          /\ todo[i].do \in {"route", "record", "d1"}
          /\ todo[i].do = "record" =>
                /\ todo[i].at = h
                /\ \E j \in 1 .. (i - 1) : todo[j] = Route(h)

LEMMA RouteAllThenSave ==
    ASSUME NEW h \in Hosts, NEW tail \in Seq({Save(h), D1(h)})
    PROVE  RegisteringList((RouteAll \o <<Save(h)>>) \o tail, h)
<1>. DEFINE n == Len(RouteAll)
<1>1. tail \in Seq(Write) /\ n \in Nat /\ Len(tail) \in Nat
  <2>1. {Save(h), D1(h)} \subseteq Write
        BY WritesTyped
  <2>. QED BY <2>1, RouteAllFacts, LenProperties
<1>2. <<Save(h)>> \in Seq(Write) /\ Len(<<Save(h)>>) = 1 /\ <<Save(h)>>[1] = Save(h)
      BY WritesTyped
<1>. DEFINE front == RouteAll \o <<Save(h)>>
<1>3. /\ front \in Seq(Write) /\ Len(front) = n + 1
      /\ \A i \in 1 .. n : front[i] = RouteAll[i]
      /\ front[n + 1] = Save(h)
      BY <1>1, <1>2, RouteAllFacts, ConcatProperties
<1>. HIDE DEF front, n
<1>4. /\ front \o tail \in Seq(Write) /\ Len(front \o tail) = n + 1 + Len(tail)
      /\ \A i \in 1 .. (n + 1 + Len(tail)) :
            (front \o tail)[i] = IF i <= n + 1 THEN front[i] ELSE tail[i - (n + 1)]
  <2>1. /\ front \o tail \in Seq(Write) /\ Len(front \o tail) = Len(front) + Len(tail)
        /\ \A i \in 1 .. Len(front) + Len(tail) :
              (front \o tail)[i] = IF i <= Len(front) THEN front[i]
                                                     ELSE tail[i - Len(front)]
        BY <1>1, <1>3, ConcatProperties
  <2>. QED BY <1>1, <1>3, <2>1
<1>5. PICK k \in 1 .. n : RouteAll[k] = Route(h)
      BY RouteAllFacts DEF n
<1>6. (front \o tail)[k] = Route(h)
      BY <1>1, <1>3, <1>4, <1>5
<1>7. ASSUME NEW i \in 1 .. (n + 1 + Len(tail))
      PROVE  /\ (front \o tail)[i].do \in {"route", "record", "d1"}
             /\ (front \o tail)[i].do = "record" => (front \o tail)[i].at = h /\ i > n
  <2>1. CASE i <= n
    <3>1. (front \o tail)[i] = RouteAll[i] /\ RouteAll[i].do = "route"
          BY <1>1, <1>3, <1>4, <2>1, RouteAllFacts DEF n
    <3>. QED BY <3>1
  <2>2. CASE i = n + 1
        BY <1>1, <1>3, <1>4, <2>2 DEF Save
  <2>3. CASE i > n + 1
    <3>1. i - (n + 1) \in 1 .. Len(tail)
          BY <1>1, <2>3
    <3>2. (front \o tail)[i] = tail[i - (n + 1)]
          BY <1>1, <1>4, <2>3
    <3>3. (front \o tail)[i] \in {Save(h), D1(h)} /\ i > n
          BY <1>1, <2>3, <3>1, <3>2, ElementOfSeq
    <3>4. CASE (front \o tail)[i] = Save(h)
          BY <3>3, <3>4 DEF Save
    <3>5. CASE (front \o tail)[i] = D1(h)
          BY <3>5 DEF D1
    <3>. QED BY <3>3, <3>4, <3>5
  <2>4. i <= n \/ i = n + 1 \/ i > n + 1
        BY <1>1
  <2>. QED BY <2>1, <2>2, <2>3, <2>4, Zenon
<1>8. front \o tail # <<>>
      BY <1>1, <1>4
<1>9. ASSUME NEW i \in 1 .. (n + 1 + Len(tail)), i > n PROVE k \in 1 .. (i - 1)
      BY <1>1, <1>9
<1>. QED BY <1>4, <1>6, <1>7, <1>8, <1>9 DEF RegisteringList, front

LEMMA RegisterListFacts ==
    ASSUME NEW k, NEW h \in Hosts
    PROVE  /\ RegisteringList(RegisterList(k, h), h)
           /\ RegisteringList(RouteAll \o <<Save(h)>>, h)
<1>1. /\ <<Save(h)>> \in Seq({Save(h), D1(h)})
      /\ <<D1(h)>> \in Seq({Save(h), D1(h)})
      /\ <<>> \in Seq({Save(h), D1(h)})
      OBVIOUS
<1>2. RegisteringList(RegisterList(k, h), h)
      BY <1>1, RouteAllThenSave DEF RegisterList
<1>3. (RouteAll \o <<Save(h)>>) \o <<>> = RouteAll \o <<Save(h)>>
  <2>1. RouteAll \o <<Save(h)>> \in Seq(Write)
        BY WritesTyped, RouteAllFacts, ConcatProperties
  <2>. QED BY <2>1, ConcatEmptySeq
<1>. QED BY <1>1, <1>2, <1>3, RouteAllThenSave

LEMMA Tails ==
    ASSUME NEW a, NEW b, NEW c
    PROVE  /\ Tail(<<a, b, c>>) = <<b, c>> /\ Tail(<<a, b>>) = <<b>>
           /\ Len(<<a>>) = 1
OBVIOUS

\* What a handler has left after its first write.
LEMMA RestTyped ==
    ASSUME TypeOK, AllFormed, NEW o \in Ops, op[o].pc = "writing",
           NEW r \in Record \cup {None},
           r = op[o].rec \/ Head(op[o].todo).do = "load"
    PROVE  /\ Handler(Rest(o, r))
           /\ Head(op[o].todo) \in Write /\ Head(op[o].todo) = op[o].todo[1]
           /\ \/ Len(op[o].todo) = 1 /\ Rest(o, r) = Idle
              \/ LET v == Rest(o, r) IN
                 /\ Len(op[o].todo) > 1 /\ v \in OpType
                 /\ v.kind = op[o].kind /\ v.pc = "writing" /\ v.at = op[o].at
                 /\ v.slug = op[o].slug /\ v.rec = r /\ v.alone = op[o].alone
                 /\ v.todo = Tail(op[o].todo)
                 /\ Len(v.todo) = Len(op[o].todo) - 1
                 /\ \A i \in 1 .. Len(v.todo) : v.todo[i] = op[o].todo[i + 1]
<1>0. PICK t : t = op[o].todo
      OBVIOUS
<1>. DEFINE v == [op[o] EXCEPT !.todo = Tail(t), !.rec = r]
<1>1. op[o] \in OpType /\ Formed(op[o]) /\ WellFormed(op[o])
      BY Handlers DEF Handler
<1>2. t \in Seq(Write) /\ t # <<>>
      BY <1>0, <1>1 DEF OpType, WellFormed
<1>3. /\ Head(t) \in Write /\ Tail(t) \in Seq(Write) /\ Len(Tail(t)) = Len(t) - 1
      /\ \A i \in 1 .. Len(Tail(t)) : Tail(t)[i] = t[i + 1]
      /\ Len(t) \in Nat /\ Len(t) >= 1 /\ Head(t) = t[1]
      BY <1>2, HeadTailProperties, EmptySeq
<1>4. /\ v \in OpType /\ v.kind = op[o].kind /\ v.pc = "writing" /\ v.at = op[o].at
      /\ v.slug = op[o].slug /\ v.rec = r /\ v.alone = op[o].alone /\ v.todo = Tail(t)
      BY <1>1, <1>3 DEF OpType
<1>5. Rest(o, r) = IF Len(t) = 1 THEN Idle ELSE v
      BY <1>0 DEF Rest
<1>. HIDE DEF v
<1>6. ASSUME Len(t) # 1 PROVE Handler(v)
  <2>1. v.todo # <<>>
    <3>1. Len(Tail(t)) # 0
          BY <1>3, <1>6
    <3>. QED BY <1>4, <3>1, EmptySeq
  <2>2. WellFormed(v)
        BY <1>4, <2>1 DEF WellFormed
  <2>3. /\ t[1].do = "load" => op[o].kind \in Activations
        /\ \A i \in 1 .. Len(t) :
              /\ t[i].do = "record" => t[i].at = op[o].at
              /\ t[i].do = "unroute" => op[o].kind = "disable"
              /\ t[i].do = "load" => op[o].kind \in Activations
        BY <1>0, <1>1, <1>3, IdleFacts DEF Formed
  <2>4. v.kind \notin Activations => v.rec \in Record
        BY <1>0, <1>1, <1>3, <1>4, <2>3, IdleFacts DEF Formed
  <2>5. v.kind \in Activations =>
           v.todo \in {<<Route(v.at), Load(v.at), Save(v.at)>>,
                       <<Load(v.at), Save(v.at)>>, <<Save(v.at)>>}
    <3>1. ASSUME v.kind \in Activations
          PROVE  t \in {<<Route(v.at), Load(v.at), Save(v.at)>>,
                        <<Load(v.at), Save(v.at)>>, <<Save(v.at)>>}
          BY <1>0, <1>1, <1>4, <3>1, IdleFacts DEF Formed
    <3>2. ASSUME v.kind \in Activations
          PROVE  Tail(t) \in {<<Load(v.at), Save(v.at)>>, <<Save(v.at)>>}
      <4>1. t \in {<<Route(v.at), Load(v.at), Save(v.at)>>, <<Load(v.at), Save(v.at)>>}
            BY <1>6, <3>1, <3>2, Tails, Zenon
      <4>2. CASE t = <<Route(v.at), Load(v.at), Save(v.at)>>
            BY <4>2, Tails
      <4>3. CASE t = <<Load(v.at), Save(v.at)>>
            BY <4>3, Tails
      <4>. QED BY <4>1, <4>2, <4>3
    <3>. QED BY <1>4, <3>2
  <2>6. v.kind = "disable" =>
           v.rec.status = "disabled" /\ v.todo \in {<<Unroute(v.at)>>}
    <3>1. ASSUME v.kind = "disable"
          PROVE  /\ t \in {<<Save(v.at), Unroute(v.at)>>, <<Unroute(v.at)>>}
                 /\ op[o].rec.status = "disabled" /\ r = op[o].rec
          BY <1>0, <1>1, <1>3, <1>4, <2>3, <3>1, IdleFacts DEF Formed, Activations
    <3>2. ASSUME v.kind = "disable" PROVE Tail(t) = <<Unroute(v.at)>>
      <4>1. t = <<Save(v.at), Unroute(v.at)>>
            BY <1>6, <3>1, <3>2, Tails, Zenon
      <4>. QED BY <4>1, Tails, Zenon
    <3>. QED BY <1>4, <3>1, <3>2
  <2>7. \A i \in 1 .. Len(v.todo) : v.todo[i] = t[i + 1] /\ i + 1 \in 1 .. Len(t)
        BY <1>3, <1>4
  <2>8. Formed(v)
        BY <1>4, <2>3, <2>4, <2>5, <2>6, <2>7 DEF Formed
  <2>. QED BY <1>4, <2>2, <2>8 DEF Handler
<1>7. Handler(Idle)
      BY IdleFacts DEF Handler, Formed
<1>8. CASE Len(t) = 1
      BY <1>0, <1>3, <1>5, <1>7, <1>8
<1>9. CASE Len(t) # 1
  <2>1. Rest(o, r) = v /\ Len(t) > 1
        BY <1>3, <1>5, <1>9
  <2>. QED BY <1>0, <1>3, <1>4, <1>6, <1>9, <2>1
<1>. QED BY <1>8, <1>9

LEMMA StepTyped ==
    ASSUME TypeOK, AllFormed, NEW o \in Ops, Step(o)
    PROVE  TypeOK' /\ AllFormed'
<1>1. PICK w : w = Head(op[o].todo)
      OBVIOUS
<1>2. op[o] \in OpType /\ Formed(op[o]) /\ op[o].pc = "writing"
      BY Handlers DEF Handler, Step
<1>3. w \in Write /\ w = op[o].todo[1] /\ 1 \in 1 .. Len(op[o].todo)
  <2>1. Head(op[o].todo) \in Write /\ Head(op[o].todo) = op[o].todo[1]
        BY <1>2, RestTyped DEF OpType
  <2>2. op[o].todo # <<>> /\ op[o].todo \in Seq(Write)
        BY <1>2, Handlers DEF Handler, WellFormed, OpType
  <2>3. Len(op[o].todo) \in Nat \ {0}
        BY <2>2, EmptySeq
  <2>. QED BY <1>1, <2>1, <2>3
<1>4. route' \in [Hosts -> Slugs \cup {None}]
      BY <1>1, <1>2, <1>3, Typed DEF Step, Write, OpType
<1>5. rec' \in [Hosts -> Record \cup {None}]
      BY <1>1, <1>2, <1>3, Typed DEF Step, Write, OpType
<1>6. PICK cf \in BOOLEAN :
         op' = [op EXCEPT ![o] = Rest(o, IF w.do = "load" THEN Upserted(o, w.at, cf)
                                                          ELSE op[o].rec)]
      BY <1>1 DEF Step
<1>7. Upserted(o, w.at, cf) \in Record
  <2>1. NewRecord(op[o].slug, "active") \in Record
        BY <1>2 DEF NewRecord, Record, TenantStatus, OpType
  <2>2. \A r \in Record : [r EXCEPT !.cf = r.cf \/ cf] \in Record
        BY DEF Record
  <2>3. rec[w.at] \in Record \cup {None}
        BY <1>3, Typed DEF Write
  <2>. QED BY <2>1, <2>2, <2>3 DEF Upserted
<1>8. PICK r : r = IF w.do = "load" THEN Upserted(o, w.at, cf) ELSE op[o].rec
      OBVIOUS
<1>9. r \in Record \cup {None} /\ (r = op[o].rec \/ Head(op[o].todo).do = "load")
      BY <1>1, <1>2, <1>7, <1>8 DEF OpType
<1>10. Handler(Rest(o, r)) /\ op' = [op EXCEPT ![o] = Rest(o, r)]
      BY <1>2, <1>6, <1>8, <1>9, RestTyped
<1>11. /\ checkout' \subseteq Hosts /\ switched' \subseteq Slugs
       /\ faults' \in 0 .. MaxFaults /\ skipped' \subseteq Hosts
       /\ UNCHANGED <<started, crossed>>
      BY <1>2, Typed DEF Step, OpType
<1>. QED BY <1>4, <1>5, <1>10, <1>11, Move

LEMMA ThrowsTyped ==
    ASSUME TypeOK, AllFormed, NEW o \in Ops, Throws(o)
    PROVE  TypeOK' /\ AllFormed'
<1>1. op[o] \in OpType /\ op[o].pc = "writing"
      BY Handlers DEF Handler, Throws
<1>2. /\ Handler(Rest(o, op[o].rec)) /\ Handler(Idle)
      /\ Head(op[o].todo).at \in Hosts
      BY <1>1, RestTyped, IdleFacts DEF OpType, Handler, Formed, Write
<1>3. /\ faults' \in 0 .. MaxFaults /\ UNCHANGED <<route, rec, checkout, switched,
                                                    started, crossed>>
      BY Typed, HostnameAssumption DEF Throws
<1>4. CASE End(o) /\ UNCHANGED skipped
      BY <1>3, <1>4, EndTyped, Typed
<1>5. CASE /\ op' = [op EXCEPT ![o] = Rest(o, op[o].rec)]
           /\ skipped' = IF Head(op[o].todo).do = "route"
                         THEN skipped \cup {Head(op[o].todo).at} ELSE skipped
      BY <1>2, <1>3, <1>5, Move, Typed
<1>. QED BY <1>4, <1>5 DEF Throws

\* The answers.
LEMMA AnswersTyped ==
    ASSUME TypeOK, AllFormed, NEW o \in Ops,
           Register(o) \/ StripeAnswers(o) \/ CfReports(o) \/ ActivateDomain(o)
    PROVE  TypeOK' /\ AllFormed'
<1>. DEFINE h == op[o].at
<1>1. op[o] \in OpType /\ op[o].pc = "asking" /\ h \in Hosts
      /\ (op[o].kind \notin Activations => op[o].rec \in Record)
      /\ op[o].rec \in Record \cup {None}
      BY Handlers, IdleFacts
      DEF Handler, Formed, OpType, Register, StripeAnswers, CfReports, ActivateDomain
<1>2. <<Save(h)>> \in Seq(Write) /\ <<Save(h)>> # <<>>
      /\ \A i \in 1 .. Len(<<Save(h)>>) :
            /\ <<Save(h)>>[i].do \notin {"unroute", "load"}
            /\ <<Save(h)>>[i].do = "record" => <<Save(h)>>[i].at = h
      BY <1>1, WritesTyped DEF Save
<1>3. <<Route(h), Save(h)>> \in Seq(Write) /\ <<Route(h), Save(h)>> # <<>>
      /\ \A i \in 1 .. Len(<<Route(h), Save(h)>>) :
            /\ <<Route(h), Save(h)>>[i].do \notin {"unroute", "load"}
            /\ <<Route(h), Save(h)>>[i].do = "record" =>
                  <<Route(h), Save(h)>>[i].at = h
      BY <1>1, WritesTyped DEF Save, Route
<1>4. <<Route(h), Load(h), Save(h)>> \in Seq(Write)
      /\ <<Route(h), Load(h), Save(h)>> # <<>>
      BY <1>1, WritesTyped
<1>5. ASSUME NEW st \in TenantStatus, op[o].rec \in Record
      PROVE  [op[o].rec EXCEPT !.status = st] \in Record
      BY <1>5 DEF Record
<1>6. CASE Register(o)
  <2>1. op[o].kind \notin Activations /\ UNCHANGED <<route, rec, env>>
        BY <1>6 DEF Register, Activations
  <2>2. CASE End(o)
        BY <2>1, <2>2, EndTyped, Typed DEF env
  <2>3. ASSUME NEW r \in Record, NEW todo, RegisteringList(todo, h), Proceed(o, r, todo)
        PROVE  TypeOK' /\ AllFormed'
        BY <1>1, <2>1, <2>3, ProceedTyped, Typed DEF env, RegisteringList
  <2>4. ASSUME NEW a \in Registered(op[o].rec),
               Proceed(o, a.rec, RegisterList(op[o].kind, h))
        PROVE  TypeOK' /\ AllFormed'
    <3>1. a.rec \in Record
          BY <1>1, <2>1, RegisteredTyped
    <3>. QED BY <1>1, <2>3, <2>4, <3>1, RegisterListFacts
  <2>5. CASE Proceed(o, op[o].rec, RouteAll \o <<Save(h)>>)
        BY <1>1, <2>1, <2>3, <2>5, RegisterListFacts
  <2>. QED BY <1>6, <2>2, <2>4, <2>5 DEF Register, RegisterList
<1>7. CASE StripeAnswers(o)
  <2>1. op[o].kind \notin Activations /\ checkout' \subseteq Hosts
        /\ UNCHANGED <<route, rec, switched, started, faults, crossed, skipped>>
        BY <1>1, <1>7, Typed DEF StripeAnswers, Activations
  <2>2. CASE End(o)
        BY <2>1, <2>2, EndTyped, Typed
  <2>3. CASE Proceed(o, op[o].rec, <<Save(h)>>)
        BY <1>1, <1>2, <2>1, <2>3, ProceedTyped
  <2>. QED BY <1>7, <2>2, <2>3 DEF StripeAnswers
<1>8. CASE CfReports(o)
  <2>1. op[o].kind \notin Activations /\ UNCHANGED <<route, rec, env>>
        BY <1>8 DEF CfReports, Activations
  <2>2. ASSUME NEW r \in Record, Proceed(o, r, <<Save(h)>>)
        PROVE  TypeOK' /\ AllFormed'
        BY <1>1, <1>2, <2>1, <2>2, ProceedTyped, Typed DEF env
  <2>3. ASSUME NEW r \in Record, Proceed(o, r, <<Route(h), Save(h)>>)
        PROVE  TypeOK' /\ AllFormed'
        BY <1>1, <1>3, <2>1, <2>3, ProceedTyped, Typed DEF env
  <2>4. /\ op[o].rec \in Record
        /\ \A st \in {"active", "pending_verification", "failed"} :
              [op[o].rec EXCEPT !.status = st] \in Record
        BY <1>1, <1>5, <2>1 DEF TenantStatus
  <2>. HIDE DEF h
  <2>. QED BY <1>8, <2>2, <2>3, <2>4 DEF CfReports, h
<1>9. CASE ActivateDomain(o)
  <2>1. op[o].kind \in Activations /\ UNCHANGED <<route, rec, env>>
        BY <1>9 DEF ActivateDomain, Activations
  <2>2. CASE End(o)
        BY <2>1, <2>2, EndTyped, Typed DEF env
  <2>3. CASE Proceed(o, None, <<Route(h), Load(h), Save(h)>>)
        BY <1>1, <1>4, <2>1, <2>3, ProceedTyped, Typed DEF env
  <2>. QED BY <1>9, <2>2, <2>3 DEF ActivateDomain
<1>. QED BY <1>6, <1>7, <1>8, <1>9

\* What is known of a handler that starts.
Starts(o, kind, h, s, r, pc, todo) ==
    /\ Begin(o, kind, h, s, r, pc, todo)
    /\ kind \in Kinds /\ h \in Hosts /\ s \in Slugs /\ r \in Record \cup {None}
    /\ kind \notin Activations => r \in Record
    /\ \/ pc = "asking" /\ todo = <<>> /\ kind # "disable"
       \/ /\ pc = "writing" /\ todo = <<Save(h), Unroute(h)>>
          /\ kind = "disable" /\ r.status = "disabled"
    /\ kind = "activate" => route[h] \in {s, None}
    /\ kind = "switch" => \A v \in Hosts : route[v] \in {s, None}
    /\ kind \in {"verify", "batch"} => rec[h] # None /\ r = rec[h]
    /\ kind = "checkout" => r.status # "active"

Start(o) ==
    \/ \E h \in Hosts, s \in Slugs :
          \/ Onboard(o, h, s)  \/ Checkout(o, h, s)
          \/ Activate(o, h, s) \/ AdminActivate(o, h, s)
          \/ Switch(o, h, s)
    \/ \E h \in Hosts :
          \/ Paid(o, h)    \/ Verify(o, h) \/ VerifyAll(o, h)
          \/ Disable(o, h) \/ Backfill(o, h)

LEMMA Starting ==
    ASSUME TypeOK, NEW o \in Ops, Start(o)
    PROVE  \E kind, h, s, r, pc, todo : Starts(o, kind, h, s, r, pc, todo)
<1>2. \A h \in Hosts : rec[h] # None => rec[h] \in Record /\ rec[h].slug \in Slugs
      BY Typed DEF Record
<1>3. ASSUME NEW st \in TenantStatus
      PROVE  /\ \A s \in Slugs : NewRecord(s, st) \in Record
             /\ \A r \in Record : /\ [r EXCEPT !.status = st] \in Record
                                  /\ [r EXCEPT !.status = st].status = st
      BY DEF NewRecord, Record
<1>4. {"pending_verification", "free_pending_dns", "pending_payment", "paid_pending_dns",
       "disabled"} \subseteq TenantStatus
      BY DEF TenantStatus
<1>5. ASSUME NEW h \in Hosts, NEW s \in Slugs, Onboard(o, h, s)
      PROVE  \E kind, g, q, r, pc, todo : Starts(o, kind, g, q, r, pc, todo)
  <2>1. PICK r \in Record :
           r = IF rec[h] = None THEN NewRecord(s, "pending_verification") ELSE rec[h]
        BY <1>2, <1>3, <1>4
  <2>2. \/ Begin(o, "onboard", h, s, r, "asking", <<>>)
        \/ Begin(o, "free", h, s, [r EXCEPT !.status = "free_pending_dns"],
                 "asking", <<>>)
        BY <1>5, <2>1 DEF Onboard
  <2>3. [r EXCEPT !.status = "free_pending_dns"] \in Record
        BY <1>3, <1>4
  <2>4. \/ Starts(o, "onboard", h, s, r, "asking", <<>>)
        \/ Starts(o, "free", h, s, [r EXCEPT !.status = "free_pending_dns"],
                  "asking", <<>>)
        BY <2>2, <2>3 DEF Starts, Kinds, Activations
  <2>. QED BY <2>4
<1>6. ASSUME NEW h \in Hosts, NEW s \in Slugs, Checkout(o, h, s)
      PROVE  \E kind, g, q, r, pc, todo : Starts(o, kind, g, q, r, pc, todo)
  <2>1. PICK r \in Record : /\ Begin(o, "checkout", h, s, r, "asking", <<>>)
                            /\ r.status = "pending_payment"
    <3>1. NewRecord(s, "pending_payment").status = "pending_payment"
          BY DEF NewRecord
    <3>. QED BY <1>2, <1>3, <1>4, <1>6, <3>1 DEF Checkout
  <2>2. Starts(o, "checkout", h, s, r, "asking", <<>>)
        BY <2>1 DEF Starts, Kinds, Activations
  <2>. QED BY <2>2
<1>7. ASSUME NEW h \in Hosts, NEW s \in Slugs, Activate(o, h, s)
      PROVE  \E kind, g, q, r, pc, todo : Starts(o, kind, g, q, r, pc, todo)
  <2>1. Starts(o, "activate", h, s, None, "asking", <<>>)
        BY <1>7 DEF Activate, Starts, Kinds, Activations
  <2>. QED BY <2>1
<1>8. ASSUME NEW h \in Hosts, NEW s \in Slugs, AdminActivate(o, h, s)
      PROVE  \E kind, g, q, r, pc, todo : Starts(o, kind, g, q, r, pc, todo)
  <2>1. Starts(o, "admin", h, s, None, "asking", <<>>)
        BY <1>8 DEF AdminActivate, Starts, Kinds, Activations
  <2>. QED BY <2>1
<1>9. ASSUME NEW h \in Hosts, NEW s \in Slugs, Switch(o, h, s)
      PROVE  \E kind, g, q, r, pc, todo : Starts(o, kind, g, q, r, pc, todo)
  <2>1. NewRecord(s, "pending_verification") \in Record
        BY <1>3, <1>4
  <2>2. Starts(o, "switch", h, s, NewRecord(s, "pending_verification"), "asking", <<>>)
        BY <1>9, <2>1 DEF Switch, Starts, Kinds, Activations
  <2>. QED BY <2>2
<1>10. ASSUME NEW h \in Hosts, Paid(o, h)
      PROVE  \E kind, g, q, r, pc, todo : Starts(o, kind, g, q, r, pc, todo)
  <2>1. [rec[h] EXCEPT !.status = "paid_pending_dns"] \in Record /\ rec[h].slug \in Slugs
        BY <1>2, <1>3, <1>4, <1>10 DEF Paid
  <2>2. Starts(o, "paid", h, rec[h].slug, [rec[h] EXCEPT !.status = "paid_pending_dns"],
               "asking", <<>>)
        BY <1>10, <2>1 DEF Paid, Starts, Kinds, Activations
  <2>. QED BY <2>2
<1>11. ASSUME NEW h \in Hosts, Verify(o, h) \/ VerifyAll(o, h)
      PROVE  \E kind, g, q, r, pc, todo : Starts(o, kind, g, q, r, pc, todo)
  <2>1. PICK k \in {"verify", "batch"} :
           rec[h] # None /\ Begin(o, k, h, rec[h].slug, rec[h], "asking", <<>>)
        BY <1>11 DEF Verify, VerifyAll
  <2>2. Starts(o, k, h, rec[h].slug, rec[h], "asking", <<>>)
        BY <1>2, <2>1 DEF Starts, Kinds, Activations
  <2>. QED BY <2>2
<1>12. ASSUME NEW h \in Hosts, Disable(o, h)
      PROVE  \E kind, g, q, r, pc, todo : Starts(o, kind, g, q, r, pc, todo)
  <2>1. PICK r \in Record : r = [rec[h] EXCEPT !.status = "disabled"]
        BY <1>2, <1>3, <1>4, <1>12 DEF Disable
  <2>2. r.status = "disabled" /\ rec[h].slug \in Slugs
        BY <1>2, <1>3, <1>4, <1>12, <2>1 DEF Disable
  <2>3. Starts(o, "disable", h, rec[h].slug, r, "writing", <<Save(h), Unroute(h)>>)
        BY <1>12, <2>1, <2>2 DEF Disable, Starts, Kinds, Activations
  <2>. QED BY <2>3
<1>13. ASSUME NEW h \in Hosts, Backfill(o, h)
      PROVE  \E kind, g, q, r, pc, todo : Starts(o, kind, g, q, r, pc, todo)
  <2>1. Starts(o, "backfill", h, rec[h].slug, rec[h], "asking", <<>>)
        BY <1>2, <1>13 DEF Backfill, Starts, Kinds, Activations
  <2>. QED BY <2>1
<1>. QED BY <1>5, <1>6, <1>7, <1>8, <1>9, <1>10, <1>11, <1>12, <1>13 DEF Start

LEMMA NextCases ==
    Next => \E o \in Ops : \/ Start(o)
                           \/ Register(o) \/ StripeAnswers(o)
                           \/ CfReports(o) \/ ActivateDomain(o)
                           \/ Step(o) \/ Throws(o)
BY Zenon DEF Next, Start

\* A handler is where its kind has brought it, with a list of its kind to write.
THEOREM HostnameTypeCorrect == Spec => [](TypeOK /\ AllFormed)
<1>1. Init => TypeOK /\ AllFormed
  <2>. SUFFICES ASSUME Init PROVE TypeOK /\ AllFormed
       OBVIOUS
  <2>1. \A o \in Ops : op[o] = Idle
        BY DEF Init
  <2>2. \A o \in Ops : WellFormed(op[o]) /\ Formed(op[o])
        BY <2>1, IdleFacts DEF Formed
  <2>3. MaxOps \in Nat /\ MaxFaults \in Nat
        BY HostnameAssumption
  <2>4. op \in [Ops -> {Idle} \cup OpType]
        BY DEF Init
  <2>5. route \in [Hosts -> Slugs \cup {None}] /\ rec \in [Hosts -> Record \cup {None}]
        BY DEF Init
  <2>6. /\ checkout \subseteq Hosts /\ switched \subseteq Slugs
        /\ started \in 0 .. MaxOps /\ faults \in 0 .. MaxFaults
        BY <2>3 DEF Init
  <2>7. crossed \in BOOLEAN /\ skipped \subseteq Hosts
        BY Zenon DEF Init
  <2>. QED BY <2>2, <2>4, <2>5, <2>6, <2>7, Typed, Zenon DEF AllFormed
<1>2. TypeOK /\ AllFormed /\ [Next]_vars => TypeOK' /\ AllFormed'
  <2>. SUFFICES ASSUME TypeOK, AllFormed, [Next]_vars PROVE TypeOK' /\ AllFormed'
       OBVIOUS
  <2>1. CASE UNCHANGED vars
        BY <2>1 DEF vars, TypeOK, AllFormed
  <2>2. ASSUME NEW o \in Ops, Start(o) PROVE TypeOK' /\ AllFormed'
    <3>1. PICK kind, h, s, r, pc, todo : Starts(o, kind, h, s, r, pc, todo)
          BY <2>2, Starting
    <3>. QED BY <3>1, BeginTyped DEF Starts
  <2>. QED BY <2>1, <2>2, NextCases, AnswersTyped, StepTyped, ThrowsTyped
<1>. QED BY <1>1, <1>2, PTL DEF Spec
-----------------------------------------------------------------------------
(* Guards and routes *)

Routed(h) == route[h] # None \/ crossed \/ h \in skipped

\* What a handler knows.  One that runs alone knows what it has read: the others
\* are idle, the routes are as its guard found them, and the record it carries has
\* the status of the record on file.  A disable has met nobody, or is crossed.  And
\* before it saves a record as active, a handler writes the route of its host.
Good(o) ==
    op[o] # Idle =>
        /\ op[o].alone => \A p \in Ops \ {o} : op[p] = Idle
        /\ op[o].kind = "disable" => crossed \/ op[o].alone
        /\ op[o].alone /\ op[o].kind = "activate" => route[op[o].at] \in {op[o].slug, None}
        /\ op[o].alone /\ op[o].kind = "switch" =>
              \A v \in Hosts : route[v] \in {op[o].slug, None}
        /\ op[o].alone /\ op[o].kind \in Activations /\ op[o].todo = <<Save(op[o].at)>>
              /\ rec[op[o].at] # None
              => op[o].rec.status = rec[op[o].at].status
        /\ op[o].kind = "disable" /\ op[o].todo = <<Unroute(op[o].at)>> =>
              crossed \/ Status(op[o].at) # "active"
        /\ op[o].kind \in {"verify", "batch", "checkout"} /\ op[o].pc = "asking"
              /\ op[o].rec.status = "active" => Routed(op[o].at)
        /\ \A i \in 1 .. Len(op[o].todo) : op[o].todo[i].do = "record" =>
              \/ op[o].kind \notin Activations /\ op[o].rec.status # "active"
              \/ Routed(op[o].at)
              \/ \E j \in 1 .. (i - 1) : op[o].todo[j] = Route(op[o].at)

AllGood == \A o \in Ops : Good(o)

IInv == TypeOK /\ AllFormed /\ AllGood /\ ActiveIsRouted

LEMMA ActiveRouted ==
    ActiveIsRouted <=> \A h \in Hosts : Status(h) = "active" => Routed(h)
BY DEF ActiveIsRouted, Routed

\* While o takes a step of its own, another handler that is under way stays good: it
\* is not alone, and only a disable takes a route away, which is crossed then.
LEMMA Elsewhere ==
    ASSUME IInv, NEW o \in Ops, op[o] # Idle, NEW p \in Ops, p # o, op'[p] = op[p],
           crossed' = crossed,
           \A h \in Hosts : Routed(h) => Routed(h)' \/ op[o].kind = "disable"
    PROVE  Good(p)'
<1>. SUFFICES ASSUME op[p] # Idle PROVE Good(p)'
     BY DEF Good
<1>1. ~ op[p].alone /\ ~ op[o].alone
      BY DEF IInv, AllGood, Good
<1>2. op[o].kind = "disable" \/ op[p].kind = "disable" => crossed
      BY <1>1 DEF IInv, AllGood, Good
<1>3. op[p].at \in Hosts
      BY Typed DEF IInv, OpType
<1>4. Routed(op[p].at) => Routed(op[p].at)'
      BY <1>2, <1>3 DEF Routed
<1>5. Good(p)
      BY DEF IInv, AllGood
<1>. QED BY <1>1, <1>2, <1>4, <1>5 DEF Good

\* A handler that starts is good, and the others lose their solitude.
LEMMA BeginGood ==
    ASSUME IInv, NEW o \in Ops, NEW kind, NEW h, NEW s, NEW r, NEW pc, NEW todo,
           Starts(o, kind, h, s, r, pc, todo)
    PROVE  AllGood' /\ ActiveIsRouted'
<1>. DEFINE others == {p \in Ops : op[p] # Idle}
<1>1. /\ op[o] = Idle /\ op'[o].kind = kind /\ op'[o].at = h /\ op'[o].slug = s
      /\ op'[o].rec = r /\ op'[o].pc = pc /\ op'[o].todo = todo
      /\ op'[o].alone = (others = {})
      /\ \A p \in Ops \ {o} : \/ op[p] = Idle /\ op'[p] = Idle
                              \/ /\ op[p] # Idle
                                 /\ op'[p] = [op[p] EXCEPT !.alone = FALSE]
      /\ UNCHANGED <<route, rec, skipped>>
      /\ crossed' = (crossed \/ (others # {} /\
             (kind = "disable" \/ \E p \in others : op[p].kind = "disable")))
  <2>1. Begin(o, kind, h, s, r, pc, todo)
        BY DEF Starts
  <2>2. op'[o] = [kind |-> kind, pc |-> pc, at |-> h, slug |-> s,
                  rec |-> r, todo |-> todo, alone |-> others = {}]
        BY <2>1, BeginFacts DEF IInv
  <2>3. /\ op'[o].kind = kind /\ op'[o].at = h /\ op'[o].slug = s
        /\ op'[o].rec = r /\ op'[o].pc = pc /\ op'[o].todo = todo
        /\ op'[o].alone = (others = {})
    <3>. HIDE DEF others
    <3>. QED BY <2>2
  <2>. QED BY <2>1, <2>3, BeginFacts DEF IInv
<1>2. \A v \in Hosts : Routed(v) => Routed(v)'
      BY <1>1 DEF Routed
<1>3. ActiveIsRouted'
      BY <1>1, <1>2, ActiveRouted DEF Status, IInv, ActiveIsRouted, Routed
<1>4. ASSUME NEW p \in Ops, p # o PROVE Good(p)'
  <2>1. CASE op'[p] = Idle
        BY <2>1 DEF Good
  <2>2. ASSUME op[p] # Idle, op'[p] = [op[p] EXCEPT !.alone = FALSE] PROVE Good(p)'
    <3>1. op[p] \in OpType /\ Good(p)
          BY <2>2, Handlers DEF IInv, AllGood
    <3>2. /\ op'[p].kind = op[p].kind /\ op'[p].pc = op[p].pc /\ op'[p].at = op[p].at
          /\ op'[p].slug = op[p].slug /\ op'[p].rec = op[p].rec
          /\ op'[p].todo = op[p].todo /\ op'[p].alone = FALSE /\ op[p].at \in Hosts
          BY <2>2, <3>1 DEF OpType
    <3>3. op[p].kind = "disable" => crossed'
          BY <1>1, <2>2
    <3>4. Routed(op[p].at) => Routed(op[p].at)'
          BY <1>2, <3>2
    <3>. QED BY <2>2, <3>1, <3>2, <3>3, <3>4 DEF Good
  <2>. QED BY <1>1, <1>4, <2>1, <2>2
<1>5. Good(o)'
  <2>1. others = {} => \A p \in Ops \ {o} : op'[p] = Idle
        BY <1>1
  <2>2. kind = "disable" => crossed' \/ others = {}
        BY <1>1
  <2>3. /\ kind = "activate" => route'[h] \in {s, None}
        /\ kind = "switch" => \A v \in Hosts : route'[v] \in {s, None}
        BY <1>1 DEF Starts
  <2>4. kind \in {"verify", "batch", "checkout"} /\ r.status = "active" => Routed(h)'
    <3>1. ASSUME kind \in {"verify", "batch", "checkout"}, r.status = "active"
          PROVE  Status(h) = "active" /\ h \in Hosts
          BY <3>1 DEF Starts, Status
    <3>. QED BY <1>2, <3>1, ActiveRouted DEF IInv
  <2>5. CASE pc = "asking" /\ todo = <<>> /\ kind # "disable"
    <3>1. /\ todo # <<Save(h)>> /\ Len(todo) = 0 /\ 1 .. Len(todo) = {}
          /\ kind # "disable"
          BY <2>5
    <3>2. others = {} => \A p \in Ops \ {o} : op'[p] = Idle
          BY <2>1
    <3>. HIDE DEF others
    <3>. QED BY <1>1, <2>3, <2>4, <3>1, <3>2 DEF Good
  <2>6. CASE /\ pc = "writing" /\ todo = <<Save(h), Unroute(h)>>
             /\ kind = "disable" /\ r.status = "disabled"
    <3>1. todo # <<Unroute(h)>>
          BY <2>6
    <3>. QED BY <1>1, <2>1, <2>2, <2>6, <3>1 DEF Good, Activations
  <2>. QED BY <2>5, <2>6 DEF Starts
<1>. QED BY <1>3, <1>4, <1>5 DEF AllGood

\* A handler that ends or goes on without touching a route or a record: the others
\* stay as they are.
LEMMA Onward ==
    ASSUME IInv, NEW o \in Ops, op[o] # Idle, NEW v, op' = [op EXCEPT ![o] = v],
           UNCHANGED <<route, rec, crossed>>, skipped \subseteq skipped',
           Good(o)'
    PROVE  AllGood' /\ ActiveIsRouted'
<1>1. \A h \in Hosts : (Routed(h) => Routed(h)') /\ (Status(h)' = Status(h))
      BY DEF Routed, Status
<1>2. \A p \in Ops \ {o} : op'[p] = op[p]
      BY Typed DEF IInv
<1>3. \A p \in Ops \ {o} : Good(p)'
      BY <1>1, <1>2, Elsewhere
<1>4. ActiveIsRouted'
      BY <1>1, ActiveRouted DEF IInv, ActiveIsRouted, Routed
<1>. QED BY <1>3, <1>4 DEF AllGood

LEMMA EndGood ==
    ASSUME IInv, NEW o \in Ops, op[o] # Idle, End(o),
           UNCHANGED <<route, rec, crossed>>, skipped \subseteq skipped'
    PROVE  AllGood' /\ ActiveIsRouted'
<1>1. op'[o] = Idle
      BY Typed DEF End, IInv
<1>2. Good(o)'
      BY <1>1 DEF Good
<1>. QED BY <1>2, Onward DEF End

\* A handler that gets its answer: a record it saves as active comes after its
\* route, or its host is routed already.
LEMMA ProceedGood ==
    ASSUME IInv, NEW o \in Ops, op[o].pc = "asking", op[o] # Idle,
           NEW r, NEW todo \in Seq(Write), Proceed(o, r, todo),
           UNCHANGED <<route, rec, crossed, skipped>>,
           op[o].kind \in Activations => Len(todo) = 3,
           \A i \in 1 .. Len(todo) : todo[i].do = "record" =>
              \/ op[o].kind \notin Activations /\ r.status # "active"
              \/ Routed(op[o].at)
              \/ \E j \in 1 .. (i - 1) : todo[j] = Route(op[o].at)
    PROVE  AllGood' /\ ActiveIsRouted'
<1>. DEFINE v == [op[o] EXCEPT !.pc = "writing", !.rec = r, !.todo = todo]
<1>1. op[o] \in OpType /\ Formed(op[o]) /\ Good(o)
      BY Handlers DEF Handler, IInv, AllGood
<1>2. /\ v.pc = "writing" /\ v.todo = todo /\ v.rec = r /\ v.alone = op[o].alone
      /\ v.kind = op[o].kind /\ v.at = op[o].at /\ v.slug = op[o].slug
      /\ op[o].at \in Hosts
      BY <1>1 DEF OpType
<1>3. op' = [op EXCEPT ![o] = v] /\ op'[o] = v
      BY Typed DEF Proceed, IInv
<1>. HIDE DEF v
<1>4. op[o].kind # "disable"
      BY <1>1, IdleFacts DEF Formed
<1>5. op[o].kind \in Activations => todo # <<Save(op[o].at)>>
  <2>1. Len(<<Save(op[o].at)>>) = 1
        BY Tails
  <2>. QED BY <2>1
<1>6. \A h \in Hosts : Routed(h) => Routed(h)'
      BY DEF Routed
<1>7. op[o].alone => \A p \in Ops \ {o} : op'[p] = Idle
      BY <1>1, <1>3, Typed DEF Good, IInv
<1>8. Good(o)'
      BY <1>1, <1>2, <1>3, <1>4, <1>5, <1>6, <1>7 DEF Good
<1>. QED BY <1>3, <1>8, Onward

LEMMA AnswersGood ==
    ASSUME IInv, NEW o \in Ops,
           Register(o) \/ StripeAnswers(o) \/ CfReports(o) \/ ActivateDomain(o)
    PROVE  AllGood' /\ ActiveIsRouted'
<1>. DEFINE h == op[o].at
<1>1. /\ op[o] \in OpType /\ op[o].pc = "asking" /\ op[o] # Idle /\ h \in Hosts
      /\ Good(o)
      BY Handlers
      DEF Register, StripeAnswers, CfReports, ActivateDomain, OpType, IInv, AllGood
<1>2. /\ {<<Save(h)>>, <<Route(h), Save(h)>>, <<Route(h), Load(h), Save(h)>>}
            \subseteq Seq(Write)
      /\ Len(<<Save(h)>>) = 1 /\ Len(<<Route(h), Save(h)>>) = 2
      /\ Len(<<Route(h), Load(h), Save(h)>>) = 3
  <2>1. Save(h) \in Write /\ Route(h) \in Write /\ Load(h) \in Write
        BY <1>1, WritesTyped
  <2>. QED BY <2>1
<1>3. CASE End(o)
      BY <1>1, <1>3, EndGood
      DEF Register, StripeAnswers, CfReports, ActivateDomain, env
<1>4. CASE Register(o)
  <2>1. /\ op[o].kind \notin Activations
        /\ UNCHANGED <<route, rec, crossed, skipped>>
        BY <1>4 DEF Register, Activations, env
  <2>2. ASSUME NEW r, NEW todo, RegisteringList(todo, h), Proceed(o, r, todo)
        PROVE  AllGood' /\ ActiveIsRouted'
        BY <1>1, <2>1, <2>2, ProceedGood DEF RegisteringList
  <2>3. ASSUME NEW a, Proceed(o, a.rec, RegisterList(op[o].kind, h))
        PROVE  AllGood' /\ ActiveIsRouted'
        BY <1>1, <2>2, <2>3, RegisterListFacts
  <2>4. CASE Proceed(o, op[o].rec, RouteAll \o <<Save(h)>>)
        BY <1>1, <2>2, <2>4, RegisterListFacts
  <2>. QED BY <1>3, <1>4, <2>3, <2>4 DEF Register, RegisterList
<1>5. ASSUME NEW r, Proceed(o, r, <<Save(h)>>), op[o].kind \notin Activations,
             r.status # "active" \/ Routed(h),
             UNCHANGED <<route, rec, crossed, skipped>>
      PROVE  AllGood' /\ ActiveIsRouted'
      BY <1>1, <1>2, <1>5, ProceedGood
<1>6. CASE StripeAnswers(o)
  <2>1. /\ op[o].kind = "checkout" /\ op[o].kind \notin Activations
        /\ UNCHANGED <<route, rec, crossed, skipped>>
        BY <1>6 DEF StripeAnswers, Activations
  <2>2. op[o].rec.status # "active" \/ Routed(h)
        BY <1>1, <2>1 DEF Good
  <2>. QED BY <1>3, <1>5, <1>6, <2>1, <2>2 DEF StripeAnswers
<1>7. CASE CfReports(o)
  <2>1. /\ op[o].kind \in {"verify", "batch"} /\ op[o].kind \notin Activations
        /\ UNCHANGED <<route, rec, crossed, skipped>>
        BY <1>7 DEF CfReports, Activations, env
  <2>2. op[o].rec \in Record /\ (op[o].rec.status # "active" \/ Routed(h))
        BY <1>1, <2>1, Handlers, IdleFacts DEF Good, Handler, Formed, IInv
  <2>3. ASSUME NEW r, Proceed(o, r, <<Route(h), Save(h)>>)
        PROVE  AllGood' /\ ActiveIsRouted'
    <3>1. \A i \in 1 .. 2 : <<Route(h), Save(h)>>[i].do = "record" =>
             \E j \in 1 .. (i - 1) : <<Route(h), Save(h)>>[j] = Route(h)
          BY DEF Route
    <3>. QED BY <1>1, <1>2, <2>1, <2>3, <3>1, ProceedGood
  <2>4. ASSUME NEW st \in {"pending_verification", "failed"},
               Proceed(o, [op[o].rec EXCEPT !.status = st], <<Save(h)>>)
        PROVE  AllGood' /\ ActiveIsRouted'
    <3>1. [op[o].rec EXCEPT !.status = st].status # "active"
          BY <2>2 DEF Record
    <3>. QED BY <1>5, <2>1, <2>4, <3>1
  <2>5. CASE Proceed(o, op[o].rec, <<Save(h)>>)
        BY <1>5, <2>1, <2>2, <2>5
  <2>. QED BY <1>7, <2>3, <2>4, <2>5 DEF CfReports
<1>8. CASE ActivateDomain(o)
  <2>1. /\ op[o].kind \in Activations /\ UNCHANGED <<route, rec, crossed, skipped>>
        BY <1>8 DEF ActivateDomain, Activations, env
  <2>2. \A i \in 1 .. 3 : <<Route(h), Load(h), Save(h)>>[i].do = "record" =>
           \E j \in 1 .. (i - 1) : <<Route(h), Load(h), Save(h)>>[j] = Route(h)
        BY DEF Route, Load
  <2>3. CASE Proceed(o, None, <<Route(h), Load(h), Save(h)>>)
        BY <1>1, <1>2, <2>1, <2>2, <2>3, ProceedGood
  <2>. QED BY <1>3, <1>8, <2>3 DEF ActivateDomain
<1>. QED BY <1>4, <1>6, <1>7, <1>8

\* A handler that goes on after its first write, or passes it over.
LEMMA RestGood ==
    ASSUME IInv, NEW o \in Ops, op[o] \in OpType, op[o].pc = "writing",
           NEW r \in Record \cup {None}, NEW w, w = Head(op[o].todo),
           r = op[o].rec \/ w.do = "load",
           op' = [op EXCEPT ![o] = Rest(o, r)],
           crossed' = crossed,
           \A h \in Hosts : Routed(h) => Routed(h)' \/ op[o].kind = "disable",
           \A h \in Hosts : w = Route(h) => Routed(h)',
           \A h \in Hosts : route'[h] \in {route[h], op[o].slug, None},
           \A h \in Hosts : op[o].kind \in Activations /\ w = Load(h) /\ rec'[h] # None
                               => r.status = rec'[h].status,
           \A h \in Hosts : op[o].kind = "disable" /\ w = Save(h)
                               => Status(h)' # "active"
    PROVE  Good(o)'
<1>0. PICK h, t, v : h = op[o].at /\ t = op[o].todo /\ v = Rest(o, r)
      OBVIOUS
<1>1. /\ op'[o] = v /\ h \in Hosts /\ t \in Seq(Write) /\ h = op[o].at /\ t = op[o].todo
      /\ \A p \in Ops \ {o} : op'[p] = op[p]
      BY <1>0, Typed DEF IInv, OpType
<1>2. w \in Write /\ w = t[1] /\ Formed(op[o]) /\ Good(o) /\ op[o] # Idle
      BY <1>1, RestTyped, Handlers DEF IInv, AllGood, Handler
<1>3. CASE v = Idle
      BY <1>1, <1>3 DEF Good
<1>4. ASSUME /\ Len(t) > 1 /\ v \in OpType
             /\ v.kind = op[o].kind /\ v.pc = "writing" /\ v.at = h
             /\ v.slug = op[o].slug /\ v.rec = r /\ v.alone = op[o].alone
             /\ v.todo = Tail(t) /\ Len(v.todo) = Len(t) - 1
             /\ \A i \in 1 .. Len(v.todo) : v.todo[i] = t[i + 1]
      PROVE  Good(o)'
  <2>1. v.alone => \A p \in Ops \ {o} : op'[p] = Idle
        BY <1>1, <1>2, <1>4 DEF Good
  <2>2. v.kind = "disable" => crossed' \/ v.alone
        BY <1>2, <1>4 DEF Good
  <2>3. v.alone /\ v.kind = "activate" => route'[h] \in {v.slug, None}
        BY <1>1, <1>2, <1>4 DEF Good
  <2>4. v.alone /\ v.kind = "switch" => \A g \in Hosts : route'[g] \in {v.slug, None}
        BY <1>1, <1>2, <1>4 DEF Good
  <2>5. v.kind \in Activations /\ v.todo = <<Save(h)>> /\ rec'[h] # None
           => v.rec.status = rec'[h].status
    <3>. SUFFICES ASSUME v.kind \in Activations, v.todo = <<Save(h)>>, rec'[h] # None
                  PROVE  v.rec.status = rec'[h].status
         OBVIOUS
    <3>1. t \in {<<Route(h), Load(h), Save(h)>>, <<Load(h), Save(h)>>, <<Save(h)>>}
          BY <1>1, <1>2, <1>4 DEF Formed
    <3>2. Len(t) = 2
          BY <1>1, <1>4, Tails
    <3>3. t = <<Load(h), Save(h)>>
          BY <3>1, <3>2
    <3>4. w = Load(h)
          BY <1>2, <3>3
    <3>. QED BY <1>1, <1>4, <3>4
  <2>6. v.kind = "disable" /\ v.todo = <<Unroute(h)>> =>
           crossed' \/ Status(h)' # "active"
    <3>. SUFFICES ASSUME v.kind = "disable", v.todo = <<Unroute(h)>>
                  PROVE  Status(h)' # "active"
         OBVIOUS
    <3>1. t \in {<<Save(h), Unroute(h)>>, <<Unroute(h)>>}
          BY <1>1, <1>2, <1>4 DEF Formed
    <3>2. Len(t) = 2
          BY <1>1, <1>4, Tails
    <3>3. t = <<Save(h), Unroute(h)>>
          BY <3>1, <3>2
    <3>4. w = Save(h)
          BY <1>2, <3>3
    <3>5. \A g \in Hosts : op[o].kind = "disable" /\ w = Save(g) => Status(g)' # "active"
          OBVIOUS
    <3>. QED BY <1>1, <1>4, <3>4, <3>5
  <2>7. ASSUME NEW i \in 1 .. Len(v.todo), v.todo[i].do = "record"
        PROVE  \/ v.kind \notin Activations /\ v.rec.status # "active"
               \/ Routed(h)'
               \/ \E j \in 1 .. (i - 1) : v.todo[j] = Route(h)
    <3>1. Len(t) \in Nat /\ i + 1 \in 1 .. Len(t) /\ v.todo[i] = t[i + 1]
          BY <1>1, <1>4, <2>7, LenProperties
    <3>2. CASE op[o].kind \notin Activations /\ op[o].rec.status # "active"
      <4>1. w.do # "load"
        <5>1. 1 \in 1 .. Len(t)
              BY <3>1
        <5>. QED BY <1>1, <1>2, <3>2, <5>1 DEF Formed
      <4>. QED BY <1>4, <3>2, <4>1
    <3>3. CASE Routed(h)
      <4>1. CASE op[o].kind = "disable"
        <5>1. op[o].rec.status = "disabled" /\ op[o].kind \notin Activations
              BY <1>2, <4>1 DEF Formed, Activations
        <5>. QED BY <3>2, <5>1
      <4>2. CASE op[o].kind # "disable"
            BY <1>1, <3>3, <4>2
      <4>. QED BY <4>1, <4>2
    <3>4. ASSUME NEW j \in 1 .. i, t[j] = Route(h)
          PROVE  Routed(h)' \/ \E k \in 1 .. (i - 1) : v.todo[k] = Route(h)
      <4>1. CASE j = 1
            BY <1>1, <1>2, <3>4, <4>1
      <4>2. CASE j # 1
        <5>1. j - 1 \in 1 .. (i - 1) /\ j - 1 \in 1 .. Len(v.todo) /\ (j - 1) + 1 = j
              BY <3>1, <1>4, <4>2
        <5>2. v.todo[j - 1] = Route(h)
              BY <1>4, <3>4, <5>1
        <5>. QED BY <5>1, <5>2
      <4>. QED BY <4>1, <4>2
    <3>5. \/ op[o].kind \notin Activations /\ op[o].rec.status # "active"
          \/ Routed(h)
          \/ \E j \in 1 .. i : t[j] = Route(h)
      <4>1. (i + 1) - 1 = i
            OBVIOUS
      <4>. QED BY <1>1, <1>2, <2>7, <3>1, <4>1 DEF Good
    <3>. QED BY <3>2, <3>3, <3>4, <3>5
  <2>8. op'[o] = v /\ v.at = h /\ v.pc # "asking"
        BY <1>1, <1>4
  <2>. QED BY <2>1, <2>2, <2>3, <2>4, <2>5, <2>6, <2>7, <2>8 DEF Good
<1>. QED BY <1>0, <1>3, <1>4, RestTyped DEF IInv

\* What a write does to routes and records.
LEMMA StepFacts ==
    ASSUME IInv, NEW o \in Ops, Step(o)
    PROVE  \E w \in Write, r \in Record \cup {None} :
              /\ op[o] \in OpType /\ op[o].pc = "writing" /\ op[o] # Idle
              /\ w = Head(op[o].todo) /\ w = op[o].todo[1] /\ 1 \in 1 .. Len(op[o].todo)
              /\ op' = [op EXCEPT ![o] = Rest(o, r)]
              /\ r = op[o].rec \/ w.do = "load"
              /\ w.do = "load" /\ rec[w.at] # None => r.status = rec[w.at].status
              /\ \A h \in Hosts :
                    /\ route'[h] = IF h = w.at /\ w.do = "route" THEN op[o].slug
                                   ELSE IF h = w.at /\ w.do = "unroute" THEN None
                                   ELSE route[h]
                    /\ rec'[h] = IF h = w.at /\ w.do = "record" THEN op[o].rec ELSE rec[h]
              /\ UNCHANGED <<crossed, skipped>>
<1>1. PICK w : w = Head(op[o].todo)
      OBVIOUS
<1>2. op[o] \in OpType /\ Formed(op[o]) /\ op[o].pc = "writing" /\ op[o] # Idle
      BY Handlers DEF Handler, Step, IInv
<1>3. w \in Write /\ w = op[o].todo[1] /\ 1 \in 1 .. Len(op[o].todo)
  <2>1. Head(op[o].todo) \in Write /\ Head(op[o].todo) = op[o].todo[1]
        BY <1>2, RestTyped DEF OpType, IInv
  <2>2. op[o].todo # <<>> /\ op[o].todo \in Seq(Write)
        BY <1>2, Handlers DEF Handler, WellFormed, OpType, IInv
  <2>3. Len(op[o].todo) \in Nat \ {0}
        BY <2>2, EmptySeq
  <2>. QED BY <1>1, <2>1, <2>3
<1>4. PICK cf \in BOOLEAN :
         op' = [op EXCEPT ![o] = Rest(o, IF w.do = "load" THEN Upserted(o, w.at, cf)
                                                          ELSE op[o].rec)]
      BY <1>1 DEF Step
<1>5. /\ Upserted(o, w.at, cf) \in Record
      /\ rec[w.at] # None => Upserted(o, w.at, cf).status = rec[w.at].status
  <2>1. NewRecord(op[o].slug, "active") \in Record
        BY <1>2 DEF NewRecord, Record, TenantStatus, OpType
  <2>2. \A r \in Record : /\ [r EXCEPT !.cf = r.cf \/ cf] \in Record
                          /\ [r EXCEPT !.cf = r.cf \/ cf].status = r.status
        BY DEF Record
  <2>3. rec[w.at] \in Record \cup {None}
        BY <1>3, Typed DEF Write, IInv
  <2>. QED BY <2>1, <2>2, <2>3 DEF Upserted
<1>6. PICK r : r = IF w.do = "load" THEN Upserted(o, w.at, cf) ELSE op[o].rec
      OBVIOUS
<1>7. /\ r \in Record \cup {None} /\ (r = op[o].rec \/ w.do = "load")
      /\ op' = [op EXCEPT ![o] = Rest(o, r)]
      /\ w.do = "load" /\ rec[w.at] # None => r.status = rec[w.at].status
      BY <1>2, <1>4, <1>5, <1>6 DEF OpType
<1>8. \A h \in Hosts :
         /\ route'[h] = IF h = w.at /\ w.do = "route" THEN op[o].slug
                        ELSE IF h = w.at /\ w.do = "unroute" THEN None ELSE route[h]
         /\ rec'[h] = IF h = w.at /\ w.do = "record" THEN op[o].rec ELSE rec[h]
      BY <1>1, Typed DEF Step, IInv
<1>9. UNCHANGED <<crossed, skipped>>
      BY DEF Step
<1>. QED BY <1>1, <1>2, <1>3, <1>7, <1>8, <1>9

LEMMA StepGood ==
    ASSUME IInv, NEW o \in Ops, Step(o)
    PROVE  AllGood' /\ ActiveIsRouted'
<1>1. PICK w \in Write, r \in Record \cup {None} :
              /\ op[o] \in OpType /\ op[o].pc = "writing" /\ op[o] # Idle
              /\ w = Head(op[o].todo) /\ w = op[o].todo[1] /\ 1 \in 1 .. Len(op[o].todo)
              /\ op' = [op EXCEPT ![o] = Rest(o, r)]
              /\ r = op[o].rec \/ w.do = "load"
              /\ w.do = "load" /\ rec[w.at] # None => r.status = rec[w.at].status
              /\ \A h \in Hosts :
                    /\ route'[h] = IF h = w.at /\ w.do = "route" THEN op[o].slug
                                   ELSE IF h = w.at /\ w.do = "unroute" THEN None
                                   ELSE route[h]
                    /\ rec'[h] = IF h = w.at /\ w.do = "record" THEN op[o].rec ELSE rec[h]
              /\ UNCHANGED <<crossed, skipped>>
      BY StepFacts
<1>2. Formed(op[o]) /\ Good(o) /\ op[o].slug \in Slugs /\ op[o].slug # None
      /\ op[o].at \in Hosts
      BY <1>1, Handlers, HostnameAssumption DEF IInv, AllGood, Handler, OpType
<1>3. /\ w.do = "unroute" => op[o].kind = "disable"
      /\ w.do = "record" => w.at = op[o].at
      BY <1>1, <1>2 DEF Formed
<1>4. \A h \in Hosts : Routed(h) => Routed(h)' \/ (w.do = "unroute" /\ h = w.at)
      BY <1>1, <1>2 DEF Routed
<1>5. \A h \in Hosts : Routed(h) => Routed(h)' \/ op[o].kind = "disable"
      BY <1>3, <1>4
<1>6. \A h \in Hosts : w = Route(h) => Routed(h)'
      BY <1>1, <1>2 DEF Routed, Route
<1>7. \A h \in Hosts : route'[h] \in {route[h], op[o].slug, None}
      BY <1>1
<1>8. \A h \in Hosts : op[o].kind \in Activations /\ w = Load(h) /\ rec'[h] # None
                          => r.status = rec'[h].status
      BY <1>1 DEF Load
<1>9. \A h \in Hosts : op[o].kind = "disable" /\ w = Save(h) => Status(h)' # "active"
  <2>. SUFFICES ASSUME NEW h \in Hosts, op[o].kind = "disable", w = Save(h)
                PROVE  Status(h)' # "active"
       OBVIOUS
  <2>1. rec'[h] = op[o].rec
        BY <1>1 DEF Save
  <2>2. op[o].rec.status = "disabled"
        BY <1>1, <1>2 DEF Formed
  <2>. QED BY <2>1, <2>2 DEF Status
<1>10. Good(o)'
       BY <1>1, <1>5, <1>6, <1>7, <1>8, <1>9, RestGood
<1>11. \A p \in Ops \ {o} : Good(p)'
  <2>1. \A p \in Ops \ {o} : op'[p] = op[p]
        BY <1>1, Typed DEF IInv
  <2>. QED BY <1>1, <1>5, <2>1, Elsewhere
<1>12. ASSUME NEW h \in Hosts, Status(h)' = "active" PROVE Routed(h)'
  <2>1. CASE h = w.at /\ w.do = "record"
    <3>1. op[o].rec.status = "active" /\ h = op[o].at
          BY <1>1, <1>3, <1>12, <2>1 DEF Status
    <3>2. Routed(h)
      <4>1. \/ op[o].kind \notin Activations /\ op[o].rec.status # "active"
            \/ Routed(op[o].at)
            \/ \E j \in 1 .. (1 - 1) : op[o].todo[j] = Route(op[o].at)
            BY <1>1, <1>2, <2>1 DEF Good
      <4>. QED BY <3>1, <4>1
    <3>. QED BY <1>4, <2>1, <3>2
  <2>2. CASE ~ (h = w.at /\ w.do = "record")
    <3>1. Status(h) = "active"
          BY <1>1, <1>12, <2>2 DEF Status
    <3>2. Routed(h)
          BY <3>1, ActiveRouted DEF IInv
    <3>3. CASE w.do = "unroute" /\ h = w.at
      <4>1. op[o].todo \in {<<Save(op[o].at), Unroute(op[o].at)>>, <<Unroute(op[o].at)>>}
            BY <1>1, <1>2, <1>3, <3>3 DEF Formed
      <4>2. op[o].todo = <<Unroute(op[o].at)>>
            BY <1>1, <3>3, <4>1 DEF Save
      <4>3. h = op[o].at
            BY <1>1, <3>3, <4>2 DEF Unroute
      <4>4. crossed
            BY <1>1, <1>2, <1>3, <3>1, <3>3, <4>2, <4>3 DEF Good
      <4>. QED BY <1>1, <4>4 DEF Routed
    <3>. QED BY <1>4, <3>2, <3>3
  <2>. QED BY <2>1, <2>2
<1>13. ActiveIsRouted'
       BY <1>12 DEF ActiveIsRouted, Routed
<1>. QED BY <1>10, <1>11, <1>13 DEF AllGood

LEMMA ThrowsGood ==
    ASSUME IInv, NEW o \in Ops, Throws(o)
    PROVE  AllGood' /\ ActiveIsRouted'
<1>1. /\ op[o] \in OpType /\ op[o].pc = "writing" /\ op[o] # Idle
      /\ UNCHANGED <<route, rec, crossed>>
      BY Handlers DEF Throws, IInv
<1>2. CASE End(o) /\ UNCHANGED skipped
      BY <1>1, <1>2, EndGood
<1>3. ASSUME op[o].kind = "backfill" \/ Head(op[o].todo).do = "d1",
             op' = [op EXCEPT ![o] = Rest(o, op[o].rec)],
             skipped' = IF Head(op[o].todo).do = "route"
                        THEN skipped \cup {Head(op[o].todo).at} ELSE skipped
      PROVE  AllGood' /\ ActiveIsRouted'
  <2>1. PICK w : w = Head(op[o].todo)
        OBVIOUS
  <2>2. skipped \subseteq skipped' /\ (w.do = "route" => w.at \in skipped')
        BY <1>3, <2>1
  <2>3. \A h \in Hosts : (Routed(h) => Routed(h)') /\ (w = Route(h) => Routed(h)')
        BY <1>1, <2>2 DEF Routed, Route
  <2>4. /\ \A h \in Hosts : op[o].kind \in Activations => w # Load(h)
        /\ \A h \in Hosts : op[o].kind = "disable" => w # Save(h)
        BY <1>3, <2>1 DEF Activations, Load, Save
  <2>5. op[o].rec \in Record \cup {None}
        BY <1>1 DEF OpType
  <2>6. Good(o)'
        BY <1>1, <1>3, <2>1, <2>3, <2>4, <2>5, RestGood
  <2>. QED BY <1>1, <1>3, <2>2, <2>6, Onward
<1>. QED BY <1>2, <1>3 DEF Throws

LEMMA Invariance == Spec => []IInv
<1>1. Init => AllGood /\ ActiveIsRouted
  <2>. SUFFICES ASSUME Init PROVE AllGood /\ ActiveIsRouted
       OBVIOUS
  <2>1. \A o \in Ops : op[o] = Idle
        BY DEF Init
  <2>2. \A h \in Hosts : Status(h) = "none"
        BY DEF Init, Status
  <2>. QED BY <2>1, <2>2 DEF AllGood, Good, ActiveIsRouted
<1>2. IInv /\ [Next]_vars => AllGood' /\ ActiveIsRouted'
  <2>. SUFFICES ASSUME IInv, [Next]_vars PROVE AllGood' /\ ActiveIsRouted'
       OBVIOUS
  <2>1. CASE UNCHANGED vars
        BY <2>1 DEF vars, IInv, AllGood, Good, ActiveIsRouted, Routed, Status
  <2>2. ASSUME NEW o \in Ops, Start(o) PROVE AllGood' /\ ActiveIsRouted'
    <3>1. PICK kind, h, s, r, pc, todo : Starts(o, kind, h, s, r, pc, todo)
          BY <2>2, Starting DEF IInv
    <3>. QED BY <3>1, BeginGood
  <2>. QED BY <2>1, <2>2, NextCases, AnswersGood, StepGood, ThrowsGood
<1>. QED BY <1>1, <1>2, HostnameTypeCorrect, PTL DEF Spec, IInv

\* A record says active only once its host is routed.
THEOREM HostnameActiveIsRouted == Spec => []ActiveIsRouted
BY Invariance, PTL DEF IInv

\* Only a step of o moves o, unless it is the start of another handler.
LEMMA Mover ==
    ASSUME IInv, Next, NEW o \in Ops, op'[o] # op[o]
    PROVE  Step(o) \/ UNCHANGED <<route, rec>>
<1>1. ASSUME NEW q \in Ops, Start(q) PROVE UNCHANGED <<route, rec>>
  <2>1. PICK kind, h, s, r, pc, todo : Starts(q, kind, h, s, r, pc, todo)
        BY <1>1, Starting DEF IInv
  <2>. QED BY <2>1 DEF Starts, Begin
<1>2. ASSUME NEW q \in Ops, \/ Register(q) \/ StripeAnswers(q) \/ CfReports(q)
                            \/ ActivateDomain(q) \/ Throws(q)
      PROVE  UNCHANGED <<route, rec>>
      BY <1>2 DEF Register, StripeAnswers, CfReports, ActivateDomain, Throws, env
<1>3. ASSUME NEW q \in Ops, Step(q) PROVE q = o
  <2>1. PICK r : op' = [op EXCEPT ![q] = r]
        BY <1>3 DEF Step
  <2>. QED BY <2>1, Typed DEF IInv
<1>. QED BY <1>1, <1>2, <1>3, NextCases

\* A customer alone on its hosts redirects only hosts that nobody has.
THEOREM HostnameNoTakeover == Spec => NoTakeover
<1>1. IInv /\ [Next]_vars =>
         [\A o \in Ops, h \in Hosts :
             CustomerStep(o) /\ op[o].alone /\ route'[h] # route[h] => route[h] = None]_vars
  <2>. SUFFICES ASSUME IInv, Next, NEW o \in Ops, NEW h \in Hosts,
                       CustomerStep(o), op[o].alone, route'[h] # route[h]
                PROVE  route[h] = None
       OBVIOUS
  <2>1. Step(o)
        BY Mover DEF CustomerStep
  <2>2. PICK w \in Write : /\ op[o] \in OpType /\ op[o] # Idle /\ w = op[o].todo[1]
                           /\ 1 \in 1 .. Len(op[o].todo)
                           /\ h = w.at
                           /\ \/ w.do = "route" /\ route'[h] = op[o].slug
                              \/ w.do = "unroute"
        BY <2>1, StepFacts
  <2>3. Formed(op[o]) /\ Good(o)
        BY <2>2, Handlers DEF IInv, AllGood, Handler
  <2>4. w.do = "route" /\ route'[h] = op[o].slug
        BY <2>2, <2>3 DEF Formed, CustomerStep
  <2>5. CASE op[o].kind = "activate"
    <3>1. op[o].todo \in {<<Route(op[o].at), Load(op[o].at), Save(op[o].at)>>,
                          <<Load(op[o].at), Save(op[o].at)>>, <<Save(op[o].at)>>}
          BY <2>2, <2>3, <2>5 DEF Formed, CustomerStep, Activations
    <3>2. w \in {Route(op[o].at), Load(op[o].at), Save(op[o].at)}
          BY <2>2, <3>1
    <3>3. h = op[o].at
          BY <2>2, <3>2 DEF Route, Load, Save
    <3>. QED BY <2>2, <2>3, <2>4, <2>5, <3>3 DEF Good
  <2>6. CASE op[o].kind = "switch"
        BY <2>2, <2>3, <2>4, <2>6 DEF Good
  <2>. QED BY <2>5, <2>6 DEF CustomerStep
<1>. QED BY <1>1, Invariance, PTL DEF Spec, NoTakeover

\* Activating a host again keeps the status of its record (upsertTenantData), though
\* it puts back the route that a disable had taken away.
THEOREM HostnameStatusKept == Spec => StatusKept
<1>1. IInv /\ [Next]_vars =>
         [\A o \in Ops, h \in Hosts :
             /\ op[o].kind \in {"activate", "admin"} /\ op[o].alone
             /\ op'[o] # op[o] /\ rec[h] # None /\ rec'[h] # rec[h]
             => rec'[h].status = rec[h].status]_vars
  <2>. SUFFICES ASSUME IInv, Next, NEW o \in Ops, NEW h \in Hosts,
                       op[o].kind \in {"activate", "admin"}, op[o].alone,
                       op'[o] # op[o], rec[h] # None, rec'[h] # rec[h]
                PROVE  rec'[h].status = rec[h].status
       OBVIOUS
  <2>1. Step(o)
        BY Mover
  <2>2. PICK w \in Write : /\ op[o] \in OpType /\ op[o] # Idle /\ op[o].pc = "writing"
                           /\ w = op[o].todo[1] /\ h = w.at /\ w.do = "record"
                           /\ rec'[h] = op[o].rec
        BY <2>1, StepFacts
  <2>3. Formed(op[o]) /\ Good(o)
        BY <2>2, Handlers DEF IInv, AllGood, Handler
  <2>4. op[o].todo \in {<<Route(op[o].at), Load(op[o].at), Save(op[o].at)>>,
                        <<Load(op[o].at), Save(op[o].at)>>, <<Save(op[o].at)>>}
        BY <2>2, <2>3 DEF Formed, Activations
  <2>5. op[o].todo = <<Save(op[o].at)>> /\ h = op[o].at
        BY <2>2, <2>4 DEF Route, Load, Save
  <2>. QED BY <2>2, <2>3, <2>5 DEF Good, Activations
<1>. QED BY <1>1, Invariance, PTL DEF Spec, StatusKept
==============================================================================
