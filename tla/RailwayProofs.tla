---------------------------- MODULE RailwayProofs ----------------------------
(***************************************************************************)
(* TLAPS proofs about RailwaySync, for any tenants, calls, batch sizes and  *)
(* numbers of faults.                                                      *)
(***************************************************************************)
EXTENDS RailwaySync, SequenceTheorems, TLAPS

Row == [exists : BOOLEAN, paid : BOOLEAN, key : Nat, synced : BOOLEAN]

Ticks == [pc : TickSteps, todo : SUBSET Tenants,
          cur : Tenants \cup {NoTenant}, key : Nat]

LEMMA Typed ==
    TypeOK <=>
        /\ railway \in [Tenants -> Seq(Nat)] /\ issued \in Seq(Tenants)
        /\ d1 \in [Tenants -> Row] /\ pc \in [Calls -> Steps] /\ got \in [Calls -> Nat]
        /\ tick \in Ticks /\ (tick.cur = NoTenant => tick.pc \in {"idle", "next"})
        /\ faults \in 0 .. MaxFaults
BY DEF TypeOK, Row, Ticks

LEMMA TypedNext ==
    TypeOK' <=>
        /\ railway' \in [Tenants -> Seq(Nat)] /\ issued' \in Seq(Tenants)
        /\ d1' \in [Tenants -> Row] /\ pc' \in [Calls -> Steps] /\ got' \in [Calls -> Nat]
        /\ tick' \in Ticks /\ (tick'.cur = NoTenant => tick'.pc \in {"idle", "next"})
        /\ faults' \in 0 .. MaxFaults
BY DEF TypeOK, Row, Ticks

LEMMA Bounds ==
    /\ NoTenant \notin Tenants /\ MaxFaults \in Nat
    /\ \A c \in Calls : For[c] \in Tenants
    /\ \A c \in Deliveries \cup Retries : c \in Calls /\ c \notin Rotations
    /\ Rotations \subseteq Calls
    /\ \A t \in Tenants : Kv[t] \in Tenants
    /\ \A c \in Rotations : From[c] \in Tenants
BY SyncAssumption DEF Calls

\* The slug a call names is one, and one that its tenant's key may come from.
LEMMA Asked ==
    /\ \A c \in Calls : Asks(c) \in Tenants /\ Asks(c) \in Sources(For[c])
    /\ \A c \in Rotations : Asks(c) = From[c]
<1>1. ASSUME NEW c \in Deliveries PROVE Asks(c) = For[c]
      BY <1>1, SyncAssumption DEF Asks
<1>2. ASSUME NEW c \in Retries PROVE Asks(c) = Kv[For[c]]
      BY <1>2, SyncAssumption DEF Asks
<1>3. ASSUME NEW c \in Rotations PROVE Asks(c) = From[c]
      BY <1>3, SyncAssumption DEF Asks
<1>. QED BY <1>1, <1>2, <1>3, Bounds DEF Sources, Calls
-----------------------------------------------------------------------------
(* What the statements of the two databases do *)

\* Whatever a call to the backend does, keys issued before keep their tenants.
Issues(t) ==
    /\ railway' \in [Tenants -> Seq(Nat)]
    /\ issued' \in Seq(Tenants)
    /\ NewKey \in Nat \ {Pending}
    /\ NewKey \in Keys'
    /\ issued'[NewKey] = t
    /\ \A k \in Keys \ {Pending} : k \in Keys' /\ issued'[k] = issued[k]
    /\ \A u \in Tenants \ {t} : railway'[u] = railway[u]

LEMMA Minted ==
    ASSUME TypeOK, NEW t \in Tenants, issued' = Append(issued, t)
    PROVE  /\ issued' \in Seq(Tenants)
           /\ NewKey \in Nat \ {Pending} /\ NewKey \in Keys' /\ issued'[NewKey] = t
           /\ \A k \in Keys \ {Pending} : k \in Keys' /\ issued'[k] = issued[k]
<1>1. issued \in Seq(Tenants) /\ Len(issued) \in Nat
      BY DEF TypeOK
<1>2. issued' \in Seq(Tenants) /\ Len(issued') = Len(issued) + 1
      BY <1>1
<1>3. issued'[Len(issued) + 1] = t /\ \A k \in 1 .. Len(issued) : issued'[k] = issued[k]
      BY <1>1
<1>. QED BY <1>1, <1>2, <1>3 DEF Keys, NewKey, Pending

\* A registration adds a row with the new key and keeps the others.
LEMMA AddRowEffect ==
    ASSUME TypeOK, NEW t \in Tenants, AddRow(t)
    PROVE  /\ Issues(t)
           /\ NewKey \in Range(railway'[t])
           /\ \A u \in Tenants : Range(railway[u]) \subseteq Range(railway'[u])
<1>1. railway[t] \in Seq(Nat) /\ NewKey \in Nat /\ Len(railway[t]) \in Nat
      BY Minted DEF TypeOK, AddRow
<1>2. /\ railway'[t] = Append(railway[t], NewKey)
      /\ \A u \in Tenants \ {t} : railway'[u] = railway[u]
      BY DEF TypeOK, AddRow
<1>3. railway' \in [Tenants -> Seq(Nat)]
      BY <1>1 DEF TypeOK, AddRow
<1>4. /\ Len(railway'[t]) = Len(railway[t]) + 1
      /\ railway'[t][Len(railway[t]) + 1] = NewKey
      /\ \A i \in 1 .. Len(railway[t]) : railway'[t][i] = railway[t][i]
      BY <1>1, <1>2
<1>5. DOMAIN railway[t] = 1 .. Len(railway[t]) /\ DOMAIN railway'[t] = 1 .. Len(railway'[t])
      BY <1>1, <1>3, LenProperties
<1>6. Range(railway[t]) \subseteq Range(railway'[t]) /\ NewKey \in Range(railway'[t])
      BY <1>1, <1>4, <1>5 DEF Range
<1>. QED BY <1>2, <1>3, <1>6, Minted DEF Issues, AddRow

\* A rotation replaces a key of one tenant.
LEMMA ReplaceEffect ==
    ASSUME TypeOK, NEW t \in Tenants, NEW i \in DOMAIN railway[t], ReplaceKey(t, i)
    PROVE  Issues(t)
<1>1. railway[t] \in Seq(Nat) /\ NewKey \in Nat
      BY Minted DEF TypeOK, ReplaceKey
<1>2. i \in 1 .. Len(railway[t])
      BY <1>1, LenProperties
<1>3. [railway[t] EXCEPT ![i] = NewKey] \in Seq(Nat)
      BY <1>1, <1>2, ExceptSeq
<1>4. railway' = [railway EXCEPT ![t] = [railway[t] EXCEPT ![i] = NewKey]]
      BY DEF ReplaceKey
<1>5. railway' \in [Tenants -> Seq(Nat)]
      BY <1>3, <1>4 DEF TypeOK
<1>6. \A u \in Tenants \ {t} : railway'[u] = railway[u]
      BY <1>4 DEF TypeOK
<1>. QED BY <1>5, <1>6, Minted DEF Issues, ReplaceKey

LEMMA StoreKeyEffect ==
    ASSUME TypeOK, NEW t \in Tenants, NEW k \in Nat, StoreKey(t, k)
    PROVE  /\ d1' \in [Tenants -> Row]
           /\ \A u \in Tenants \ {t} : d1'[u] = d1[u]
           /\ \/ ~ d1[t].exists /\ d1'[t] = d1[t]
              \/ d1'[t].key = k
           /\ d1'[t].synced = d1[t].synced
           /\ d1'[t].exists = d1[t].exists
<1>1. d1 \in [Tenants -> Row] /\ [d1[t] EXCEPT !.key = k] \in Row
      BY Typed DEF Row
<1>2. d1' = IF d1[t].exists THEN [d1 EXCEPT ![t] = [d1[t] EXCEPT !.key = k]] ELSE d1
      BY DEF StoreKey, Update
<1>. QED BY <1>1, <1>2 DEF Row

LEMMA StoreMarkerEffect ==
    ASSUME TypeOK, NEW t \in Tenants, StoreMarker(t)
    PROVE  /\ d1' \in [Tenants -> Row]
           /\ \A u \in Tenants \ {t} : d1'[u] = d1[u]
           /\ d1'[t].key = d1[t].key
           /\ d1'[t].exists = d1[t].exists
           /\ d1'[t].synced => d1[t].synced \/ d1[t].exists
<1>1. d1 \in [Tenants -> Row] /\ [d1[t] EXCEPT !.synced = TRUE] \in Row
      BY Typed DEF Row
<1>2. d1' = IF d1[t].exists THEN [d1 EXCEPT ![t] = [d1[t] EXCEPT !.synced = TRUE]] ELSE d1
      BY DEF StoreMarker, Update
<1>. QED BY <1>1, <1>2 DEF Row

LEMMA PaidEffect ==
    ASSUME TypeOK, NEW t \in Tenants, Update(t, [d1[t] EXCEPT !.paid = TRUE])
    PROVE  /\ d1' \in [Tenants -> Row]
           /\ \A u \in Tenants : /\ d1'[u].key = d1[u].key
                                 /\ d1'[u].exists = d1[u].exists
                                 /\ d1'[u].synced = d1[u].synced
<1>1. d1 \in [Tenants -> Row] /\ [d1[t] EXCEPT !.paid = TRUE] \in Row
      BY Typed DEF Row
<1>. QED BY <1>1 DEF Row, Update

LEMMA GotoEffect ==
    ASSUME TypeOK, NEW c \in Calls, NEW s \in Steps, Goto(c, s)
    PROVE  /\ pc' \in [Calls -> Steps]
           /\ pc'[c] = s
           /\ \A e \in Calls \ {c} : pc'[e] = pc[e]
BY DEF TypeOK, Goto

LEMMA GotEffect ==
    ASSUME TypeOK, NEW c \in Calls, NEW k \in Nat, got' = [got EXCEPT ![c] = k]
    PROVE  /\ got' \in [Calls -> Nat]
           /\ got'[c] = k
           /\ \A e \in Calls \ {c} : got'[e] = got[e]
BY DEF TypeOK

LEMMA FaultTyped ==
    ASSUME TypeOK, Fault
    PROVE  faults' \in 0 .. MaxFaults
BY Bounds DEF TypeOK, Fault

LEMMA TickTyped ==
    ASSUME TypeOK, NEW s \in TickSteps, NEW t \in Tenants \cup {NoTenant}, NEW k \in Nat
    PROVE  Give(s, t) \in Ticks /\ Carry(s, k) \in Ticks
BY Typed DEF Give, Carry, Ticks, Pending
-----------------------------------------------------------------------------
(* Type correctness *)

\* Rows, keys, calls and the reconciler keep their types; the reconciler works
\* on a key only while it has a candidate at hand.
THEOREM RailwayTypeCorrect == Spec => []TypeOK
<1>1. Init => TypeOK
  <2>. SUFFICES ASSUME Init PROVE TypeOK
       OBVIOUS
  <2>1. railway \in [Tenants -> Seq(Nat)] /\ issued \in Seq(Tenants)
        BY DEF Init
  <2>2. d1 \in [Tenants -> Row]
    <3>1. /\ d1 = [t \in Tenants |-> d1[t]]
          /\ \A t \in Tenants : d1[t] \in [exists : BOOLEAN, paid : {FALSE},
                                          key : {Pending}, synced : {FALSE}]
          BY DEF Init
    <3>2. ASSUME NEW t \in Tenants PROVE d1[t] \in Row
      <4>1. PICK e \in BOOLEAN : d1[t] = [exists |-> e, paid |-> FALSE,
                                        key |-> Pending, synced |-> FALSE]
            BY <3>1
      <4>. QED BY <4>1 DEF Row, Pending
    <3>. QED BY <3>1, <3>2
  <2>3. pc \in [Calls -> Steps] /\ got \in [Calls -> Nat] /\ faults \in 0 .. MaxFaults
        BY Bounds DEF Init, Steps, Pending
  <2>4. tick \in Ticks /\ tick.pc = "idle"
        BY DEF Init, Ticks, TickSteps, Pending
  <2>. QED BY <2>1, <2>2, <2>3, <2>4, Typed
<1>2. TypeOK /\ [Next]_vars => TypeOK'
  <2>. SUFFICES ASSUME TypeOK, [Next]_vars PROVE TypeOK'
       OBVIOUS
  <2>. USE DEF Steps
  <2>1. CASE Scan
    <3>1. PICK batch \in SUBSET Tenants :
             tick' = [pc |-> "next", todo |-> batch, cur |-> NoTenant, key |-> Pending]
          BY <2>1 DEF Scan
    <3>2. tick' \in Ticks /\ tick'.pc = "next"
          BY <3>1 DEF Ticks, TickSteps, Pending
    <3>. QED BY <2>1, <3>2, Typed, TypedNext DEF Scan
  <2>2. CASE NextCandidate
    <3>1. tick' \in Ticks /\ (tick'.cur = NoTenant => tick'.pc = "idle")
      <4>1. CASE tick' = Give("idle", NoTenant)
            BY <4>1, TickTyped DEF Give, TickSteps
      <4>2. ASSUME NEW t \in tick.todo,
                   tick' = Give(IF t \in Profiled THEN "register" ELSE "next", t)
            PROVE  tick' \in Ticks /\ tick'.cur \in Tenants
        <5>1. t \in Tenants
              BY Typed DEF Ticks
        <5>. QED BY <4>2, <5>1, TickTyped DEF Give, TickSteps
      <4>. QED BY <2>2, <4>1, <4>2, Bounds DEF NextCandidate
    <3>. QED BY <2>2, <3>1, Typed, TypedNext DEF NextCandidate
  <2>3. CASE TickRegister
    <3>1. tick.cur \in Tenants
          BY <2>3, Typed DEF TickRegister, Ticks
    <3>1a. Kv[tick.cur] \in Tenants
          BY <3>1, Bounds
    <3>2. railway' \in [Tenants -> Seq(Nat)] /\ issued' \in Seq(Tenants)
          BY <2>3, <3>1a, AddRowEffect, Typed DEF TickRegister, Issues, NoCall
    <3>3. tick' \in Ticks /\ (tick'.cur = NoTenant => tick'.pc = "next")
      <4>1. CASE AddRow(Kv[tick.cur]) /\ tick' = Carry("writeKey", NewKey)
        <5>1. NewKey \in Nat
              BY <4>1, <3>1a, AddRowEffect DEF Issues
        <5>. QED BY <4>1, <5>1, <3>1, TickTyped, Bounds DEF Carry, TickSteps
      <4>2. CASE tick' = Give("next", NoTenant)
            BY <4>2, TickTyped DEF Give, TickSteps
      <4>. QED BY <2>3, <4>1, <4>2 DEF TickRegister
    <3>4. faults' \in 0 .. MaxFaults
          BY <2>3, FaultTyped, Typed DEF TickRegister
    <3>. QED BY <2>3, <3>2, <3>3, <3>4, Typed, TypedNext DEF TickRegister
  <2>4. CASE TickWriteKey
    <3>1. tick.cur \in Tenants /\ tick.key \in Nat
          BY <2>4, Typed DEF TickWriteKey, Ticks
    <3>2. d1' \in [Tenants -> Row]
          BY <2>4, <3>1, StoreKeyEffect, Typed DEF TickWriteKey
    <3>3. tick' \in Ticks /\ (tick'.cur = NoTenant => tick'.pc = "next")
      <4>1. CASE tick' = Carry("writeMarker", tick.key)
            BY <4>1, <3>1, TickTyped, Bounds DEF Carry, TickSteps
      <4>2. CASE tick' = Give("next", NoTenant)
            BY <4>2, TickTyped DEF Give, TickSteps
      <4>. QED BY <2>4, <4>1, <4>2 DEF TickWriteKey
    <3>4. faults' \in 0 .. MaxFaults
          BY <2>4, FaultTyped, Typed DEF TickWriteKey
    <3>. QED BY <2>4, <3>2, <3>3, <3>4, Typed, TypedNext DEF TickWriteKey
  <2>5. CASE TickWriteMarker
    <3>1. tick.cur \in Tenants
          BY <2>5, Typed DEF TickWriteMarker, Ticks
    <3>2. d1' \in [Tenants -> Row]
          BY <2>5, <3>1, StoreMarkerEffect, Typed DEF TickWriteMarker
    <3>3. tick' \in Ticks /\ tick'.pc = "next"
          BY <2>5, TickTyped DEF TickWriteMarker, Give, TickSteps
    <3>4. faults' \in 0 .. MaxFaults
          BY <2>5, FaultTyped, Typed DEF TickWriteMarker
    <3>. QED BY <2>5, <3>2, <3>3, <3>4, Typed, TypedNext DEF TickWriteMarker
  <2>6. ASSUME NEW c \in Calls, StampPaid(c) PROVE TypeOK'
    <3>1. d1' \in [Tenants -> Row]
          BY <2>6, PaidEffect, Bounds, Typed DEF StampPaid
    <3>2. pc' \in [Calls -> Steps]
          BY <2>6, GotoEffect DEF StampPaid
    <3>3. faults' \in 0 .. MaxFaults
          BY <2>6, FaultTyped, Typed DEF StampPaid
    <3>. QED BY <2>6, <3>1, <3>2, <3>3, Typed, TypedNext DEF StampPaid
  <2>7. ASSUME NEW c \in Calls, OperatorStart(c) PROVE TypeOK'
    <3>1. pc' \in [Calls -> Steps]
          BY <2>7, GotoEffect DEF OperatorStart
    <3>. QED BY <2>7, <3>1, Typed, TypedNext DEF OperatorStart
  <2>8. ASSUME NEW c \in Calls, Register(c) PROVE TypeOK'
    <3>1. railway' \in [Tenants -> Seq(Nat)] /\ issued' \in Seq(Tenants)
          BY <2>8, AddRowEffect, Asked, Typed DEF Register, Issues, NoCall
    <3>2. pc' \in [Calls -> Steps]
          BY <2>8, GotoEffect DEF Register
    <3>3. got' \in [Calls -> Nat]
          BY <2>8, AddRowEffect, GotEffect, Asked, Typed DEF Register, Issues
    <3>4. faults' \in 0 .. MaxFaults
          BY <2>8, FaultTyped, Typed DEF Register
    <3>. QED BY <2>8, <3>1, <3>2, <3>3, <3>4, Typed, TypedNext DEF Register
  <2>9. ASSUME NEW c \in Calls, Rotate(c) PROVE TypeOK'
    <3>1. railway' \in [Tenants -> Seq(Nat)] /\ issued' \in Seq(Tenants)
          BY <2>9, ReplaceEffect, Asked, Typed DEF Rotate, Issues, NoCall
    <3>2. pc' \in [Calls -> Steps]
          BY <2>9, GotoEffect DEF Rotate
    <3>3. got' \in [Calls -> Nat]
          BY <2>9, ReplaceEffect, GotEffect, Asked, Typed DEF Rotate, Issues
    <3>4. faults' \in 0 .. MaxFaults
          BY <2>9, FaultTyped, Typed DEF Rotate
    <3>. QED BY <2>9, <3>1, <3>2, <3>3, <3>4, Typed, TypedNext DEF Rotate
  <2>10. ASSUME NEW c \in Calls, WriteKey(c) PROVE TypeOK'
    <3>1. d1' \in [Tenants -> Row]
          BY <2>10, StoreKeyEffect, Bounds, Typed DEF WriteKey
    <3>2. pc' \in [Calls -> Steps]
          BY <2>10, GotoEffect DEF WriteKey
    <3>3. faults' \in 0 .. MaxFaults
          BY <2>10, FaultTyped, Typed DEF WriteKey
    <3>. QED BY <2>10, <3>1, <3>2, <3>3, Typed, TypedNext DEF WriteKey
  <2>11. ASSUME NEW c \in Calls, WriteMarker(c) PROVE TypeOK'
    <3>1. d1' \in [Tenants -> Row]
          BY <2>11, StoreMarkerEffect, Bounds, Typed DEF WriteMarker
    <3>2. pc' \in [Calls -> Steps]
          BY <2>11, GotoEffect DEF WriteMarker
    <3>3. faults' \in 0 .. MaxFaults
          BY <2>11, FaultTyped, Typed DEF WriteMarker
    <3>. QED BY <2>11, <3>1, <3>2, <3>3, Typed, TypedNext DEF WriteMarker
  <2>12. CASE UNCHANGED vars
         BY <2>12, Typed, TypedNext DEF vars
  <2>. QED BY <2>1, <2>2, <2>3, <2>4, <2>5, <2>6, <2>7, <2>8, <2>9, <2>10, <2>11, <2>12
           DEF Next, Tick, Step
<1>. QED BY <1>1, <1>2, PTL DEF Spec
-----------------------------------------------------------------------------
(* Own key *)

\* Key k was minted for a slug of S, in the list of issued keys s.
MintedFor(S, k, s) == k = Pending \/ (k \in 0 .. Len(s) /\ s[k] \in S)

LEMMA OwnKeyForm ==
    OwnKey <=>
        /\ \A t \in Tenants : MintedFor(Sources(t), d1[t].key, issued)
        /\ \A c \in Calls : MintedFor({Asks(c)}, got[c], issued)
        /\ tick.pc \in {"writeKey", "writeMarker"} =>
              MintedFor({Kv[tick.cur]}, tick.key, issued)
BY DEF OwnKey, MintedFor, Keys

LEMMA OwnKeyFormNext ==
    OwnKey' <=>
        /\ \A t \in Tenants : MintedFor(Sources(t), d1'[t].key, issued')
        /\ \A c \in Calls : MintedFor({Asks(c)}, got'[c], issued')
        /\ tick'.pc \in {"writeKey", "writeMarker"} =>
              MintedFor({Kv[tick'.cur]}, tick'.key, issued')
BY DEF OwnKey, MintedFor, Keys

\* Keys stay with the tenant they were minted for, and a new one is the caller's.
LEMMA MintedKept ==
    ASSUME NEW t, Issues(t)
    PROVE  /\ MintedFor({t}, NewKey, issued')
           /\ \A S, k : MintedFor(S, k, issued) => MintedFor(S, k, issued')
BY DEF Issues, MintedFor, Keys

\* A key for a slug is one for any set the slug is of.
LEMMA MintedWider ==
    ASSUME NEW S, NEW t \in S, NEW k, NEW s, MintedFor({t}, k, s)
    PROVE  MintedFor(S, k, s)
BY DEF MintedFor

\* No tenant ever receives a key that was minted for anybody but its own slug, the
\* slug found under its domain (registerBusinessOnRailway) or one that an operator
\* rotated into its row.
THEOREM RailwayOwnKey == Spec => []OwnKey
<1>1. Init => OwnKey
  <2>. SUFFICES ASSUME Init PROVE OwnKey
       OBVIOUS
  <2>1. \A t \in Tenants : d1[t].key = Pending
        BY DEF Init
  <2>2. \A c \in Calls : got[c] = Pending
        BY DEF Init
  <2>3. tick.pc = "idle"
        BY DEF Init
  <2>. QED BY <2>1, <2>2, <2>3, OwnKeyForm DEF MintedFor
<1>2. TypeOK /\ OwnKey /\ [Next]_vars => OwnKey'
  <2>. SUFFICES ASSUME TypeOK, OwnKey, [Next]_vars PROVE OwnKey'
       OBVIOUS
  <2>0. /\ \A t \in Tenants : MintedFor(Sources(t), d1[t].key, issued)
        /\ \A c \in Calls : MintedFor({Asks(c)}, got[c], issued)
        /\ tick.pc \in {"writeKey", "writeMarker"} =>
              MintedFor({Kv[tick.cur]}, tick.key, issued)
        BY OwnKeyForm
  <2>1. CASE Scan
        BY <2>0, <2>1, OwnKeyFormNext DEF Scan
  <2>2. CASE NextCandidate
    <3>1. tick'.pc \in {"idle", "next", "register"}
          BY <2>2 DEF NextCandidate, Give
    <3>. QED BY <2>0, <2>2, <3>1, OwnKeyFormNext DEF NextCandidate
  <2>3. CASE TickRegister
    <3>1. tick.cur \in Tenants /\ Kv[tick.cur] \in Tenants
          BY <2>3, Typed, Bounds DEF TickRegister, Ticks
    <3>2. CASE AddRow(Kv[tick.cur]) /\ tick' = Carry("writeKey", NewKey)
      <4>1. Issues(Kv[tick.cur])
            BY <3>1, <3>2, AddRowEffect
      <4>2. tick'.cur = tick.cur /\ tick'.key = NewKey
            BY <3>2 DEF Carry
      <4>. QED BY <2>0, <2>3, <4>1, <4>2, MintedKept, OwnKeyFormNext DEF TickRegister
    <3>3. CASE (AddRow(Kv[tick.cur]) \/ NoCall) /\ tick' = Give("next", NoTenant)
      <4>1. \A S, k : MintedFor(S, k, issued) => MintedFor(S, k, issued')
            BY <3>1, <3>3, AddRowEffect, MintedKept DEF NoCall
      <4>2. tick'.pc = "next"
            BY <3>3 DEF Give
      <4>. QED BY <2>0, <2>3, <4>1, <4>2, OwnKeyFormNext DEF TickRegister
    <3>. QED BY <2>3, <3>2, <3>3 DEF TickRegister
  <2>4. CASE TickWriteKey
    <3>1. tick.cur \in Tenants /\ tick.key \in Nat
          BY <2>4, Typed DEF TickWriteKey, Ticks
    <3>2. CASE StoreKey(tick.cur, tick.key) /\ tick' = Carry("writeMarker", tick.key)
      <4>1. \A t \in Tenants : d1'[t].key = d1[t].key \/ (t = tick.cur /\ d1'[t].key = tick.key)
            BY <3>1, <3>2, StoreKeyEffect
      <4>2. tick'.cur = tick.cur /\ tick'.key = tick.key
            BY <3>2 DEF Carry
      <4>3. MintedFor(Sources(tick.cur), tick.key, issued)
            BY <2>0, <2>4, MintedWider DEF Sources, TickWriteKey
      <4>. QED BY <2>0, <2>4, <4>1, <4>2, <4>3, OwnKeyFormNext DEF TickWriteKey
    <3>3. CASE UNCHANGED d1 /\ tick' = Give("next", NoTenant)
          BY <2>0, <2>4, <3>3, OwnKeyFormNext DEF TickWriteKey, Give
    <3>. QED BY <2>4, <3>2, <3>3 DEF TickWriteKey
  <2>5. CASE TickWriteMarker
    <3>1. tick.cur \in Tenants /\ tick'.pc = "next"
          BY <2>5, Typed DEF TickWriteMarker, Ticks, Give
    <3>2. \A t \in Tenants : d1'[t].key = d1[t].key
          BY <2>5, <3>1, StoreMarkerEffect DEF TickWriteMarker
    <3>. QED BY <2>0, <2>5, <3>1, <3>2, OwnKeyFormNext DEF TickWriteMarker
  <2>6. ASSUME NEW c \in Calls, StampPaid(c) PROVE OwnKey'
    <3>1. \A t \in Tenants : d1'[t].key = d1[t].key
          BY <2>6, PaidEffect, Bounds DEF StampPaid
    <3>. QED BY <2>0, <2>6, <3>1, OwnKeyFormNext DEF StampPaid
  <2>7. ASSUME NEW c \in Calls, OperatorStart(c) PROVE OwnKey'
        BY <2>0, <2>7, OwnKeyFormNext DEF OperatorStart
  <2>8. ASSUME NEW c \in Calls, Register(c) PROVE OwnKey'
    <3>1. \A S, k : MintedFor(S, k, issued) => MintedFor(S, k, issued')
          BY <2>8, Asked, AddRowEffect, MintedKept DEF Register, NoCall
    <3>2. CASE AddRow(Asks(c)) /\ got' = [got EXCEPT ![c] = NewKey]
      <4>1. Issues(Asks(c))
            BY <3>2, Asked, AddRowEffect
      <4>2. \A e \in Calls : got'[e] = got[e] \/ (e = c /\ got'[e] = NewKey)
            BY <3>2, <4>1, GotEffect DEF Issues
      <4>. QED BY <2>0, <2>8, <3>1, <4>1, <4>2, MintedKept, OwnKeyFormNext DEF Register
    <3>3. CASE UNCHANGED got
          BY <2>0, <2>8, <3>1, <3>3, OwnKeyFormNext DEF Register
    <3>. QED BY <2>8, <3>2, <3>3 DEF Register
  <2>9. ASSUME NEW c \in Calls, Rotate(c) PROVE OwnKey'
    <3>1. \A S, k : MintedFor(S, k, issued) => MintedFor(S, k, issued')
          BY <2>9, Asked, ReplaceEffect, MintedKept DEF Rotate, NoCall
    <3>2. ASSUME NEW i \in DOMAIN railway[Asks(c)], ReplaceKey(Asks(c), i),
                 got' = [got EXCEPT ![c] = NewKey]
          PROVE  OwnKey'
      <4>1. Issues(Asks(c))
            BY <3>2, Asked, ReplaceEffect
      <4>2. \A e \in Calls : got'[e] = got[e] \/ (e = c /\ got'[e] = NewKey)
            BY <3>2, <4>1, GotEffect DEF Issues
      <4>. QED BY <2>0, <2>9, <3>1, <4>1, <4>2, MintedKept, OwnKeyFormNext DEF Rotate
    <3>3. CASE UNCHANGED got
          BY <2>0, <2>9, <3>1, <3>3, OwnKeyFormNext DEF Rotate
    <3>. QED BY <2>9, <3>2, <3>3 DEF Rotate
  <2>10. ASSUME NEW c \in Calls, WriteKey(c) PROVE OwnKey'
    <3>1. \A t \in Tenants : d1'[t].key = d1[t].key \/ (t = For[c] /\ d1'[t].key = got[c])
          BY <2>10, StoreKeyEffect, Bounds, Typed DEF WriteKey
    <3>2. MintedFor(Sources(For[c]), got[c], issued)
          BY <2>0, Asked, MintedWider
    <3>. QED BY <2>0, <2>10, <3>1, <3>2, OwnKeyFormNext DEF WriteKey
  <2>11. ASSUME NEW c \in Calls, WriteMarker(c) PROVE OwnKey'
    <3>1. \A t \in Tenants : d1'[t].key = d1[t].key
          BY <2>11, StoreMarkerEffect, Bounds DEF WriteMarker
    <3>. QED BY <2>0, <2>11, <3>1, OwnKeyFormNext DEF WriteMarker
  <2>12. CASE UNCHANGED vars
         BY <2>0, <2>12, OwnKeyFormNext DEF vars
  <2>. QED BY <2>1, <2>2, <2>3, <2>4, <2>5, <2>6, <2>7, <2>8, <2>9, <2>10, <2>11, <2>12
           DEF Next, Tick, Step
<1>. QED BY <1>1, <1>2, RailwayTypeCorrect, PTL DEF Spec
-----------------------------------------------------------------------------
(* Marker after key *)

\* Whoever is past the registration holds a key; whoever is past storing it
\* left it in the row, if there is one, and no row ever loses its key.
KeyFirst ==
    /\ \A t \in Tenants : d1[t].synced => d1[t].key # Pending
    /\ \A c \in Calls : pc[c] \in {"writeKey", "writeMarker"} => got[c] # Pending
    /\ \A c \in Calls :
          pc[c] = "writeMarker" /\ d1[For[c]].exists => d1[For[c]].key # Pending
    /\ tick.pc = "writeKey" => tick.key # Pending
    /\ tick.pc = "writeMarker" /\ d1[tick.cur].exists => d1[tick.cur].key # Pending

\* What a step may do to the rows, as far as KeyFirst is concerned.
RowsKept ==
    \A t \in Tenants :
        /\ d1'[t].exists = d1[t].exists
        /\ d1[t].key # Pending => d1'[t].key # Pending
        /\ d1'[t].synced => d1[t].synced \/ d1'[t].key # Pending

\* The marker is only set on a row that has received a key.
THEOREM RailwaySyncedHasKey == Spec => []SyncedHasKey
<1>1. Init => KeyFirst
  <2>. SUFFICES ASSUME Init PROVE KeyFirst
       OBVIOUS
  <2>1. \A t \in Tenants : d1[t].synced = FALSE
        BY DEF Init
  <2>2. (\A c \in Calls : pc[c] = "idle") /\ tick.pc = "idle"
        BY DEF Init
  <2>. QED BY <2>1, <2>2 DEF KeyFirst
<1>2. TypeOK /\ KeyFirst /\ [Next]_vars => KeyFirst'
  <2>. SUFFICES ASSUME TypeOK, KeyFirst, [Next]_vars PROVE KeyFirst'
       OBVIOUS
  <2>1. CASE Scan
        BY <2>1 DEF Scan, KeyFirst
  <2>2. CASE NextCandidate
    <3>1. tick'.pc \in {"idle", "next", "register"}
          BY <2>2 DEF NextCandidate, Give
    <3>. QED BY <2>2, <3>1 DEF NextCandidate, KeyFirst
  <2>3. CASE TickRegister
    <3>1. Kv[tick.cur] \in Tenants
          BY <2>3, Typed, Bounds DEF TickRegister, Ticks
    <3>2. tick'.pc # "writeMarker" /\ (tick'.pc = "writeKey" => tick'.key # Pending)
          BY <2>3, <3>1, AddRowEffect DEF TickRegister, Carry, Give, Issues
    <3>. QED BY <2>3, <3>2 DEF TickRegister, KeyFirst
  <2>4. CASE TickWriteKey
    <3>1. tick.cur \in Tenants /\ tick.key \in Nat /\ tick.key # Pending
          BY <2>4, Typed DEF TickWriteKey, Ticks, KeyFirst
    <3>2. CASE StoreKey(tick.cur, tick.key) /\ tick' = Carry("writeMarker", tick.key)
      <4>1. RowsKept /\ (d1'[tick.cur].exists => d1'[tick.cur].key # Pending)
            BY <3>1, <3>2, StoreKeyEffect DEF RowsKept, KeyFirst
      <4>2. tick'.pc = "writeMarker" /\ tick'.cur = tick.cur
            BY <3>2 DEF Carry
      <4>. QED BY <2>4, <4>1, <4>2, Bounds DEF TickWriteKey, KeyFirst, RowsKept
    <3>3. CASE UNCHANGED d1 /\ tick' = Give("next", NoTenant)
      <4>1. tick'.pc = "next"
            BY <3>3 DEF Give
      <4>. QED BY <2>4, <3>3, <4>1 DEF TickWriteKey, KeyFirst
    <3>. QED BY <2>4, <3>2, <3>3 DEF TickWriteKey
  <2>5. CASE TickWriteMarker
    <3>1. tick.cur \in Tenants /\ tick'.pc = "next"
          BY <2>5, Typed DEF TickWriteMarker, Ticks, Give
    <3>2. RowsKept
          BY <2>5, <3>1, StoreMarkerEffect DEF TickWriteMarker, RowsKept, KeyFirst
    <3>. QED BY <2>5, <3>1, <3>2, Bounds DEF TickWriteMarker, KeyFirst, RowsKept
  <2>6. ASSUME NEW c \in Calls, StampPaid(c) PROVE KeyFirst'
    <3>1. RowsKept
          BY <2>6, PaidEffect, Bounds DEF StampPaid, RowsKept
    <3>2. /\ \A e \in Calls : pc'[e] = pc[e] \/ pc'[e] = "register"
          /\ UNCHANGED <<got, tick>>
          BY <2>6, GotoEffect DEF StampPaid, Steps
    <3>3. tick.pc = "writeMarker" => tick.cur \in Tenants
          BY Typed DEF Ticks
    <3>. QED BY <3>1, <3>2, <3>3, Bounds DEF KeyFirst, RowsKept
  <2>7. ASSUME NEW c \in Calls, OperatorStart(c) PROVE KeyFirst'
    <3>1. \A e \in Calls : pc'[e] = pc[e] \/ pc'[e] \in {"register", "closed"}
          BY <2>7, GotoEffect DEF OperatorStart, Steps
    <3>. QED BY <2>7, <3>1 DEF OperatorStart, KeyFirst
  <2>8. ASSUME NEW c \in Calls, Register(c) PROVE KeyFirst'
    <3>1. \A e \in Calls \ {c} : pc'[e] = pc[e] /\ got'[e] = got[e]
          BY <2>8, GotoEffect, GotEffect, AddRowEffect, Asked DEF Register, Steps, Issues
    <3>2. pc'[c] = "closed" \/ (pc'[c] = "writeKey" /\ got'[c] # Pending)
          BY <2>8, GotoEffect, GotEffect, AddRowEffect, Asked DEF Register, Steps, Issues
    <3>. QED BY <2>8, <3>1, <3>2 DEF Register, KeyFirst
  <2>9. ASSUME NEW c \in Calls, Rotate(c) PROVE KeyFirst'
    <3>1. \A e \in Calls \ {c} : pc'[e] = pc[e] /\ got'[e] = got[e]
          BY <2>9, GotoEffect, GotEffect, ReplaceEffect, Asked DEF Rotate, Steps, Issues
    <3>2. pc'[c] = "closed" \/ (pc'[c] = "writeKey" /\ got'[c] # Pending)
          BY <2>9, GotoEffect, GotEffect, ReplaceEffect, Asked DEF Rotate, Steps, Issues
    <3>. QED BY <2>9, <3>1, <3>2 DEF Rotate, KeyFirst
  <2>10. ASSUME NEW c \in Calls, WriteKey(c) PROVE KeyFirst'
    <3>1. For[c] \in Tenants /\ got[c] \in Nat /\ got[c] # Pending
          BY <2>10, Bounds, Typed DEF WriteKey, KeyFirst
    <3>2. \A e \in Calls \ {c} : pc'[e] = pc[e]
          BY <2>10, GotoEffect DEF WriteKey, Steps
    <3>3. RowsKept
          BY <2>10, <3>1, StoreKeyEffect DEF WriteKey, RowsKept, KeyFirst
    <3>4. pc'[c] = "closed" \/ (d1'[For[c]].exists => d1'[For[c]].key # Pending)
          BY <2>10, <3>1, StoreKeyEffect, GotoEffect DEF WriteKey, Steps
    <3>5. tick.pc = "writeMarker" => tick.cur \in Tenants
          BY Typed DEF Ticks
    <3>6. \A e \in Calls : For[e] \in Tenants
          BY Bounds
    <3>7. UNCHANGED <<got, tick>>
          BY <2>10 DEF WriteKey
    <3>. QED BY <3>1, <3>2, <3>3, <3>4, <3>5, <3>6, <3>7 DEF KeyFirst, RowsKept
  <2>11. ASSUME NEW c \in Calls, WriteMarker(c) PROVE KeyFirst'
    <3>1. For[c] \in Tenants /\ (d1[For[c]].exists => d1[For[c]].key # Pending)
          BY <2>11, Bounds DEF WriteMarker, KeyFirst
    <3>2. pc'[c] = "closed" /\ \A e \in Calls \ {c} : pc'[e] = pc[e]
          BY <2>11, GotoEffect DEF WriteMarker, Steps
    <3>3. RowsKept
          BY <2>11, <3>1, StoreMarkerEffect DEF WriteMarker, RowsKept, KeyFirst
    <3>4. tick.pc = "writeMarker" => tick.cur \in Tenants
          BY Typed DEF Ticks
    <3>5. \A e \in Calls : For[e] \in Tenants
          BY Bounds
    <3>6. UNCHANGED <<got, tick>>
          BY <2>11 DEF WriteMarker
    <3>. QED BY <3>1, <3>2, <3>3, <3>4, <3>5, <3>6 DEF KeyFirst, RowsKept
  <2>12. CASE UNCHANGED vars
         BY <2>12 DEF vars, KeyFirst
  <2>. QED BY <2>1, <2>2, <2>3, <2>4, <2>5, <2>6, <2>7, <2>8, <2>9, <2>10, <2>11, <2>12
           DEF Next, Tick, Step
<1>3. KeyFirst => SyncedHasKey
      BY DEF KeyFirst, SyncedHasKey
<1>. QED BY <1>1, <1>2, <1>3, RailwayTypeCorrect, PTL DEF Spec
-----------------------------------------------------------------------------
(* Dead keys *)

\* Key k was minted for slug u and opens one of its backend rows rw, unless, by the
\* steps p of the calls, somebody has started to rotate them.
Opens(u, k, rw, p, s) ==
    /\ MintedFor({u}, k, s)
    /\ \/ k = Pending
       \/ k \in Range(rw[u])
       \/ \E c \in Rotations : From[c] = u /\ p[c] # "idle"

\* Every key in D1, and every key on its way there, opens.
KeysOpen ==
    /\ \A t \in Tenants : \E u \in Tenants : Opens(u, d1[t].key, railway, pc, issued)
    /\ \A c \in Calls :
          pc[c] = "writeKey" => Opens(Asks(c), got[c], railway, pc, issued)
    /\ tick.pc = "writeKey" => Opens(Kv[tick.cur], tick.key, railway, pc, issued)

LEMMA KeysOpenNext ==
    KeysOpen' <=>
        /\ \A t \in Tenants : \E u \in Tenants : Opens(u, d1'[t].key, railway', pc', issued')
        /\ \A c \in Calls :
              pc'[c] = "writeKey" => Opens(Asks(c), got'[c], railway', pc', issued')
        /\ tick'.pc = "writeKey" =>
              Opens(Kv[tick'.cur], tick'.key, railway', pc', issued')
BY DEF KeysOpen, Opens, MintedFor

\* What was open stays open.
OpenKept ==
    \A u \in Tenants : \A k :
        Opens(u, k, railway, pc, issued) => Opens(u, k, railway', pc', issued')

\* A step that takes no row away, nor sends a call back to its start, keeps open
\* what was open; so does one that rotates.
LEMMA KeptByRows ==
    ASSUME \A u \in Tenants : Range(railway[u]) \subseteq Range(railway'[u]),
           \A S, k : MintedFor(S, k, issued) => MintedFor(S, k, issued'),
           \A c \in Calls : pc[c] # "idle" => pc'[c] # "idle"
    PROVE  OpenKept
BY Bounds DEF OpenKept, Opens

LEMMA KeptByRotation ==
    ASSUME NEW c \in Rotations, pc[c] # "idle",
           \A u \in Tenants \ {From[c]} : railway'[u] = railway[u],
           \A S, k : MintedFor(S, k, issued) => MintedFor(S, k, issued'),
           \A e \in Calls : pc[e] # "idle" => pc'[e] # "idle"
    PROVE  OpenKept
BY Bounds DEF OpenKept, Opens

\* As long as nobody rotates the keys of the slug it was minted for, a key in D1 opens
\* a backend row of that slug (register.ts, rotate-key), whoever it was stored for.
THEOREM RailwayDeadKeyOnlyByRotation == Spec => []DeadKeyOnlyByRotation
<1>1. Init => KeysOpen
  <2>. SUFFICES ASSUME Init PROVE KeysOpen
       OBVIOUS
  <2>1. \A t \in Tenants : d1[t].key = Pending
        BY DEF Init
  <2>2. (\A c \in Calls : pc[c] = "idle") /\ tick.pc = "idle"
        BY DEF Init
  <2>. QED BY <2>1, <2>2 DEF KeysOpen, Opens, MintedFor
<1>2. TypeOK /\ KeysOpen /\ [Next]_vars => KeysOpen'
  <2>. SUFFICES ASSUME TypeOK, KeysOpen, [Next]_vars PROVE KeysOpen'
       OBVIOUS
  <2>0. /\ \A c \in Calls : For[c] \in Tenants /\ Asks(c) \in Tenants
        /\ tick.pc = "writeKey" => tick.cur \in Tenants /\ Kv[tick.cur] \in Tenants
        BY Bounds, Asked, Typed DEF Ticks
  <2>1. CASE Scan
        BY <2>1 DEF Scan, KeysOpen
  <2>2. CASE NextCandidate
    <3>1. tick'.pc # "writeKey"
          BY <2>2 DEF NextCandidate, Give
    <3>. QED BY <2>2, <3>1 DEF NextCandidate, KeysOpen
  <2>3. CASE TickRegister
    <3>1. tick.cur \in Tenants /\ Kv[tick.cur] \in Tenants
          BY <2>3, Typed, Bounds DEF TickRegister, Ticks
    <3>2. \A S, k : MintedFor(S, k, issued) => MintedFor(S, k, issued')
          BY <2>3, <3>1, AddRowEffect, MintedKept DEF TickRegister, NoCall
    <3>3. \A u \in Tenants : Range(railway[u]) \subseteq Range(railway'[u])
          BY <2>3, <3>1, AddRowEffect DEF TickRegister, NoCall
    <3>4. OpenKept
          BY <2>3, <3>2, <3>3, KeptByRows DEF TickRegister
    <3>5. tick'.pc = "writeKey" =>
             /\ tick'.cur = tick.cur
             /\ tick'.key \in Range(railway'[Kv[tick.cur]])
             /\ MintedFor({Kv[tick.cur]}, tick'.key, issued')
          BY <2>3, <3>1, AddRowEffect, MintedKept DEF TickRegister, Carry, Give
    <3>6. tick'.pc = "writeKey" => Opens(Kv[tick'.cur], tick'.key, railway', pc', issued')
          BY <3>5 DEF Opens
    <3>7. UNCHANGED <<d1, pc, got>>
          BY <2>3 DEF TickRegister
    <3>. QED BY <2>0, <3>4, <3>6, <3>7, KeysOpenNext DEF KeysOpen, OpenKept
  <2>4. CASE TickWriteKey
    <3>1. tick.cur \in Tenants /\ tick.key \in Nat
          BY <2>4, Typed DEF TickWriteKey, Ticks
    <3>2. \A t \in Tenants : d1'[t].key = d1[t].key \/ (t = tick.cur /\ d1'[t].key = tick.key)
          BY <2>4, <3>1, StoreKeyEffect DEF TickWriteKey
    <3>3. tick'.pc # "writeKey"
          BY <2>4 DEF TickWriteKey, Carry, Give
    <3>4. tick.pc = "writeKey" /\ UNCHANGED <<railway, issued, pc, got>>
          BY <2>4 DEF TickWriteKey
    <3>. QED BY <2>0, <3>2, <3>3, <3>4, KeysOpenNext DEF KeysOpen
  <2>5. CASE TickWriteMarker
    <3>1. tick.cur \in Tenants /\ tick'.pc # "writeKey"
          BY <2>5, Typed DEF TickWriteMarker, Ticks, Give
    <3>2. \A t \in Tenants : d1'[t].key = d1[t].key
          BY <2>5, <3>1, StoreMarkerEffect DEF TickWriteMarker
    <3>3. UNCHANGED <<railway, issued, pc, got>>
          BY <2>5 DEF TickWriteMarker
    <3>. QED BY <3>1, <3>2, <3>3, KeysOpenNext DEF KeysOpen
  <2>6. ASSUME NEW c \in Calls, StampPaid(c) PROVE KeysOpen'
    <3>1. \A t \in Tenants : d1'[t].key = d1[t].key
          BY <2>6, PaidEffect, Bounds DEF StampPaid
    <3>2. pc'[c] = "register" /\ \A e \in Calls \ {c} : pc'[e] = pc[e]
          BY <2>6, GotoEffect DEF StampPaid, Steps
    <3>3. OpenKept
          BY <2>6, <3>2, KeptByRows DEF StampPaid
    <3>4. UNCHANGED <<got, tick>>
          BY <2>6 DEF StampPaid
    <3>. QED BY <2>0, <3>1, <3>2, <3>3, <3>4, KeysOpenNext DEF KeysOpen, OpenKept
  <2>7. ASSUME NEW c \in Calls, OperatorStart(c) PROVE KeysOpen'
    <3>1. pc'[c] \in {"register", "closed"} /\ \A e \in Calls \ {c} : pc'[e] = pc[e]
          BY <2>7, GotoEffect DEF OperatorStart, Steps
    <3>2. OpenKept
          BY <2>7, <3>1, KeptByRows DEF OperatorStart
    <3>3. UNCHANGED <<d1, got, tick>>
          BY <2>7 DEF OperatorStart
    <3>. QED BY <2>0, <3>1, <3>2, <3>3, KeysOpenNext DEF KeysOpen, OpenKept
  <2>8. ASSUME NEW c \in Calls, Register(c) PROVE KeysOpen'
    <3>1. \A e \in Calls \ {c} : pc'[e] = pc[e] /\ got'[e] = got[e]
          BY <2>8, GotoEffect, GotEffect, AddRowEffect, Asked DEF Register, Steps, Issues
    <3>2. pc'[c] = "closed" \/ /\ pc'[c] = "writeKey"
                               /\ got'[c] \in Range(railway'[Asks(c)])
                               /\ MintedFor({Asks(c)}, got'[c], issued')
      <4>1. CASE AddRow(Asks(c)) /\ got' = [got EXCEPT ![c] = NewKey]
        <5>1. Issues(Asks(c)) /\ NewKey \in Range(railway'[Asks(c)])
              BY <4>1, AddRowEffect, Asked
        <5>2. got'[c] = NewKey
              BY <4>1, <5>1, GotEffect DEF Issues
        <5>3. pc'[c] \in {"closed", "writeKey"}
              BY <2>8, GotoEffect DEF Register, Steps
        <5>. QED BY <5>1, <5>2, <5>3, MintedKept
      <4>2. CASE Goto(c, "closed")
            BY <4>2, GotoEffect DEF Steps
      <4>. QED BY <2>8, <4>1, <4>2 DEF Register
    <3>3. /\ \A u \in Tenants : Range(railway[u]) \subseteq Range(railway'[u])
          /\ \A S, k : MintedFor(S, k, issued) => MintedFor(S, k, issued')
          BY <2>8, AddRowEffect, Asked, MintedKept DEF Register, NoCall
    <3>4. \A e \in Calls : pc[e] # "idle" => pc'[e] # "idle"
          BY <3>1, <3>2
    <3>5. OpenKept
          BY <3>3, <3>4, KeptByRows
    <3>6. pc'[c] = "writeKey" => Opens(Asks(c), got'[c], railway', pc', issued')
          BY <3>2 DEF Opens
    <3>7. UNCHANGED <<d1, tick>>
          BY <2>8 DEF Register
    <3>. QED BY <2>0, <3>1, <3>5, <3>6, <3>7, KeysOpenNext DEF KeysOpen, OpenKept
  <2>9. ASSUME NEW c \in Calls, Rotate(c) PROVE KeysOpen'
    <3>1. \A e \in Calls \ {c} : pc'[e] = pc[e] /\ got'[e] = got[e]
          BY <2>9, GotoEffect, GotEffect, ReplaceEffect, Asked DEF Rotate, Steps, Issues
    <3>2. c \in Rotations /\ pc[c] # "idle" /\ pc'[c] \in {"writeKey", "closed"}
          BY <2>9, GotoEffect DEF Rotate, Steps
    <3>3. /\ \A u \in Tenants \ {From[c]} : railway'[u] = railway[u]
          /\ \A S, k : MintedFor(S, k, issued) => MintedFor(S, k, issued')
          BY <2>9, <3>2, ReplaceEffect, Asked, MintedKept DEF Rotate, NoCall, Issues
    <3>4. \A e \in Calls : pc[e] # "idle" => pc'[e] # "idle"
          BY <3>1, <3>2
    <3>5. OpenKept
          BY <3>2, <3>3, <3>4, KeptByRotation
    <3>6. pc'[c] = "writeKey" => MintedFor({Asks(c)}, got'[c], issued')
      <4>1. ASSUME NEW i \in DOMAIN railway[Asks(c)], ReplaceKey(Asks(c), i),
                   got' = [got EXCEPT ![c] = NewKey]
            PROVE  MintedFor({Asks(c)}, got'[c], issued')
        <5>1. Issues(Asks(c))
              BY <4>1, ReplaceEffect, Asked
        <5>2. got'[c] = NewKey
              BY <4>1, <5>1, GotEffect DEF Issues
        <5>. QED BY <5>1, <5>2, MintedKept
      <4>2. CASE Goto(c, "closed")
            BY <4>2, GotoEffect DEF Steps
      <4>. QED BY <2>9, <4>1, <4>2 DEF Rotate
    <3>7. pc'[c] = "writeKey" => Opens(Asks(c), got'[c], railway', pc', issued')
          BY <3>2, <3>6, Asked DEF Opens
    <3>8. UNCHANGED <<d1, tick>>
          BY <2>9 DEF Rotate
    <3>. QED BY <2>0, <3>1, <3>5, <3>7, <3>8, KeysOpenNext DEF KeysOpen, OpenKept
  <2>10. ASSUME NEW c \in Calls, WriteKey(c) PROVE KeysOpen'
    <3>1. \A t \in Tenants : d1'[t].key = d1[t].key \/ (t = For[c] /\ d1'[t].key = got[c])
          BY <2>10, StoreKeyEffect, Bounds, Typed DEF WriteKey
    <3>2. pc[c] = "writeKey" /\ pc'[c] \in {"writeMarker", "closed"}
          /\ \A e \in Calls \ {c} : pc'[e] = pc[e]
          BY <2>10, GotoEffect DEF WriteKey, Steps
    <3>3. OpenKept
          BY <2>10, <3>2, KeptByRows DEF WriteKey
    <3>4. UNCHANGED <<got, tick>>
          BY <2>10 DEF WriteKey
    <3>. QED BY <2>0, <3>1, <3>2, <3>3, <3>4, KeysOpenNext DEF KeysOpen, OpenKept
  <2>11. ASSUME NEW c \in Calls, WriteMarker(c) PROVE KeysOpen'
    <3>1. \A t \in Tenants : d1'[t].key = d1[t].key
          BY <2>11, StoreMarkerEffect, Bounds DEF WriteMarker
    <3>2. pc'[c] = "closed" /\ \A e \in Calls \ {c} : pc'[e] = pc[e]
          BY <2>11, GotoEffect DEF WriteMarker, Steps
    <3>3. OpenKept
          BY <2>11, <3>2, KeptByRows DEF WriteMarker
    <3>4. UNCHANGED <<got, tick>>
          BY <2>11 DEF WriteMarker
    <3>. QED BY <2>0, <3>1, <3>2, <3>3, <3>4, KeysOpenNext DEF KeysOpen, OpenKept
  <2>12. CASE UNCHANGED vars
         BY <2>12 DEF vars, KeysOpen
  <2>. QED BY <2>1, <2>2, <2>3, <2>4, <2>5, <2>6, <2>7, <2>8, <2>9, <2>10, <2>11, <2>12
           DEF Next, Tick, Step
<1>3. KeysOpen => DeadKeyOnlyByRotation
      BY DEF KeysOpen, Opens, MintedFor, DeadKeyOnlyByRotation
<1>. QED BY <1>1, <1>2, <1>3, RailwayTypeCorrect, PTL DEF Spec
=============================================================================
