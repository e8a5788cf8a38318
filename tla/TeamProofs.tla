----------------------------- MODULE TeamProofs -----------------------------
(***************************************************************************)
(* TLAPS proofs about Team and TeamHistory, for every set of users and      *)
(* calls.                                                                  *)
(***************************************************************************)
EXTENDS TeamHistory, FiniteSetTheorems, TLAPS

\* A handler that is under way has a target.
HasTarget ==
    \A c \in Calls : call[c].pc \notin {"start", "closed"} => Target(c) \in Users

\* Accepting calls, and only they, take the steps of the accept handler.
OwnSteps ==
    \A c \in Calls :
        IF c \in Accepts THEN call[c].pc \in {"start", "consume", "signIn", "closed"}
                         ELSE call[c].pc \notin {"consume", "signIn"}

\* The call that mints a session has set the password, and nobody after it.
WinnerSigns ==
    \A a \in Accepts :
        /\ call[a].pc = "signIn" => password[Target(a)] = a
        /\ a \in sessions => /\ call[a].pc = "closed"
                             /\ Target(a) \in Users
                             /\ password[Target(a)] = a

IInv == TypeOK /\ HasTarget /\ OwnSteps /\ WinnerSigns

\* The parts of the invariant that speak of calls and passwords survive a step
\* that moves one call c along, keeps its target and touches no password.
LEMMA MoveKeeps ==
    ASSUME IInv, NEW c \in Calls, NEW step \in Steps \ {"consume", "signIn"},
           call[c].pc \notin {"start", "closed"},
           c \in Accepts => step = "closed",
           call' = [call EXCEPT ![c].pc = step],
           UNCHANGED password, sessions' \subseteq sessions
    PROVE  /\ call' \in [Calls -> [pc : Steps, caller : Users \cup {Admin, Nobody},
                           target : Users \cup {Nobody}, grant : Roles,
                           isNew : BOOLEAN]]
           /\ HasTarget' /\ OwnSteps' /\ WinnerSigns'
<1>1. /\ \A d \in Calls : Target(d)' = Target(d)
      /\ \A d \in Calls \ {c} : call'[d] = call[d]
      /\ call'[c].pc = step
      /\ c \notin sessions
      BY DEF IInv, TypeOK, Target, WinnerSigns
<1>2. Accepts \subseteq Calls
      BY DEF Calls
<1>. QED
     BY <1>1, <1>2 DEF IInv, TypeOK, HasTarget, OwnSteps, WinnerSigns

\* The owner-only handlers begin for a caller, a target and a role.
LEMMA BeginKeeps ==
    ASSUME IInv, NEW c \in Calls \ Accepts,
           NEW step \in Steps \ {"consume", "signIn"},
           NEW grants \in SUBSET Roles, Begin(c, step, grants)
    PROVE  IInv'
<1>1. PICK u \in Users \cup {Admin}, t \in Users, g \in grants :
          call' = [call EXCEPT ![c] = [pc |-> step, caller |-> u,
                         target |-> t, grant |-> g, isNew |-> FALSE]]
      BY DEF Begin
<1>2. /\ \A d \in Calls \ {c} : call'[d] = call[d]
      /\ call'[c].target = t
      BY <1>1 DEF IInv, TypeOK
<1>3. TypeOK'
      BY <1>1 DEF IInv, TypeOK, Begin, team, ids
<1>. QED
     BY <1>2, <1>3 DEF IInv, HasTarget, OwnSteps, WinnerSigns, Target, Begin,
                       team, ids, Calls

\* An invitation, step by step, keeps the invariant.
LEMMA InviteKeeps ==
    ASSUME IInv, NEW c \in Calls, Invite(c)
    PROVE  IInv'
<1>1. CASE BeginInvite(c)
      BY <1>1, BeginKeeps, TeamAssumption
         DEF BeginInvite, Steps, Roles, Calls
<1>2. ASSUME call[c].pc \in {"cap", "member", "user", "create", "grant", "mint"}
      PROVE  c \notin Accepts
      BY <1>2 DEF IInv, OwnSteps
<1>3. CASE CheckCap(c) \/ CheckMember(c) \/ FindUser(c)
  <2>1. PICK step \in {"member", "closed", "user", "create", "grant"} :
            Goto(c, step)
        BY <1>3 DEF CheckCap, CheckMember, FindUser
  <2>2. UNCHANGED <<team, ids, tokens, sessions>>
        BY <1>3 DEF CheckCap, CheckMember, FindUser
  <2>3. call[c].pc \in {"cap", "member", "user"}
        BY <1>3 DEF CheckCap, CheckMember, FindUser, At
  <2>. QED
       BY <1>2, <2>1, <2>2, <2>3, MoveKeeps
          DEF Goto, IInv, TypeOK, Steps, team, ids
<1>4. CASE CreateUser(c)
  <2>1. call[c].pc = "create" /\ c \notin Accepts /\ Target(c) \in Users
        BY <1>2, <1>4 DEF CreateUser, At, IInv, HasTarget
  <2>2. CASE account[Target(c)] = "absent"
    <3>1. /\ account' = [account EXCEPT ![Target(c)] = "pending"]
          /\ call' = [call EXCEPT ![c].pc = "grant", ![c].isNew = TRUE]
          /\ UNCHANGED <<role, surplus, password, tokens, sessions>>
          BY <1>4, <2>2 DEF CreateUser, Goto, team
    <3>2. /\ call'[c] = [call[c] EXCEPT !.pc = "grant", !.isNew = TRUE]
          /\ \A d \in Calls \ {c} : call'[d] = call[d]
          /\ call' = [d \in Calls |-> call'[d]]
          BY <3>1 DEF IInv, TypeOK
    <3>3. TypeOK'
      <4>1. call'[c] \in [pc : Steps, caller : Users \cup {Admin, Nobody},
                           target : Users \cup {Nobody}, grant : Roles,
                           isNew : BOOLEAN]
            BY <3>2 DEF IInv, TypeOK, Steps
      <4>2. call' \in [Calls -> [pc : Steps, caller : Users \cup {Admin, Nobody},
                           target : Users \cup {Nobody}, grant : Roles,
                           isNew : BOOLEAN]]
            BY <3>2, <4>1 DEF IInv, TypeOK
      <4>. QED
           BY <3>1, <4>2 DEF IInv, TypeOK
    <3>4. \A d \in Calls : Target(d)' = Target(d)
      <4>1. call'[c].target = call[c].target
            BY <3>2 DEF IInv, TypeOK
      <4>. QED
           BY <3>2, <4>1 DEF Target
    <3>5. HasTarget'
          BY <3>2, <3>4, <2>1 DEF IInv, HasTarget
    <3>6. OwnSteps' /\ WinnerSigns'
          BY <3>1, <3>2, <3>4, <2>1 DEF IInv, TypeOK, OwnSteps, WinnerSigns, Calls
    <3>. QED
         BY <3>3, <3>5, <3>6 DEF IInv
  <2>3. CASE account[Target(c)] # "absent"
    <3>1. Goto(c, "closed") /\ UNCHANGED <<role, surplus, account, password, tokens, sessions>>
          BY <1>4, <2>3 DEF CreateUser, team
    <3>. QED
         BY <3>1, <2>1, MoveKeeps DEF Goto, IInv, TypeOK, Steps
  <2>. QED
       BY <2>2, <2>3
<1>5. CASE Grant(c)
  <2>1. call[c].pc = "grant" /\ c \notin Accepts /\ Target(c) \in Users
        BY <1>2, <1>5 DEF Grant, At, IInv, HasTarget
  <2>2. PICK step \in {"mint", "closed"} : Goto(c, step)
        BY <1>5 DEF Grant
  <2>3. UNCHANGED <<surplus, account, password, tokens, sessions>>
        BY <1>5 DEF Grant, ids
  <2>4. role' \in [Users -> Roles \cup {"none"}]
        BY <1>5 DEF Grant, IInv, TypeOK
  <2>. QED
       BY <2>1, <2>2, <2>3, <2>4, MoveKeeps DEF Goto, IInv, TypeOK, Steps
<1>6. CASE MintToken(c)
  <2>1. call[c].pc = "mint" /\ c \notin Accepts /\ Target(c) \in Users
        BY <1>2, <1>6 DEF MintToken, At, IInv, HasTarget
  <2>. QED
       BY <1>6, <2>1, MoveKeeps DEF MintToken, Goto, IInv, TypeOK, Steps, team, ids
<1>. QED
     BY <1>1, <1>3, <1>4, <1>5, <1>6 DEF Invite

\* So does a removal.
LEMMA RemoveKeeps ==
    ASSUME IInv, NEW c \in Calls, Remove(c)
    PROVE  IInv'
<1>1. CASE BeginRemoval(c)
      BY <1>1, BeginKeeps, TeamAssumption
         DEF BeginRemoval, Steps, Roles, Calls
<1>2. CASE CheckTarget(c) \/ DeleteMembership(c) \/ RevokeSessions(c)
  <2>1. call[c].pc \in {"target", "delete", "revoke"} /\ c \notin Accepts
        BY <1>2 DEF CheckTarget, DeleteMembership, RevokeSessions, At, IInv, OwnSteps
  <2>2. PICK step \in {"delete", "revoke", "closed"} : Goto(c, step)
        BY <1>2 DEF CheckTarget, DeleteMembership, RevokeSessions
  <2>3. UNCHANGED <<surplus, account, password, tokens>> /\ sessions' \subseteq sessions
        BY <1>2 DEF CheckTarget, DeleteMembership, RevokeSessions, team, ids
  <2>4. role' \in [Users -> Roles \cup {"none"}]
        BY <1>2 DEF CheckTarget, DeleteMembership, RevokeSessions, team, IInv, TypeOK
  <2>. QED
       BY <2>1, <2>2, <2>3, <2>4, MoveKeeps DEF Goto, IInv, TypeOK, Steps
<1>. QED
     BY <1>1, <1>2 DEF Remove

\* So does a role change.
LEMMA ChangeRoleKeeps ==
    ASSUME IInv, NEW c \in Calls, ChangeRole(c)
    PROVE  IInv'
<1>1. CASE BeginRoleChange(c)
      BY <1>1, BeginKeeps, TeamAssumption
         DEF BeginRoleChange, Steps, Roles, Calls
<1>2. CASE Demote(c) \/ SetRole(c)
  <2>1. call[c].pc \in {"demote", "set"} /\ c \notin Accepts
        BY <1>2 DEF Demote, SetRole, At, IInv, OwnSteps
  <2>2. PICK step \in {"set", "closed"} : Goto(c, step)
        BY <1>2 DEF Demote, SetRole
  <2>3. UNCHANGED <<account, password, tokens, sessions>>
        BY <1>2 DEF Demote, SetRole, ids
  <2>4. call[c].grant \in Roles
        BY DEF IInv, TypeOK
  <2>5. role' \in [Users -> Roles \cup {"none"}] /\ surplus' \in Nat
    <3>1. CASE Demote(c)
          BY <3>1 DEF Demote, team, IInv, TypeOK, Roles
    <3>2. CASE SetRole(c)
          BY <3>2, <2>4 DEF SetRole, IInv, TypeOK
    <3>. QED
         BY <1>2, <3>1, <3>2
  <2>. QED
       BY <2>1, <2>2, <2>3, <2>5, MoveKeeps DEF Goto, IInv, TypeOK, Steps
<1>. QED
     BY <1>1, <1>2 DEF ChangeRole

\* So does the acceptance of an invitation: the conditional UPDATE is what makes
\* its Consume step safe.
LEMMA AcceptKeeps ==
    ASSUME IInv, NEW c \in Calls, Accept(c)
    PROVE  IInv'
<1>1. CASE BeginAccept(c)
  <2>1. PICK u \in tokens :
            call' = [call EXCEPT ![c].pc = "consume", ![c].target = u]
        BY <1>1 DEF BeginAccept
  <2>2. /\ u \in Users /\ c \in Accepts /\ call[c].pc = "start"
        /\ UNCHANGED <<role, surplus, account, password, tokens, sessions>>
        BY <1>1, <2>1 DEF BeginAccept, At, IInv, TypeOK, team, ids
  <2>3. /\ call'[c] = [call[c] EXCEPT !.pc = "consume", !.target = u]
        /\ \A d \in Calls \ {c} : call'[d] = call[d]
        /\ call' = [d \in Calls |-> call'[d]]
        BY <2>1 DEF IInv, TypeOK
  <2>4. TypeOK'
    <3>1. call'[c] \in [pc : Steps, caller : Users \cup {Admin, Nobody},
                         target : Users \cup {Nobody}, grant : Roles,
                         isNew : BOOLEAN]
          BY <2>2, <2>3 DEF IInv, TypeOK, Steps
    <3>2. call' \in [Calls -> [pc : Steps, caller : Users \cup {Admin, Nobody},
                         target : Users \cup {Nobody}, grant : Roles,
                         isNew : BOOLEAN]]
          BY <2>3, <3>1 DEF IInv, TypeOK
    <3>. QED
         BY <2>2, <3>2 DEF IInv, TypeOK
  <2>5. /\ \A d \in Calls \ {c} : call'[d] = call[d]
        /\ call'[c].pc = "consume" /\ call'[c].target = u
        BY <2>3 DEF IInv, TypeOK
  <2>6. HasTarget'
        BY <2>2, <2>5 DEF IInv, HasTarget, Target
  <2>7. OwnSteps' /\ WinnerSigns'
        BY <2>2, <2>5 DEF IInv, OwnSteps, WinnerSigns, Target, Calls
  <2>. QED
       BY <2>4, <2>6, <2>7 DEF IInv
<1>2. ASSUME call[c].pc \in {"consume", "signIn"}
      PROVE  /\ Target(c) \in Users
             /\ \A step \in Steps : Goto(c, step) =>
                   /\ \A d \in Calls : Target(d)' = Target(d)
                   /\ \A d \in Calls \ {c} : call'[d] = call[d]
                   /\ call'[c].pc = step
                   /\ call' \in [Calls -> [pc : Steps,
                                 caller : Users \cup {Admin, Nobody},
                                 target : Users \cup {Nobody},
                                 grant : Roles, isNew : BOOLEAN]]
      BY <1>2 DEF IInv, TypeOK, HasTarget, Target, Goto
<1>3. CASE Consume(c)
  <2>1. call[c].pc = "consume" /\ UNCHANGED <<role, surplus, tokens, sessions>>
        BY <1>3 DEF Consume, At, team
  <2>2. CASE password[Target(c)] = Nobody
    <3>1. /\ account'  = [account  EXCEPT ![Target(c)] = "active"]
          /\ password' = [password EXCEPT ![Target(c)] = c]
          /\ Goto(c, "signIn")
          BY <1>3, <2>2 DEF Consume
    <3>2. c \in Accepts /\ Target(c) \in Users /\ "signIn" \in Steps
          BY <1>2, <2>1 DEF IInv, OwnSteps, Steps
    <3>3. TypeOK'
          BY <1>2, <2>1, <3>1, <3>2 DEF IInv, TypeOK
    <3>4. HasTarget' /\ OwnSteps'
          BY <1>2, <2>1, <3>1, <3>2 DEF IInv, HasTarget, OwnSteps
    <3>5. ASSUME NEW a \in Accepts \ {c}
          PROVE  /\ call'[a].pc = "signIn" => password'[Target(a)'] = a
                 /\ a \in sessions' => /\ call'[a].pc = "closed"
                                       /\ Target(a)' \in Users
                                       /\ password'[Target(a)'] = a
      <4>1. a \in Calls /\ call'[a] = call[a] /\ Target(a)' = Target(a) /\ a # Nobody
            BY <1>2, <2>1, <3>1, <3>2, TeamAssumption DEF Calls
      <4>2. password[Target(a)] = a => Target(a) # Target(c)
            BY <4>1, <2>2
      <4>3. password[Target(a)] = a => password'[Target(a)] = a
            BY <4>2, <3>1 DEF IInv, TypeOK
      <4>. QED
           BY <4>1, <4>3, <2>1 DEF IInv, WinnerSigns
    <3>6. /\ password'[Target(c)'] = c
          /\ c \notin sessions'
          BY <1>2, <2>1, <3>1, <3>2 DEF IInv, TypeOK, WinnerSigns
    <3>7. WinnerSigns'
          BY <3>5, <3>6 DEF WinnerSigns
    <3>. QED
         BY <3>3, <3>4, <3>7 DEF IInv
  <2>3. CASE password[Target(c)] # Nobody
    <3>1. Goto(c, "closed") /\ UNCHANGED <<account, password>>
          BY <1>3, <2>3 DEF Consume, ids
    <3>. QED
         BY <2>1, <3>1, MoveKeeps DEF Goto, IInv, TypeOK, Steps
  <2>. QED
       BY <2>2, <2>3
<1>4. CASE SignIn(c)
  <2>1. /\ call[c].pc = "signIn" /\ Goto(c, "closed")
        /\ sessions' = sessions \cup {c}
        /\ UNCHANGED <<role, surplus, account, password, tokens>>
        BY <1>4 DEF SignIn, At, team, ids
  <2>2. c \in Accepts /\ "closed" \in Steps
        BY <2>1 DEF IInv, OwnSteps, Steps
  <2>3. TypeOK'
        BY <1>2, <2>1, <2>2 DEF IInv, TypeOK
  <2>4. HasTarget' /\ OwnSteps'
        BY <1>2, <2>1, <2>2 DEF IInv, HasTarget, OwnSteps
  <2>5. WinnerSigns'
        BY <1>2, <2>1, <2>2 DEF IInv, WinnerSigns, Calls
  <2>. QED
       BY <2>3, <2>4, <2>5 DEF IInv
<1>. QED
     BY <1>1, <1>3, <1>4 DEF Accept

\* A handler cut short keeps it.
LEMMA CrashKeeps ==
    ASSUME IInv, NEW c \in Calls, Crash(c)
    PROVE  IInv'
BY MoveKeeps DEF Crash, Goto, IInv, TypeOK, Steps, team, ids

\* So does the passing of an invitation's seven days.
LEMMA ExpiryKeeps ==
    ASSUME IInv, NEW u \in Users, TokenExpires(u)
    PROVE  IInv'
BY DEF TokenExpires, IInv, TypeOK, HasTarget, OwnSteps, WinnerSigns, Target, team, ids

\* The initial states satisfy the invariant ...
LEMMA InitIInv == Init => IInv
BY TeamAssumption DEF Init, IInv, TypeOK, HasTarget, OwnSteps, WinnerSigns, Target,
                      Calls, Roles, Steps

\* ... and every step preserves it.
LEMMA NextIInv == IInv /\ [Next]_vars => IInv'
<1> SUFFICES ASSUME IInv, [Next]_vars PROVE IInv'
    OBVIOUS
<1>1. ASSUME NEW c \in Calls,
             Invite(c) \/ Remove(c) \/ ChangeRole(c) \/ Accept(c) \/ Crash(c)
      PROVE  IInv'
      BY <1>1, InviteKeeps, RemoveKeeps, ChangeRoleKeeps, AcceptKeeps, CrashKeeps
<1>2. ASSUME NEW u \in Users, TokenExpires(u)
      PROVE  IInv'
      BY <1>2, ExpiryKeeps
<1>3. CASE UNCHANGED vars
      BY <1>3 DEF vars, IInv, TypeOK, HasTarget, OwnSteps, WinnerSigns, Target
<1>. QED
     BY <1>1, <1>2, <1>3 DEF Next

\* Type correctness: the variables of Team keep their types for any users and calls.
THEOREM TeamTypeCorrect == Spec => []TypeOK
<1>1. IInv => TypeOK
      BY DEF IInv
<1>. QED
     BY InitIInv, NextIInv, <1>1, PTL DEF Spec

\* Of several clicks on one invitation (POST /auth/team-accept) exactly one sets
\* the password, and the session minted belongs to that click.
THEOREM TeamOneWinner == Spec => []OneWinner
<1>1. IInv => OneWinner
      BY DEF IInv, TypeOK, WinnerSigns, OneWinner
<1>. QED
     BY InitIInv, NextIInv, <1>1, PTL DEF Spec
-----------------------------------------------------------------------------
\* Invitations, and only they, take the steps of the invite handler.
InviteSteps == {"start", "cap", "member", "user", "create", "grant", "mint", "closed"}
OtherSteps  == {"start", "target", "delete", "revoke", "demote", "set",
                "consume", "signIn", "closed"}

KindSteps ==
    \A c \in Calls : call[c].pc \in IF c \in Invites THEN InviteSteps ELSE OtherSteps

\* What one call's step may do, the part of OnlyAdds that concerns call c.
Adds(c) ==
    /\ c \in Invites => \A u \in Members : role'[u] = role[u]
    /\ c \notin Invites => \A u \in Users \ Members : role'[u] = "none"

\* A step of a call changes no other call, keeps to its handler, and only adds.
LEMMA CallStepAdds ==
    ASSUME TypeOK, KindSteps, NEW c \in Calls,
           Invite(c) \/ Remove(c) \/ ChangeRole(c) \/ Accept(c) \/ Crash(c)
    PROVE  /\ \A d \in Calls \ {c} : call'[d] = call[d]
           /\ call'[c].pc \in IF c \in Invites THEN InviteSteps ELSE OtherSteps
           /\ Adds(c)
<1>1. call \in [Calls -> [pc : Steps, caller : Users \cup {Admin, Nobody},
                          target : Users \cup {Nobody}, grant : Roles,
                          isNew : BOOLEAN]]
      BY DEF TypeOK
<1>2. role \in [Users -> Roles \cup {"none"}]
      BY DEF TypeOK
<1>3. call[c].pc \in IF c \in Invites THEN InviteSteps ELSE OtherSteps
      BY DEF KindSteps
<1>4. UNCHANGED role => Adds(c)
      BY DEF Adds, Members
<1>5. ASSUME NEW step \in Steps, Goto(c, step)
      PROVE  /\ \A d \in Calls \ {c} : call'[d] = call[d]
             /\ call'[c].pc = step
      BY <1>1, <1>5 DEF Goto
<1>6. ASSUME NEW step \in Steps, NEW grants, Begin(c, step, grants)
      PROVE  /\ \A d \in Calls \ {c} : call'[d] = call[d]
             /\ call'[c].pc = step
             /\ Adds(c)
      BY <1>1, <1>4, <1>6 DEF Begin, team
<1>7. CASE BeginInvite(c) \/ BeginRemoval(c) \/ BeginRoleChange(c)
      BY <1>6, <1>7, TeamAssumption
         DEF BeginInvite, BeginRemoval, BeginRoleChange, Steps, InviteSteps, OtherSteps
<1>8. CASE CheckCap(c) \/ CheckMember(c) \/ FindUser(c) \/ MintToken(c)
  <2>1. PICK step \in {"member", "closed", "user", "create", "grant"} : Goto(c, step)
        BY <1>8 DEF CheckCap, CheckMember, FindUser, MintToken
  <2>2. UNCHANGED role /\ call[c].pc \in {"cap", "member", "user", "mint"}
        BY <1>8 DEF CheckCap, CheckMember, FindUser, MintToken, At, team
  <2>. QED
       BY <1>3, <1>4, <1>5, <2>1, <2>2 DEF Steps, InviteSteps, OtherSteps
<1>9. CASE CreateUser(c)
  <2>1. /\ \A d \in Calls \ {c} : call'[d] = call[d]
        /\ call'[c].pc \in {"grant", "closed"}
        BY <1>1, <1>9 DEF CreateUser, Goto
  <2>2. UNCHANGED role /\ call[c].pc = "create"
        BY <1>9 DEF CreateUser, At, team
  <2>. QED
       BY <1>3, <1>4, <2>1, <2>2 DEF InviteSteps, OtherSteps
<1>10. CASE Grant(c)
  <2>1. PICK step \in {"mint", "closed"} : Goto(c, step)
        BY <1>10 DEF Grant
  <2>2. call[c].pc = "grant" /\ c \in Invites
        BY <1>3, <1>10 DEF Grant, At, OtherSteps
  <2>3. \A u \in Members : role'[u] = role[u]
        BY <1>2, <1>10 DEF Grant, Members
  <2>. QED
       BY <1>5, <2>1, <2>2, <2>3 DEF Adds, Steps, InviteSteps
<1>11. CASE CheckTarget(c) \/ RevokeSessions(c)
  <2>1. PICK step \in {"delete", "closed"} : Goto(c, step)
        BY <1>11 DEF CheckTarget, RevokeSessions
  <2>2. UNCHANGED role /\ call[c].pc \in {"target", "revoke"}
        BY <1>11 DEF CheckTarget, RevokeSessions, At, team
  <2>. QED
       BY <1>3, <1>4, <1>5, <2>1, <2>2 DEF Steps, InviteSteps, OtherSteps
<1>12. CASE DeleteMembership(c) \/ Demote(c) \/ SetRole(c)
  <2>1. PICK step \in {"revoke", "set", "closed"} : Goto(c, step)
        BY <1>12 DEF DeleteMembership, Demote, SetRole
  <2>2. call[c].pc \in {"delete", "demote", "set"} /\ c \notin Invites
        BY <1>3, <1>12 DEF DeleteMembership, Demote, SetRole, At, InviteSteps
  <2>3. \A u \in Users \ Members : role'[u] = "none"
    <3>1. CASE DeleteMembership(c)
          BY <1>2, <3>1 DEF DeleteMembership, Members
    <3>2. CASE Demote(c)
          BY <1>2, <3>2 DEF Demote, Members, team
    <3>3. CASE SetRole(c)
          BY <1>2, <3>3 DEF SetRole, Members
    <3>. QED
         BY <1>12, <3>1, <3>2, <3>3
  <2>. QED
       BY <1>5, <2>1, <2>2, <2>3 DEF Adds, Steps, OtherSteps
<1>13. CASE BeginAccept(c)
  <2>1. /\ \A d \in Calls \ {c} : call'[d] = call[d]
        /\ call'[c].pc = "consume"
        BY <1>1, <1>13 DEF BeginAccept
  <2>2. UNCHANGED role /\ c \notin Invites
        BY <1>13, TeamAssumption DEF BeginAccept, team
  <2>. QED
       BY <1>4, <2>1, <2>2 DEF OtherSteps
<1>14. CASE Consume(c) \/ SignIn(c)
  <2>1. PICK step \in {"signIn", "closed"} : Goto(c, step)
        BY <1>14 DEF Consume, SignIn
  <2>2. UNCHANGED role /\ call[c].pc \in {"consume", "signIn"}
        BY <1>14 DEF Consume, SignIn, At, team
  <2>. QED
       BY <1>3, <1>4, <1>5, <2>1, <2>2 DEF Steps, InviteSteps, OtherSteps
<1>15. CASE Crash(c)
  <2>1. Goto(c, "closed") /\ UNCHANGED role
        BY <1>15 DEF Crash, team
  <2>. QED
       BY <1>4, <1>5, <2>1 DEF Steps, InviteSteps, OtherSteps
<1>. QED
     BY <1>7, <1>8, <1>9, <1>10, <1>11, <1>12, <1>13, <1>14, <1>15
        DEF Invite, Remove, ChangeRole, Accept

\* Every step keeps calls to their handlers, and invitations only add.
LEMMA NextAdds == TypeOK /\ KindSteps /\ [Next]_vars => KindSteps' /\ [OnlyAdds]_vars
<1> SUFFICES ASSUME TypeOK, KindSteps, [Next]_vars
             PROVE  KindSteps' /\ [OnlyAdds]_vars
    OBVIOUS
<1>1. ASSUME NEW c \in Calls,
             Invite(c) \/ Remove(c) \/ ChangeRole(c) \/ Accept(c) \/ Crash(c)
      PROVE  KindSteps' /\ OnlyAdds
  <2>1. /\ \A d \in Calls \ {c} : call'[d] = call[d]
        /\ call'[c].pc \in IF c \in Invites THEN InviteSteps ELSE OtherSteps
        /\ Adds(c)
        BY <1>1, CallStepAdds
  <2>2. KindSteps'
        BY <2>1 DEF KindSteps
  <2>3. OnlyAdds
        BY <2>1 DEF OnlyAdds, Adds
  <2>. QED
       BY <2>2, <2>3
<1>2. ASSUME NEW u \in Users, TokenExpires(u)
      PROVE  KindSteps' /\ OnlyAdds
      BY <1>2 DEF TokenExpires, KindSteps, OnlyAdds
<1>3. CASE UNCHANGED vars
      BY <1>3 DEF vars, KindSteps
<1>. QED
     BY <1>1, <1>2, <1>3 DEF Next

\* However many invitations, removals, role changes and crashes interleave, an
\* invitation (POST /api/client/team/invite) never changes the role of a member,
\* and nothing but an invitation makes a member of a user.
THEOREM TeamInvitationsOnlyAdd == Spec => InvitationsOnlyAdd
<1>1. Init => KindSteps
      BY DEF Init, KindSteps, InviteSteps, OtherSteps
<1>2. IInv => TypeOK
      BY DEF IInv
<1>. QED
     BY <1>1, <1>2, InitIInv, NextIInv, NextAdds, PTL DEF Spec, InvitationsOnlyAdd
-----------------------------------------------------------------------------
(* Ownership *)

\* Owners O and promotions half done P, together, exceed one by at most s.
Balance(O, P, s) ==
    /\ IsFiniteSet(O) /\ IsFiniteSet(P)
    /\ Cardinality(O) + Cardinality(P) <= 1 + s

LEMMA BalanceShrinks ==
    ASSUME NEW O, NEW P, NEW s \in Nat, Balance(O, P, s), NEW Q \in SUBSET O,
           NEW R \in SUBSET P
    PROVE  Balance(Q, R, s)
BY FS_Subset, FS_CardinalityType DEF Balance

\* An owner demotes itself and its promotion of somebody else is half done.
LEMMA BalanceDemotes ==
    ASSUME NEW O, NEW P, NEW s \in Nat, Balance(O, P, s), NEW u \in O, NEW c
    PROVE  Balance(O \ {u}, P \cup {c}, s)
<1>1. /\ IsFiniteSet(O \ {u}) /\ Cardinality(O \ {u}) = Cardinality(O) - 1
      /\ IsFiniteSet(P \cup {c}) /\ Cardinality(P \cup {c}) <= Cardinality(P) + 1
  <2>1. IsFiniteSet(O) /\ IsFiniteSet(P) /\ Cardinality(P) \in Nat
        BY FS_CardinalityType DEF Balance
  <2>2. IsFiniteSet(O \ {u}) /\ Cardinality(O \ {u}) = Cardinality(O) - 1
        BY <2>1, FS_RemoveElement
  <2>3. /\ IsFiniteSet(P \cup {c})
        /\ Cardinality(P \cup {c}) = IF c \in P THEN Cardinality(P) ELSE Cardinality(P) + 1
        BY <2>1, FS_AddElement
  <2>. QED BY <2>1, <2>2, <2>3
<1>. QED BY <1>1, FS_CardinalityType DEF Balance

\* A promotion whose caller owned nothing is counted as surplus.
LEMMA BalanceExceeds ==
    ASSUME NEW O, NEW P, NEW s \in Nat, Balance(O, P, s), NEW c
    PROVE  Balance(O, P \cup {c}, s + 1)
<1>1. IsFiniteSet(P \cup {c}) /\ Cardinality(P \cup {c}) <= Cardinality(P) + 1
  <2>1. IsFiniteSet(P) /\ Cardinality(P) \in Nat
        BY FS_CardinalityType DEF Balance
  <2>2. /\ IsFiniteSet(P \cup {c})
        /\ Cardinality(P \cup {c}) = IF c \in P THEN Cardinality(P) ELSE Cardinality(P) + 1
        BY <2>1, FS_AddElement
  <2>. QED BY <2>1, <2>2
<1>. QED BY <1>1, FS_CardinalityType DEF Balance

\* The promotion is completed: one more owner, one promotion less.
LEMMA BalancePromotes ==
    ASSUME NEW O, NEW P, NEW s \in Nat, Balance(O, P, s), NEW u, NEW c \in P
    PROVE  Balance(O \cup {u}, P \ {c}, s)
<1>1. /\ IsFiniteSet(O \cup {u}) /\ Cardinality(O \cup {u}) <= Cardinality(O) + 1
      /\ IsFiniteSet(P \ {c}) /\ Cardinality(P \ {c}) = Cardinality(P) - 1
      BY FS_RemoveElement, FS_AddElement, FS_CardinalityType DEF Balance
<1>. QED BY <1>1, FS_CardinalityType DEF Balance

\* Only role changes reach the two statements of a promotion, and no invitation
\* carries ownership.
RoleSteps ==
    /\ \A c \in Calls : call[c].pc \in {"demote", "set"} => c \in RoleChanges
    /\ \A c \in Calls : call[c].pc \in {"cap", "member", "user", "create", "grant"}
                            => call[c].grant # "owner"

HandedOn == RoleSteps /\ Balance(Owners, Promoting, surplus)

\* A step that moves one call along keeps RoleSteps.
LEMMA GotoKeeps ==
    ASSUME TypeOK, RoleSteps, NEW c \in Calls, NEW step \in Steps, Goto(c, step),
           step = "set" => call[c].pc = "demote", step # "demote",
           step \in {"cap", "member", "user", "create", "grant"} =>
              call[c].pc \in {"cap", "member", "user", "create", "grant"}
    PROVE  /\ RoleSteps'
           /\ \A d \in Calls : call'[d].grant = call[d].grant
           /\ call'[c].pc = step
           /\ \A d \in Calls \ {c} : call'[d] = call[d]
<1>1. /\ \A d \in Calls \ {c} : call'[d] = call[d]
      /\ call'[c].pc = step /\ call'[c].grant = call[c].grant
      BY DEF TypeOK, Goto
<1>. QED BY <1>1 DEF RoleSteps

\* A step that makes no owner and brings no promotion to its second half.
LEMMA KeepsBalance ==
    ASSUME TypeOK, HandedOn, Owners' \subseteq Owners, Promoting' \subseteq Promoting,
           UNCHANGED surplus
    PROVE  Balance(Owners, Promoting, surplus)'
BY BalanceShrinks DEF HandedOn, TypeOK

\* The part of HandedOn that a step of one call keeps.
LEMMA CallStepHands ==
    ASSUME TypeOK, HasTarget, HandedOn, NEW c \in Calls,
           Invite(c) \/ Remove(c) \/ ChangeRole(c) \/ Accept(c) \/ Crash(c)
    PROVE  HandedOn'
<1>0. /\ call \in [Calls -> [pc : Steps, caller : Users \cup {Admin, Nobody},
                             target : Users \cup {Nobody}, grant : Roles,
                             isNew : BOOLEAN]]
      /\ role \in [Users -> Roles \cup {"none"}] /\ surplus \in Nat
      BY DEF TypeOK
<1>1. ASSUME NEW step \in {"cap", "target", "demote"}, NEW grants \in SUBSET Roles,
             Begin(c, step, grants), step = "demote" => c \in RoleChanges,
             step = "cap" => "owner" \notin grants
      PROVE  HandedOn'
  <2>1. PICK g \in grants : /\ call'[c].pc = step /\ call'[c].grant = g
                            /\ \A d \in Calls \ {c} : call'[d] = call[d]
        BY <1>0, <1>1 DEF Begin
  <2>2. UNCHANGED <<role, surplus>> /\ call[c].pc = "start"
        BY <1>1 DEF Begin, team, At
  <2>3. RoleSteps'
        BY <1>1, <2>1 DEF HandedOn, RoleSteps
  <2>4. Promoting' \subseteq Promoting
        BY <2>1 DEF Promoting, At, Calls
  <2>5. Owners' \subseteq Owners
        BY <2>2 DEF Owners
  <2>. QED BY <2>2, <2>3, <2>4, <2>5, KeepsBalance DEF HandedOn
<1>2. CASE BeginInvite(c) \/ BeginRemoval(c) \/ BeginRoleChange(c)
      BY <1>1, <1>2 DEF BeginInvite, BeginRemoval, BeginRoleChange, Roles
<1>3. ASSUME NEW step \in Steps \ {"demote", "set"}, Goto(c, step),
             step \in {"cap", "member", "user", "create", "grant"} =>
                call[c].pc \in {"cap", "member", "user", "create", "grant"},
             Owners' \subseteq Owners, UNCHANGED surplus
      PROVE  HandedOn'
  <2>1. /\ RoleSteps' /\ call'[c].pc = step
        /\ \A d \in Calls \ {c} : call'[d] = call[d]
        BY <1>3, GotoKeeps DEF HandedOn
  <2>2. Promoting' \subseteq Promoting
        BY <2>1 DEF Promoting, At, Calls
  <2>. QED BY <1>3, <2>1, <2>2, KeepsBalance DEF HandedOn
<1>4. UNCHANGED role => Owners' \subseteq Owners
      BY DEF Owners
<1>5. CASE \/ CheckCap(c) \/ CheckMember(c) \/ FindUser(c) \/ MintToken(c)
           \/ CheckTarget(c) \/ RevokeSessions(c) \/ Consume(c) \/ SignIn(c) \/ Crash(c)
  <2>1. UNCHANGED <<role, surplus>>
        BY <1>5 DEF CheckCap, CheckMember, FindUser, MintToken, CheckTarget,
                    RevokeSessions, Consume, SignIn, Crash, team
  <2>2. PICK step \in {"member", "user", "create", "grant", "delete", "signIn", "closed"} :
           /\ Goto(c, step)
           /\ step \in {"member", "user", "create", "grant"} =>
                 call[c].pc \in {"cap", "member", "user"}
        BY <1>5 DEF CheckCap, CheckMember, FindUser, MintToken, CheckTarget,
                    RevokeSessions, Consume, SignIn, Crash, At
  <2>. QED BY <1>3, <1>4, <2>1, <2>2 DEF Steps
<1>6. CASE CreateUser(c)
  <2>1. CASE Goto(c, "closed")
        BY <1>3, <1>4, <1>6, <2>1 DEF CreateUser, team, Steps
  <2>2. CASE call' = [call EXCEPT ![c].pc = "grant", ![c].isNew = TRUE]
    <3>1. /\ call'[c] = [call[c] EXCEPT !.pc = "grant", !.isNew = TRUE]
          /\ \A d \in Calls \ {c} : call'[d] = call[d]
          BY <1>0, <2>2
    <3>2. call'[c].pc = "grant" /\ call'[c].grant = call[c].grant
          BY <1>0, <3>1
    <3>3. call[c].pc = "create" /\ UNCHANGED <<role, surplus>>
          BY <1>6 DEF CreateUser, At, team
    <3>4. RoleSteps'
          BY <3>1, <3>2, <3>3 DEF HandedOn, RoleSteps
    <3>5. Promoting' \subseteq Promoting
          BY <3>1, <3>2 DEF Promoting, At, Calls
    <3>. QED BY <1>4, <3>3, <3>4, <3>5, KeepsBalance DEF HandedOn
  <2>. QED BY <1>6, <2>1, <2>2 DEF CreateUser
<1>7. CASE Grant(c)
  <2>1. PICK step \in {"mint", "closed"} : Goto(c, step)
        BY <1>7 DEF Grant
  <2>2. call[c].grant # "owner" /\ UNCHANGED surplus
        BY <1>7 DEF Grant, At, HandedOn, RoleSteps
  <2>3. Owners' \subseteq Owners
        BY <1>0, <1>7, <2>2 DEF Grant, Owners
  <2>. QED BY <1>3, <2>1, <2>2, <2>3 DEF Steps
<1>8. CASE DeleteMembership(c)
  <2>1. Owners' \subseteq Owners
        BY <1>0, <1>8 DEF DeleteMembership, Owners
  <2>. QED BY <1>3, <1>8, <2>1 DEF DeleteMembership, Steps
<1>9. CASE BeginAccept(c)
  <2>1. PICK u \in tokens : call' = [call EXCEPT ![c].pc = "consume", ![c].target = u]
        BY <1>9 DEF BeginAccept
  <2>2. call'[c].pc = "consume" /\ \A d \in Calls \ {c} : call'[d] = call[d]
        BY <1>0, <2>1
  <2>3. UNCHANGED <<role, surplus>>
        BY <1>9 DEF BeginAccept, team
  <2>4. RoleSteps' /\ Promoting' \subseteq Promoting
        BY <2>2 DEF HandedOn, RoleSteps, Promoting, At, Calls
  <2>. QED BY <1>4, <2>3, <2>4, KeepsBalance DEF HandedOn
<1>10. CASE Demote(c)
  <2>1. call[c].pc = "demote" /\ Goto(c, "set") /\ c \in RoleChanges
        BY <1>10 DEF Demote, At, HandedOn, RoleSteps
  <2>2. /\ RoleSteps' /\ call'[c].pc = "set" /\ call'[c].grant = call[c].grant
        /\ \A d \in Calls \ {c} : call'[d] = call[d]
        BY <2>1, GotoKeeps DEF HandedOn, Steps
  <2>3. CASE call[c].grant # "owner"
    <3>1. Promoting' \subseteq Promoting
          BY <2>2, <2>3 DEF Promoting, At, Calls
    <3>2. UNCHANGED <<role, surplus>>
          BY <1>10, <2>3 DEF Demote, team
    <3>. QED BY <1>4, <2>2, <3>1, <3>2, KeepsBalance DEF HandedOn
  <2>4. CASE call[c].grant = "owner" /\ call[c].caller \in Owners
    <3>1. /\ role' = [role EXCEPT ![call[c].caller] = "editor"]
          /\ UNCHANGED surplus
          BY <1>10, <2>4 DEF Demote, Owners, Members
    <3>2. Owners' \subseteq Owners \ {call[c].caller}
          BY <1>0, <2>4, <3>1 DEF Owners
    <3>3. Promoting' \subseteq Promoting \cup {c}
          BY <2>2 DEF Promoting, At, Calls
    <3>4. Balance(Owners \ {call[c].caller}, Promoting \cup {c}, surplus)
          BY <1>0, <2>4, BalanceDemotes DEF HandedOn
    <3>5. Balance(Owners', Promoting', surplus)
          BY <1>0, <3>2, <3>3, <3>4, BalanceShrinks
    <3>. QED BY <2>2, <3>1, <3>5 DEF HandedOn
  <2>5. CASE call[c].grant = "owner" /\ call[c].caller \notin Owners
    <3>1. Owners' \subseteq Owners /\ surplus' = surplus + 1
      <4>1. role' = role \/ role' = [role EXCEPT ![call[c].caller] = "editor"]
            BY <1>10, <2>5 DEF Demote
      <4>2. surplus' = surplus + 1
            BY <1>10, <2>5 DEF Demote
      <4>. QED BY <1>0, <4>1, <4>2 DEF Owners
    <3>2. Promoting' \subseteq Promoting \cup {c}
          BY <2>2 DEF Promoting, At, Calls
    <3>3. Balance(Owners, Promoting \cup {c}, surplus + 1)
          BY <1>0, BalanceExceeds DEF HandedOn
    <3>4. Balance(Owners', Promoting', surplus + 1)
          BY <1>0, <3>1, <3>2, <3>3, BalanceShrinks
    <3>. QED BY <2>2, <3>1, <3>4 DEF HandedOn
  <2>. QED BY <2>3, <2>4, <2>5
<1>11. CASE SetRole(c)
  <2>1. call[c].pc = "set" /\ Goto(c, "closed") /\ c \in RoleChanges /\ UNCHANGED surplus
        BY <1>11 DEF SetRole, At, HandedOn, RoleSteps
  <2>2. CASE call[c].grant # "owner"
    <3>1. Owners' \subseteq Owners
          BY <1>0, <1>11, <2>2 DEF SetRole, Owners
    <3>. QED BY <1>3, <2>1, <3>1 DEF Steps
  <2>3. CASE call[c].grant = "owner"
    <3>1. /\ RoleSteps' /\ call'[c].pc = "closed"
          /\ \A d \in Calls \ {c} : call'[d] = call[d]
          BY <2>1, GotoKeeps DEF HandedOn, Steps
    <3>2. Promoting' \subseteq Promoting \ {c} /\ c \in Promoting
          BY <2>1, <2>3, <3>1 DEF Promoting, At, Calls
    <3>3. Owners' \subseteq Owners \cup {Target(c)}
          BY <1>0, <1>11 DEF SetRole, Owners
    <3>4. Balance(Owners \cup {Target(c)}, Promoting \ {c}, surplus)
          BY <1>0, <3>2, BalancePromotes DEF HandedOn
    <3>5. Balance(Owners', Promoting', surplus)
          BY <1>0, <3>2, <3>3, <3>4, BalanceShrinks
    <3>. QED BY <2>1, <3>1, <3>5 DEF HandedOn
  <2>. QED BY <2>2, <2>3
<1>. QED BY <1>2, <1>5, <1>6, <1>7, <1>8, <1>9, <1>10, <1>11
         DEF Invite, Remove, ChangeRole, Accept

\* However promotions, removals, invitations and crashes interleave, owners
\* multiply only by promotions whose caller owned nothing when its own row was
\* to be demoted (PATCH /api/client/team/:user_id/role).
THEOREM TeamOwnershipHandedOn == Spec => []OwnershipHandedOn
<1>1. Init => HandedOn
  <2>. SUFFICES ASSUME Init PROVE HandedOn
       OBVIOUS
  <2>1. Owners = {Founder} /\ Promoting = {} /\ surplus = 0
        BY TeamAssumption DEF Init, Owners, Promoting, At, Calls
  <2>2. RoleSteps
        BY DEF Init, RoleSteps
  <2>3. /\ IsFiniteSet({Founder}) /\ Cardinality({Founder}) = 1
        /\ IsFiniteSet({}) /\ Cardinality({}) = 0
        BY FS_EmptySet, FS_Singleton
  <2>4. /\ IsFiniteSet(Owners) /\ Cardinality(Owners) = 1
        /\ IsFiniteSet(Promoting) /\ Cardinality(Promoting) = 0
        BY <2>1, <2>3
  <2>. QED BY <2>1, <2>2, <2>4 DEF HandedOn, Balance
<1>2. IInv /\ HandedOn /\ [Next]_vars => HandedOn'
  <2>. SUFFICES ASSUME IInv, HandedOn, [Next]_vars PROVE HandedOn'
       OBVIOUS
  <2>1. ASSUME NEW c \in Calls,
               Invite(c) \/ Remove(c) \/ ChangeRole(c) \/ Accept(c) \/ Crash(c)
        PROVE  HandedOn'
        BY <2>1, CallStepHands DEF IInv
  <2>2. ASSUME UNCHANGED <<role, call, surplus>> PROVE HandedOn'
        BY <2>2 DEF HandedOn, RoleSteps, Owners, Promoting, At
  <2>3. ASSUME NEW u \in Users, TokenExpires(u) PROVE HandedOn'
        BY <2>2, <2>3 DEF TokenExpires, team
  <2>4. ASSUME UNCHANGED vars PROVE HandedOn'
        BY <2>2, <2>4 DEF vars
  <2>. QED BY <2>1, <2>3, <2>4 DEF Next
<1>3. HandedOn => OwnershipHandedOn
      BY DEF HandedOn, Balance, OwnershipHandedOn
<1>. QED BY <1>1, <1>2, <1>3, InitIInv, NextIInv, PTL DEF Spec
-----------------------------------------------------------------------------
(* The record of TeamHistory: seats, links and owners *)

\* The record only watches: every behaviour of TeamHistory is one of Team, so what
\* the theorems above say of Team holds of TeamHistory, whose runs check it.
THEOREM TeamHistoryWatches == HistorySpec => Spec
<1>1. HistoryInit => Init
      BY DEF HistoryInit
<1>2. [HistoryNext]_historyVars => [Next]_vars
      BY DEF HistoryNext, historyVars, Next
<1>. QED
     BY <1>1, <1>2, PTL DEF HistorySpec, Spec

\* A seat is counted for every member and for every invitation under way.
SeatsInv == IsFiniteSet(Members) /\ IsFiniteSet(Booked) /\ SeatsKept

\* Members have an account, and an invitation has one before it makes a member.
HasAccount ==
    /\ \A u \in Members : account[u] # "absent"
    /\ \A c \in Invites : call[c].pc = "grant" => account[Target(c)] # "absent"

\* Two invitations at work on one address disturb it.
Alone == \A u \in Users \ disturbed : \A c, d \in Inviting(u) : c = d

\* An invitation that has made an account is past doing so, ...
NewMade ==
    \A c \in Invites : call[c].isNew => call[c].pc \in {"grant", "mint", "closed"}

\* ... and the new user is no member before that invitation makes it one.
NewOutside ==
    \A c \in Invites : call[c].pc = "grant" /\ call[c].isNew =>
        Target(c) \notin Members \/ Target(c) \in disturbed

\* Somebody will send the link that a pending account needs.
Owed ==
    \A u \in Users : account[u] = "pending" =>
        u \in linked \cup disturbed \/ \E c \in Invites : Owes(c, u)

\* Removals, and only they, delete; an owner among their targets is on record.
LateKnown ==
    /\ \A c \in Calls : call[c].pc \in {"target", "delete"} => c \in Removals
    /\ \A c \in Removals : call[c].pc = "delete" =>
           Target(c) \notin Owners \/ c \in promoted

LinksInv == HasAccount /\ Alone /\ NewMade /\ NewOutside /\ Owed

HistoryInv ==
    IInv /\ KindSteps /\ HistoryTypeOK /\ SeatsInv /\ LinksInv /\ LateKnown

\* What a step of invitation c does to roles, accounts and c itself.
Moves(c, from, to) ==
    /\ call[c].pc = from /\ call'[c].pc = to
    /\ Target(c)' = Target(c) /\ call'[c].isNew = call[c].isNew

InviteEffect(c) ==
    \/ /\ call[c].pc = "start" /\ call'[c].pc = "cap" /\ ~call'[c].isNew
       /\ UNCHANGED <<role, account>>
    \/ /\ UNCHANGED <<role, account>>
       /\ \/ Moves(c, "cap", "member") /\ Cardinality(Members) < Cap
          \/ Moves(c, "member", "user")
          \/ Moves(c, "user", "create")
          \/ Moves(c, "user", "grant") /\ account[Target(c)] # "absent"
          \/ \E from \in {"cap", "member", "create"} : Moves(c, from, "closed")
          \/ Moves(c, "grant", "closed") /\ Target(c) \in Members
          \/ Moves(c, "mint", "closed") /\ Target(c) \in tokens'
    \/ /\ call[c].pc = "create" /\ call'[c].pc = "grant" /\ call'[c].isNew
       /\ Target(c)' = Target(c) /\ UNCHANGED role
       /\ account[Target(c)] = "absent"
       /\ account' = [account EXCEPT ![Target(c)] = "pending"]
    \/ /\ Moves(c, "grant", IF call[c].isNew THEN "mint" ELSE "closed")
       /\ Target(c) \notin Members /\ UNCHANGED account
       /\ role' = [role EXCEPT ![Target(c)] = call[c].grant]

\* A step that moves a call along changes nothing else of it.
LEMMA GotoMoves ==
    ASSUME TypeOK, NEW c \in Calls, NEW step \in Steps, Goto(c, step)
    PROVE  Moves(c, call[c].pc, step)
BY DEF TypeOK, Goto, Moves, Target

LEMMA InviteHasEffect ==
    ASSUME TypeOK, KindSteps, NEW c \in Invites, Invite(c)
    PROVE  InviteEffect(c)
<1>0. /\ c \in Calls /\ c \notin Accepts
      /\ call \in [Calls -> [pc : Steps, caller : Users \cup {Admin, Nobody},
                             target : Users \cup {Nobody}, grant : Roles,
                             isNew : BOOLEAN]]
      BY TeamAssumption DEF Calls, TypeOK
<1>1. CASE BeginInvite(c)
  <2>1. PICK u \in Users \cup {Admin}, t \in Users, g \in {"editor", "viewer"} :
            call' = [call EXCEPT ![c] = [pc |-> "cap", caller |-> u,
                         target |-> t, grant |-> g, isNew |-> FALSE]]
        BY <1>1 DEF BeginInvite, Begin
  <2>2. call'[c].pc = "cap" /\ call'[c].isNew = FALSE
        BY <1>0, <2>1
  <2>3. call[c].pc = "start" /\ UNCHANGED <<role, account>>
        BY <1>1 DEF BeginInvite, Begin, At, team, ids
  <2>. QED BY <2>2, <2>3 DEF InviteEffect
<1>2. CASE CheckCap(c) \/ CheckMember(c) \/ FindUser(c)
  <2>1. UNCHANGED <<role, account>>
        BY <1>2 DEF CheckCap, CheckMember, FindUser, team, ids
  <2>2. CASE CheckCap(c)
        BY <1>0, <2>1, <2>2, GotoMoves DEF CheckCap, At, InviteEffect, Steps
  <2>3. CASE CheckMember(c)
        BY <1>0, <2>1, <2>3, GotoMoves DEF CheckMember, At, InviteEffect, Steps
  <2>4. CASE FindUser(c)
        BY <1>0, <2>1, <2>4, GotoMoves DEF FindUser, At, InviteEffect, Steps
  <2>. QED BY <1>2, <2>2, <2>3, <2>4
<1>3. CASE CreateUser(c)
  <2>1. call[c].pc = "create" /\ UNCHANGED role
        BY <1>3 DEF CreateUser, At, team
  <2>2. CASE account[Target(c)] = "absent"
    <3>1. /\ account' = [account EXCEPT ![Target(c)] = "pending"]
          /\ call' = [call EXCEPT ![c].pc = "grant", ![c].isNew = TRUE]
          BY <1>3, <2>2 DEF CreateUser
    <3>2. call'[c] = [call[c] EXCEPT !.pc = "grant", !.isNew = TRUE]
          BY <1>0, <3>1
    <3>3. call'[c].pc = "grant" /\ call'[c].isNew /\ Target(c)' = Target(c)
          BY <1>0, <3>2 DEF Target
    <3>. QED BY <2>1, <2>2, <3>1, <3>3 DEF InviteEffect
  <2>3. CASE account[Target(c)] # "absent"
    <3>1. Goto(c, "closed") /\ UNCHANGED account
          BY <1>3, <2>3 DEF CreateUser
    <3>2. Moves(c, "create", "closed")
          BY <1>0, <2>1, <3>1, GotoMoves DEF Steps
    <3>. QED BY <2>1, <3>1, <3>2 DEF InviteEffect
  <2>. QED BY <2>2, <2>3
<1>4. CASE Grant(c)
  <2>1. call[c].pc = "grant" /\ UNCHANGED account
        BY <1>4 DEF Grant, At, ids
  <2>2. CASE Target(c) \notin Members
        BY <1>0, <1>4, <2>1, <2>2, GotoMoves DEF Grant, InviteEffect, Steps
  <2>3. CASE Target(c) \in Members
        BY <1>0, <1>4, <2>1, <2>3, GotoMoves DEF Grant, InviteEffect, Steps
  <2>. QED BY <2>2, <2>3
<1>5. CASE MintToken(c)
  <2>1. /\ call[c].pc = "mint" /\ Goto(c, "closed") /\ Target(c) \in tokens'
        /\ UNCHANGED <<role, account>>
        BY <1>5 DEF MintToken, At, team, ids
  <2>2. Moves(c, "mint", "closed")
        BY <1>0, <2>1, GotoMoves DEF Steps
  <2>. QED BY <2>1, <2>2 DEF InviteEffect
<1>. QED BY <1>1, <1>2, <1>3, <1>4, <1>5 DEF Invite

\* What a step of any call does that removals have to answer for.
RemovalEffect(c) ==
    /\ call'[c].pc = "target" => c \in Removals
    /\ call'[c].pc = "delete" => /\ Moves(c, "target", "delete")
                                 /\ UNCHANGED role /\ Target(c) \notin Owners
    /\ \A u \in Members : role'[u] = "none" => /\ Moves(c, "delete", "revoke")
                                               /\ Target(c) = u

LEMMA CallHasRemovalEffect ==
    ASSUME TypeOK, NEW c \in Calls,
           Invite(c) \/ Remove(c) \/ ChangeRole(c) \/ Accept(c) \/ Crash(c)
    PROVE  RemovalEffect(c)
<1>0. /\ call \in [Calls -> [pc : Steps, caller : Users \cup {Admin, Nobody},
                             target : Users \cup {Nobody}, grant : Roles,
                             isNew : BOOLEAN]]
      /\ role \in [Users -> Roles \cup {"none"}]
      BY DEF TypeOK
<1>1. ASSUME UNCHANGED role, call'[c].pc \notin {"target", "delete"}
      PROVE  RemovalEffect(c)
      BY <1>1 DEF RemovalEffect, Members
<1>2. CASE BeginInvite(c) \/ BeginRemoval(c) \/ BeginRoleChange(c)
  <2>1. /\ UNCHANGED role
        /\ call'[c].pc \in {"cap", "target", "demote"}
        /\ call'[c].pc = "target" => c \in Removals
    <3>1. ASSUME NEW step \in Steps, NEW grants, Begin(c, step, grants)
          PROVE  UNCHANGED role /\ call'[c].pc = step
          BY <1>0, <3>1 DEF Begin, team
    <3>. QED BY <1>2, <3>1 DEF BeginInvite, BeginRemoval, BeginRoleChange, Steps
  <2>. QED BY <2>1 DEF RemovalEffect, Members
<1>3. CASE \/ CheckCap(c) \/ CheckMember(c) \/ FindUser(c) \/ CreateUser(c)
           \/ MintToken(c) \/ RevokeSessions(c) \/ BeginAccept(c) \/ Consume(c)
           \/ SignIn(c) \/ Crash(c)
  <2>1. UNCHANGED role
        BY <1>3 DEF CheckCap, CheckMember, FindUser, CreateUser, MintToken,
                    RevokeSessions, BeginAccept, Consume, SignIn, Crash, team
  <2>2. CASE CreateUser(c) \/ BeginAccept(c)
    <3>1. call'[c].pc \in {"grant", "closed", "consume"}
          BY <1>0, <2>2 DEF CreateUser, BeginAccept, Goto
    <3>. QED BY <1>1, <2>1, <3>1
  <2>3. ASSUME NEW step \in {"member", "user", "create", "grant", "signIn", "closed"},
               Goto(c, step)
        PROVE  RemovalEffect(c)
    <3>1. call'[c].pc = step
          BY <1>0, <2>3 DEF Goto
    <3>. QED BY <1>1, <2>1, <3>1
  <2>. QED BY <1>3, <2>2, <2>3 DEF CheckCap, CheckMember, FindUser, MintToken,
                                   RevokeSessions, Consume, SignIn, Crash
<1>4. CASE CheckTarget(c)
  <2>1. call[c].pc = "target" /\ UNCHANGED role
        BY <1>4 DEF CheckTarget, At, team
  <2>2. CASE role[Target(c)] \in {"editor", "viewer"}
    <3>1. Moves(c, "target", "delete")
          BY <1>4, <2>1, <2>2, GotoMoves DEF CheckTarget, Steps
    <3>. QED BY <2>1, <2>2, <3>1 DEF RemovalEffect, Owners, Members, Moves
  <2>3. CASE role[Target(c)] \notin {"editor", "viewer"}
    <3>1. Moves(c, "target", "closed")
          BY <1>4, <2>1, <2>3, GotoMoves DEF CheckTarget, Steps
    <3>. QED BY <1>1, <2>1, <3>1 DEF Moves
  <2>. QED BY <2>2, <2>3
<1>5. CASE DeleteMembership(c)
  <2>1. Moves(c, "delete", "revoke") /\ role' = [role EXCEPT ![Target(c)] = "none"]
        BY <1>5, GotoMoves DEF DeleteMembership, At, Steps
  <2>2. \A u \in Members : role'[u] = "none" => Target(c) = u
        BY <1>0, <2>1 DEF Members
  <2>. QED BY <2>1, <2>2 DEF RemovalEffect, Moves
<1>6. CASE Grant(c) \/ Demote(c) \/ SetRole(c)
  <2>1. PICK step \in {"mint", "set", "closed"} : Goto(c, step)
        BY <1>6 DEF Grant, Demote, SetRole
  <2>2. call'[c].pc \notin {"target", "delete"}
        BY <1>0, <2>1 DEF Goto
  <2>3. call[c].grant \in Roles
        BY <1>0
  <2>4. \A u \in Members : role'[u] # "none"
        BY <1>0, <1>6, <2>3 DEF Grant, Demote, SetRole, team, Members, Roles
  <2>. QED BY <2>2, <2>4 DEF RemovalEffect
<1>. QED BY <1>2, <1>3, <1>4, <1>5, <1>6 DEF Invite, Remove, ChangeRole, Accept

\* The record keeps its types, and says by itself who was not alone.
LEMMA RecordedKeepsTypes ==
    ASSUME HistoryTypeOK, TypeOK', NEW cut \in SUBSET Users, Recorded(cut)
    PROVE  HistoryTypeOK' /\ Alone'
<1>1. HistoryTypeOK'
      BY DEF HistoryTypeOK, Recorded, TypeOK
<1>2. Alone'
      BY DEF Recorded, Alone
<1>. QED BY <1>1, <1>2

\* A step that leaves the invitations alone, adds no member and sets no account
\* but to "active".
LEMMA RestKeeps ==
    ASSUME HistoryInv, NEW cut, Recorded(cut),
           \A d \in Invites : call'[d] = call[d],
           Members' \subseteq Members,
           \A u \in Users : account'[u] \in {account[u], "active"}
    PROVE  SeatsInv' /\ HasAccount' /\ NewMade' /\ NewOutside' /\ Owed'
<1>1. \A d \in Invites : Target(d)' = Target(d)
      BY DEF Target
<1>2. Booked' = Booked
      BY DEF Booked
<1>3. overbooked' = overbooked
      BY <1>2 DEF Recorded
<1>4. linked \subseteq linked' /\ disturbed \subseteq disturbed'
      BY DEF Recorded
<1>5. SeatsInv'
  <2>1. IsFiniteSet(Members') /\ Cardinality(Members') <= Cardinality(Members)
        BY FS_Subset DEF HistoryInv, SeatsInv
  <2>2. Cardinality(Members') \in Nat /\ Cardinality(Members) \in Nat
        BY <2>1, FS_CardinalityType DEF HistoryInv, SeatsInv
  <2>3. IsFiniteSet(Booked) /\ Cardinality(Booked) \in Nat
        BY FS_CardinalityType DEF HistoryInv, SeatsInv
  <2>4. Cardinality(Members) + Cardinality(Booked) <= Cap + overbooked
        BY DEF HistoryInv, SeatsInv, SeatsKept
  <2>5. overbooked \in Nat /\ Cap \in Nat
        BY TeamAssumption DEF HistoryInv, HistoryTypeOK
  <2>6. Cardinality(Members') + Cardinality(Booked') <= Cap + overbooked'
        BY <1>2, <1>3, <2>1, <2>2, <2>3, <2>4, <2>5
  <2>. QED BY <1>2, <2>1, <2>3, <2>6 DEF SeatsInv, SeatsKept
<1>6. HasAccount'
  <2>1. \A u \in Members' : account'[u] # "absent"
        BY DEF HistoryInv, LinksInv, HasAccount, Members
  <2>2. \A d \in Invites : call[d].pc = "grant" => Target(d) \in Users
        BY DEF HistoryInv, IInv, HasTarget, Calls
  <2>3. \A d \in Invites : call'[d].pc = "grant" => account'[Target(d)'] # "absent"
        BY <1>1, <2>2 DEF HistoryInv, LinksInv, HasAccount
  <2>. QED BY <2>1, <2>3 DEF HasAccount
<1>7. NewMade'
      BY DEF HistoryInv, LinksInv, NewMade
<1>8. NewOutside'
      BY <1>1, <1>4 DEF HistoryInv, LinksInv, NewOutside
<1>9. Owed'
  <2>1. SUFFICES ASSUME NEW u \in Users, account'[u] = "pending"
                 PROVE  u \in linked' \cup disturbed' \/ \E c \in Invites : Owes(c, u)'
        BY DEF Owed
  <2>2. account[u] = "pending"
        BY <2>1
  <2>3. CASE u \in linked \cup disturbed
        BY <1>4, <2>3
  <2>4. ASSUME NEW c \in Invites, Owes(c, u) PROVE Owes(c, u)'
        BY <1>1, <2>4 DEF Owes, Inviting
  <2>. QED BY <2>2, <2>3, <2>4 DEF HistoryInv, LinksInv, Owed
<1>. QED BY <1>5, <1>6, <1>7, <1>8, <1>9

\* Seats: an invitation that takes a seat, one that turns it into a membership, and
\* one that gives it up.
LEMMA SeatsBooked ==
    ASSUME SeatsInv, overbooked \in Nat, NEW cut, Recorded(cut), NEW c \in Invites \ Booked,
           Booked' = Booked \cup {c}, UNCHANGED role, Cardinality(Members) < Cap
    PROVE  SeatsInv'
<1>1. Members' = Members
      BY DEF Members
<1>2. /\ IsFiniteSet(Booked') /\ Cardinality(Booked') = Cardinality(Booked) + 1
      /\ Cardinality(Booked) \in Nat /\ Cardinality(Members) \in Nat
  <2>1. IsFiniteSet(Booked) /\ IsFiniteSet(Members)
        BY DEF SeatsInv
  <2>2. c \notin Booked
        OBVIOUS
  <2>. QED BY <2>1, <2>2, FS_AddElement, FS_CardinalityType
<1>3. Cap \in Nat
      BY TeamAssumption
<1>4. CASE Booked = {}
  <2>1. Cardinality(Booked) = 0
        BY <1>4, FS_EmptySet
  <2>2. Cardinality(Members) + Cardinality(Booked') <= Cap
        BY <1>2, <1>3, <2>1
  <2>3. overbooked' = overbooked
        BY <1>4 DEF Recorded
  <2>4. Cardinality(Members) + Cardinality(Booked') <= Cap + overbooked'
        BY <1>2, <1>3, <2>2, <2>3
  <2>. QED BY <1>1, <1>2, <2>4 DEF SeatsInv, SeatsKept
<1>5. CASE Booked # {} /\ Cardinality(Members) + Cardinality(Booked) >= Cap
  <2>1. Booked' \ Booked # {}
        OBVIOUS
  <2>2. overbooked' = overbooked + 1
        BY <1>5, <2>1 DEF Recorded
  <2>3. Cardinality(Members) + Cardinality(Booked) <= Cap + overbooked
        BY DEF SeatsInv, SeatsKept
  <2>4. Cardinality(Members) + Cardinality(Booked') <= Cap + overbooked'
        BY <1>2, <1>3, <2>2, <2>3
  <2>. QED BY <1>1, <1>2, <2>4 DEF SeatsInv, SeatsKept
<1>6. CASE Booked # {} /\ ~(Cardinality(Members) + Cardinality(Booked) >= Cap)
  <2>1. overbooked' = overbooked
        BY <1>6 DEF Recorded
  <2>2. Cardinality(Members) + Cardinality(Booked') <= Cap + overbooked'
        BY <1>2, <1>3, <1>6, <2>1
  <2>. QED BY <1>1, <1>2, <2>2 DEF SeatsInv, SeatsKept
<1>. QED BY <1>4, <1>5, <1>6

LEMMA SeatsTaken ==
    ASSUME SeatsInv, overbooked \in Nat, NEW cut, Recorded(cut), NEW c \in Booked,
           Booked' = Booked \ {c}, NEW u, Members' \subseteq Members \cup {u}
    PROVE  SeatsInv'
<1>1. overbooked' = overbooked
  <2>1. Booked' \ Booked = {}
        OBVIOUS
  <2>. QED BY <2>1 DEF Recorded
<1>2. IsFiniteSet(Booked) /\ IsFiniteSet(Members) /\ Cap \in Nat
      BY TeamAssumption DEF SeatsInv
<1>3. /\ IsFiniteSet(Booked') /\ Cardinality(Booked') = Cardinality(Booked) - 1
      /\ Cardinality(Booked) \in Nat /\ Cardinality(Members) \in Nat
      BY <1>2, FS_RemoveElement, FS_CardinalityType
<1>4. /\ IsFiniteSet(Members \cup {u})
      /\ Cardinality(Members \cup {u}) <= Cardinality(Members) + 1
      /\ Cardinality(Members \cup {u}) \in Nat
  <2>1. /\ IsFiniteSet(Members \cup {u})
        /\ Cardinality(Members \cup {u}) = IF u \in Members THEN Cardinality(Members)
                                           ELSE Cardinality(Members) + 1
        BY <1>2, FS_AddElement
  <2>. QED BY <1>3, <2>1
<1>5. /\ IsFiniteSet(Members')
      /\ Cardinality(Members') <= Cardinality(Members \cup {u})
      BY <1>4, FS_Subset
<1>6. Cardinality(Members') \in Nat
      BY <1>5, FS_CardinalityType
<1>7. Cardinality(Members) + Cardinality(Booked) <= Cap + overbooked
      BY DEF SeatsInv, SeatsKept
<1>8. Cardinality(Members') + Cardinality(Booked') <= Cap + overbooked'
      BY <1>1, <1>2, <1>3, <1>4, <1>5, <1>6, <1>7
<1>. QED BY <1>3, <1>5, <1>8 DEF SeatsInv, SeatsKept

LEMMA SeatsLeft ==
    ASSUME SeatsInv, overbooked \in Nat, NEW cut, Recorded(cut),
           Booked' \subseteq Booked, UNCHANGED role
    PROVE  SeatsInv'
<1>1. overbooked' = overbooked
  <2>1. Booked' \ Booked = {}
        OBVIOUS
  <2>. QED BY <2>1 DEF Recorded
<1>2. Members' = Members
      BY DEF Members
<1>3. IsFiniteSet(Booked) /\ IsFiniteSet(Members) /\ Cap \in Nat
      BY TeamAssumption DEF SeatsInv
<1>4. /\ IsFiniteSet(Booked') /\ Cardinality(Booked') <= Cardinality(Booked)
      /\ Cardinality(Booked) \in Nat /\ Cardinality(Members) \in Nat
      BY <1>3, FS_Subset, FS_CardinalityType
<1>5. Cardinality(Booked') \in Nat
      BY <1>4, FS_CardinalityType
<1>6. Cardinality(Members) + Cardinality(Booked) <= Cap + overbooked
      BY DEF SeatsInv, SeatsKept
<1>7. Cardinality(Members) + Cardinality(Booked') <= Cap + overbooked'
      BY <1>1, <1>3, <1>4, <1>5, <1>6
<1>. QED BY <1>2, <1>3, <1>4, <1>7 DEF SeatsInv, SeatsKept

\* Seats over a step of an invitation, whole or cut short.
LEMMA InviteKeepsSeats ==
    ASSUME HistoryInv, NEW cut, Recorded(cut), NEW c \in Invites,
           \A d \in Calls \ {c} : call'[d] = call[d],
           \/ InviteEffect(c)
           \/ call'[c].pc = "closed" /\ UNCHANGED role
    PROVE  SeatsInv'
<1>0. /\ SeatsInv /\ overbooked \in Nat
      /\ \A d \in Invites \ {c} : call'[d] = call[d]
      BY DEF HistoryInv, HistoryTypeOK, Calls
<1>1. CASE c \notin Booked /\ c \in Booked'
  <2>1. Booked' = Booked \cup {c}
        BY <1>0, <1>1 DEF Booked
  <2>2. call[c].pc \notin {"member", "user", "create", "grant"}
        BY <1>1 DEF Booked
  <2>3. call'[c].pc \in {"member", "user", "create", "grant"}
        BY <1>1 DEF Booked
  <2>4. UNCHANGED role /\ Cardinality(Members) < Cap
        BY <2>2, <2>3 DEF InviteEffect, Moves
  <2>. QED BY <1>0, <1>1, <2>1, <2>4, SeatsBooked
<1>2. CASE Booked' \subseteq Booked /\ UNCHANGED role
      BY <1>0, <1>2, SeatsLeft
<1>3. CASE c \in Booked /\ c \notin Booked'
  <2>1. Booked' = Booked \ {c}
        BY <1>0, <1>3 DEF Booked
  <2>2. Members' \subseteq Members \cup {Target(c)}
        BY DEF HistoryInv, IInv, TypeOK, InviteEffect, Members
  <2>. QED BY <1>0, <1>3, <2>1, <2>2, SeatsTaken
<1>4. CASE c \in Booked <=> c \in Booked'
  <2>1. Booked' = Booked
        BY <1>0, <1>4 DEF Booked
  <2>2. UNCHANGED role
        BY <1>4 DEF Booked, InviteEffect, Moves
  <2>. QED BY <1>2, <2>1, <2>2
<1>. QED BY <1>1, <1>3, <1>4

\* Accounts and links over a step of an invitation.
LEMMA InviteKeepsLinks ==
    ASSUME HistoryInv, NEW cut, Recorded(cut), NEW c \in Invites,
           \A d \in Calls \ {c} : call'[d] = call[d],
           InviteEffect(c)
    PROVE  HasAccount' /\ NewMade' /\ NewOutside' /\ Owed'
<1>0. /\ \A d \in Invites \ {c} : call'[d] = call[d] /\ Target(d)' = Target(d)
      /\ \A d \in Invites : call[d].pc \notin {"start", "closed"} => Target(d) \in Users
      /\ account \in [Users -> {"absent", "pending", "active"}]
      /\ role \in [Users -> Roles \cup {"none"}]
      /\ HasAccount /\ Alone /\ NewMade /\ NewOutside /\ Owed
      BY DEF HistoryInv, IInv, TypeOK, HasTarget, LinksInv, Calls, Target
<1>1. linked \cup tokens' \subseteq linked' /\ disturbed \subseteq disturbed'
      BY DEF Recorded
<1>2. ASSUME NEW u \in Users, account[u] # "absent"
      PROVE  account'[u] = account[u]
      BY <1>0, <1>2 DEF InviteEffect
<1>3. ASSUME NEW u \in Members' \ Members
      PROVE  u = Target(c) /\ call[c].pc = "grant"
      BY <1>0, <1>3 DEF InviteEffect, Members, Moves
<1>4. HasAccount'
  <2>1. ASSUME NEW u \in Members' PROVE account'[u] # "absent"
    <3>1. u \in Users
          BY DEF Members
    <3>2. account[u] # "absent"
          BY <1>0, <1>3 DEF HasAccount
    <3>. QED BY <1>2, <3>1, <3>2
  <2>2. ASSUME NEW d \in Invites \ {c}, call'[d].pc = "grant"
        PROVE  account'[Target(d)'] # "absent"
    <3>1. call[d].pc = "grant" /\ Target(d)' = Target(d)
          BY <1>0, <2>2
    <3>2. Target(d) \in Users /\ account[Target(d)] # "absent"
          BY <1>0, <3>1 DEF HasAccount
    <3>. QED BY <1>2, <3>1, <3>2
  <2>3. ASSUME call'[c].pc = "grant" PROVE account'[Target(c)'] # "absent"
    <3>1. /\ Target(c)' = Target(c) /\ Target(c) \in Users
          /\ \/ UNCHANGED account /\ account[Target(c)] # "absent"
             \/ account' = [account EXCEPT ![Target(c)] = "pending"]
          BY <1>0, <2>3 DEF InviteEffect, Moves
    <3>. QED BY <1>0, <3>1
  <2>. QED BY <2>1, <2>2, <2>3 DEF HasAccount
<1>5. NewMade'
  <2>1. call'[c].isNew => call'[c].pc \in {"grant", "mint", "closed"}
        BY <1>0 DEF NewMade, InviteEffect, Moves
  <2>. QED BY <1>0, <2>1 DEF NewMade
<1>6. NewOutside'
  <2>1. ASSUME NEW d \in Invites \ {c}, call'[d].pc = "grant", call'[d].isNew
        PROVE  Target(d)' \notin Members' \/ Target(d)' \in disturbed'
    <3>1. call[d].pc = "grant" /\ call[d].isNew /\ Target(d)' = Target(d)
          BY <1>0, <2>1
    <3>2. CASE Target(d) \in disturbed
          BY <1>1, <3>1, <3>2
    <3>3. CASE Target(d) \notin disturbed
      <4>1. Target(d) \notin Members
            BY <1>0, <3>1, <3>3 DEF NewOutside
      <4>2. Target(d) \notin Members' \ Members
        <5>1. SUFFICES ASSUME Target(d) \in Members' \ Members PROVE FALSE
              OBVIOUS
        <5>2. Target(d) = Target(c) /\ call[c].pc = "grant"
              BY <1>3, <5>1
        <5>3. Target(d) \in Users \ disturbed
              BY <1>0, <3>1, <3>3
        <5>4. c \in Inviting(Target(d)) /\ d \in Inviting(Target(d))
              BY <3>1, <5>2 DEF Inviting
        <5>5. \A e, f \in Inviting(Target(d)) : e = f
              BY <1>0, <5>3 DEF Alone
        <5>. QED BY <5>4, <5>5
      <4>. QED BY <3>1, <4>1, <4>2
    <3>. QED BY <3>2, <3>3
  <2>2. ASSUME call'[c].pc = "grant", call'[c].isNew
        PROVE  Target(c)' \notin Members' \/ Target(c)' \in disturbed'
    <3>1. /\ Target(c)' = Target(c) /\ UNCHANGED role
          /\ call[c].pc = "create" /\ account[Target(c)] = "absent"
          BY <1>0, <2>2 DEF NewMade, InviteEffect, Moves
    <3>2. Target(c) \notin Members
          BY <1>0, <3>1 DEF HasAccount
    <3>3. Members' = Members
          BY <3>1 DEF Members
    <3>. QED BY <3>1, <3>2, <3>3
  <2>. QED BY <2>1, <2>2 DEF NewOutside
<1>7. Owed'
  <2>1. SUFFICES ASSUME NEW u \in Users, account'[u] = "pending"
                 PROVE  u \in linked' \cup disturbed' \/ \E d \in Invites : Owes(d, u)'
        BY DEF Owed
  <2>2. CASE account[u] = "pending"
    <3>1. CASE u \in linked \cup disturbed
          BY <1>1, <3>1
    <3>2. ASSUME NEW d \in Invites \ {c}, Owes(d, u)
          PROVE  Owes(d, u)'
          BY <1>0, <3>2 DEF Owes, Inviting
    <3>3. ASSUME Owes(c, u)
          PROVE  u \in linked' \cup disturbed' \/ Owes(c, u)'
      <4>1. /\ Target(c) = u /\ call[c].isNew /\ call[c].pc \in {"grant", "mint"}
            BY <3>3 DEF Owes, Inviting
      <4>2. \/ Moves(c, "grant", "mint")
            \/ Moves(c, "grant", "closed") /\ Target(c) \in Members
            \/ Moves(c, "mint", "closed") /\ Target(c) \in tokens'
            BY <4>1 DEF InviteEffect, Moves
      <4>. QED BY <1>0, <1>1, <4>1, <4>2 DEF Owes, Inviting, Moves, NewOutside
    <3>. QED BY <1>0, <2>2, <3>1, <3>2, <3>3 DEF Owed
  <2>3. CASE account[u] # "pending"
    <3>1. /\ Target(c)' = Target(c) /\ u = Target(c)
          /\ call'[c].pc = "grant" /\ call'[c].isNew
          BY <1>0, <2>1, <2>3 DEF InviteEffect
    <3>. QED BY <3>1 DEF Owes, Inviting
  <2>. QED BY <2>2, <2>3
<1>. QED BY <1>4, <1>5, <1>6, <1>7

\* An invitation that dies disturbs the user whose account it has made.
LEMMA CutKeepsLinks ==
    ASSUME HistoryInv, NEW c \in Invites, Recorded({u \in Users : Owes(c, u)}),
           \A d \in Calls \ {c} : call'[d] = call[d],
           Moves(c, call[c].pc, "closed"), UNCHANGED <<role, account>>
    PROVE  HasAccount' /\ NewMade' /\ NewOutside' /\ Owed'
<1>0. /\ \A d \in Invites \ {c} : call'[d] = call[d]
      /\ \A d \in Invites : Target(d)' = Target(d)
      /\ HasAccount /\ NewMade /\ NewOutside /\ Owed
      BY DEF HistoryInv, LinksInv, Calls, Moves, Target
<1>1. linked \subseteq linked' /\ disturbed \cup {u \in Users : Owes(c, u)} \subseteq disturbed'
      BY DEF Recorded
<1>2. call'[c].pc = "closed"
      BY DEF Moves
<1>3. Members' = Members
      BY DEF Members
<1>4. HasAccount' /\ NewMade' /\ NewOutside'
      BY <1>0, <1>1, <1>2, <1>3 DEF HasAccount, NewMade, NewOutside
<1>5. Owed'
  <2>1. SUFFICES ASSUME NEW u \in Users, account[u] = "pending"
                 PROVE  u \in linked' \cup disturbed' \/ \E d \in Invites : Owes(d, u)'
        BY DEF Owed
  <2>2. CASE u \in linked \cup disturbed
        BY <1>1, <2>2
  <2>3. ASSUME NEW d \in Invites \ {c}, Owes(d, u) PROVE Owes(d, u)'
        BY <1>0, <2>3 DEF Owes, Inviting
  <2>4. ASSUME Owes(c, u) PROVE u \in disturbed'
        BY <1>1, <2>4
  <2>. QED BY <1>0, <2>1, <2>2, <2>3, <2>4 DEF Owed
<1>. QED BY <1>4, <1>5

\* Removals over a step of any call.
LEMMA CallKeepsLate ==
    ASSUME HistoryInv, NEW cut, Recorded(cut), NEW c \in Calls,
           \A d \in Calls \ {c} : call'[d] = call[d],
           RemovalEffect(c)
    PROVE  LateKnown'
<1>1. \A d \in Calls : call'[d].pc \in {"target", "delete"} => d \in Removals
  <2>1. call'[c].pc \in {"target", "delete"} => c \in Removals
        BY DEF RemovalEffect, HistoryInv, LateKnown, Moves
  <2>. QED BY <2>1 DEF HistoryInv, LateKnown
<1>2. ASSUME NEW d \in Removals, call'[d].pc = "delete"
      PROVE  Target(d)' \notin Owners' \/ d \in promoted'
  <2>1. CASE d = c
    <3>1. Target(c)' = Target(c) /\ UNCHANGED role /\ Target(c) \notin Owners
          BY <1>2, <2>1 DEF RemovalEffect, Moves
    <3>2. Owners' = Owners
          BY <3>1 DEF Owners
    <3>. QED BY <2>1, <3>1, <3>2
  <2>2. CASE d # c
    <3>1. call'[d] = call[d] /\ Target(d)' = Target(d)
          BY <2>2 DEF Calls, Target
    <3>2. call[d].pc = "delete"
          BY <1>2, <3>1
    <3>3. Target(d) \notin Owners \/ d \in promoted
          BY <3>2 DEF HistoryInv, LateKnown
    <3>4. /\ promoted \subseteq promoted'
          /\ Target(d) \in Owners' \ Owners => d \in promoted'
          BY <3>2 DEF Recorded
    <3>. QED BY <3>1, <3>3, <3>4
  <2>. QED BY <2>1, <2>2
<1>. QED BY <1>1, <1>2 DEF LateKnown

\* Only an invitation makes an account, and no call unmakes one.
LEMMA OthersKeepAccounts ==
    ASSUME TypeOK, NEW c \in Calls \ Invites, KindSteps,
           Invite(c) \/ Remove(c) \/ ChangeRole(c) \/ Accept(c) \/ Crash(c)
    PROVE  \A u \in Users : account'[u] \in {account[u], "active"}
<1>1. CASE CreateUser(c)
      BY <1>1 DEF CreateUser, At, KindSteps, OtherSteps
<1>2. CASE Consume(c)
      BY <1>2 DEF Consume, ids, TypeOK
<1>3. CASE \/ BeginInvite(c) \/ CheckCap(c) \/ CheckMember(c) \/ FindUser(c)
           \/ Grant(c) \/ MintToken(c) \/ Remove(c) \/ ChangeRole(c)
           \/ BeginAccept(c) \/ SignIn(c) \/ Crash(c)
  <2>1. UNCHANGED account
    <3>1. CASE BeginInvite(c) \/ BeginRemoval(c) \/ BeginRoleChange(c)
          BY <3>1 DEF BeginInvite, BeginRemoval, BeginRoleChange, Begin, ids
    <3>2. CASE CheckCap(c) \/ CheckMember(c) \/ FindUser(c) \/ Grant(c) \/ MintToken(c)
          BY <3>2 DEF CheckCap, CheckMember, FindUser, Grant, MintToken, ids
    <3>3. CASE CheckTarget(c) \/ DeleteMembership(c) \/ RevokeSessions(c)
          BY <3>3 DEF CheckTarget, DeleteMembership, RevokeSessions, ids
    <3>4. CASE Demote(c) \/ SetRole(c) \/ BeginAccept(c) \/ SignIn(c) \/ Crash(c)
          BY <3>4 DEF Demote, SetRole, BeginAccept, SignIn, Crash, ids
    <3>. QED BY <1>3, <3>1, <3>2, <3>3, <3>4 DEF Remove, ChangeRole
  <2>. QED BY <2>1
<1>. QED BY <1>1, <1>2, <1>3 DEF Invite, Accept

\* A step of a call, recorded, keeps the whole invariant.
LEMMA CallKeepsHistory ==
    ASSUME HistoryInv, NEW c \in Calls, NEW cut \in SUBSET Users, Recorded(cut),
           \/ Invite(c) \/ Remove(c) \/ ChangeRole(c) \/ Accept(c)
           \/ Crash(c) /\ cut = {u \in Users : Owes(c, u)}
    PROVE  HistoryInv'
<1>0. TypeOK /\ KindSteps
      BY DEF HistoryInv, IInv
<1>1. Next
      BY DEF Next
<1>2. IInv' /\ KindSteps'
      BY <1>0, <1>1, NextIInv, NextAdds DEF HistoryInv
<1>3. HistoryTypeOK' /\ Alone'
      BY <1>2, RecordedKeepsTypes DEF HistoryInv, IInv
<1>4. /\ \A d \in Calls \ {c} : call'[d] = call[d]
      /\ call'[c].pc \in IF c \in Invites THEN InviteSteps ELSE OtherSteps
      /\ Adds(c)
      BY <1>0, CallStepAdds
<1>5. RemovalEffect(c)
      BY <1>0, CallHasRemovalEffect
<1>6. LateKnown'
      BY <1>4, <1>5, CallKeepsLate
<1>7. SeatsInv' /\ HasAccount' /\ NewMade' /\ NewOutside' /\ Owed'
  <2>1. CASE c \notin Invites
    <3>1. \A d \in Invites : call'[d] = call[d]
          BY <1>4, <2>1 DEF Calls
    <3>2. Members' \subseteq Members
          BY <1>4, <2>1 DEF Adds, Members
    <3>3. \A u \in Users : account'[u] \in {account[u], "active"}
          BY <1>0, <2>1, OthersKeepAccounts
    <3>. QED BY <3>1, <3>2, <3>3, RestKeeps
  <2>2. CASE c \in Invites /\ Crash(c) /\ cut = {u \in Users : Owes(c, u)}
    <3>1. Moves(c, call[c].pc, "closed") /\ UNCHANGED <<role, account>>
          BY <1>0, <2>2, GotoMoves DEF Crash, team, ids, Steps
    <3>2. SeatsInv'
          BY <1>4, <2>2, <3>1, InviteKeepsSeats DEF Moves
    <3>. QED BY <1>4, <2>2, <3>1, <3>2, CutKeepsLinks
  <2>3. CASE /\ c \in Invites
             /\ Invite(c) \/ Remove(c) \/ ChangeRole(c) \/ Accept(c)
    <3>1. Invite(c)
      <4>1. call[c].pc \in InviteSteps /\ c \notin Removals \cup RoleChanges \cup Accepts
            BY <1>0, <2>3, TeamAssumption DEF KindSteps
      <4>2. ~Remove(c) /\ ~ChangeRole(c) /\ ~Accept(c)
            BY <4>1 DEF Remove, BeginRemoval, CheckTarget, DeleteMembership,
                 RevokeSessions, ChangeRole, BeginRoleChange, Demote, SetRole,
                 Accept, BeginAccept, Consume, SignIn, At, InviteSteps
      <4>. QED BY <2>3, <4>2
    <3>2. InviteEffect(c)
          BY <1>0, <2>3, <3>1, InviteHasEffect
    <3>3. SeatsInv'
          BY <1>4, <2>3, <3>2, InviteKeepsSeats
    <3>. QED BY <1>4, <2>3, <3>2, <3>3, InviteKeepsLinks
  <2>. QED BY <2>1, <2>2, <2>3
<1>. QED BY <1>2, <1>3, <1>6, <1>7 DEF HistoryInv, LinksInv

LEMMA InitHistoryInv == HistoryInit => HistoryInv
<1> SUFFICES ASSUME HistoryInit PROVE HistoryInv
    OBVIOUS
<1>1. Init /\ overbooked = 0 /\ linked = {} /\ disturbed = {} /\ promoted = {}
      BY DEF HistoryInit
<1>2. IInv /\ KindSteps
      BY <1>1, InitIInv DEF Init, KindSteps, InviteSteps, OtherSteps
<1>3. HistoryTypeOK
      BY <1>1, <1>2 DEF IInv, HistoryTypeOK
<1>4. /\ \A c \in Calls : call[c].pc = "start" /\ ~call[c].isNew
      /\ \A u \in Users : account[u] \in {"absent", "active"}
      BY <1>1 DEF Init
<1>5. Members = {Founder} /\ Booked = {} /\ \A u : Inviting(u) = {}
      BY <1>1, <1>4, TeamAssumption DEF Init, Members, Booked, Inviting, Calls
<1>6. SeatsInv
  <2>1. /\ IsFiniteSet({Founder}) /\ Cardinality({Founder}) = 1
        /\ IsFiniteSet({}) /\ Cardinality({}) = 0
        BY FS_EmptySet, FS_Singleton
  <2>2. Cap + overbooked >= 1
        BY <1>1, TeamAssumption
  <2>3. /\ IsFiniteSet(Members) /\ Cardinality(Members) = 1
        /\ IsFiniteSet(Booked) /\ Cardinality(Booked) = 0
        BY <1>5, <2>1
  <2>. QED BY <2>2, <2>3 DEF SeatsInv, SeatsKept
<1>7. LinksInv
  <2>1. account[Founder] # "absent"
        BY <1>1, TeamAssumption DEF Init
  <2>2. \A c \in Invites : call[c].pc = "start" /\ ~call[c].isNew
        BY <1>4 DEF Calls
  <2>3. HasAccount /\ NewMade /\ NewOutside
        BY <1>5, <2>1, <2>2 DEF HasAccount, NewMade, NewOutside
  <2>4. Alone /\ Owed
        BY <1>4, <1>5 DEF Alone, Owed
  <2>. QED BY <2>3, <2>4 DEF LinksInv
<1>8. LateKnown
      BY <1>4 DEF LateKnown, Calls
<1>. QED BY <1>2, <1>3, <1>6, <1>7, <1>8 DEF HistoryInv

LEMMA NextHistoryInv == HistoryInv /\ [HistoryNext]_historyVars => HistoryInv'
<1> SUFFICES ASSUME HistoryInv, [HistoryNext]_historyVars PROVE HistoryInv'
    OBVIOUS
<1>1. ASSUME NEW c \in Calls, Invite(c) \/ Remove(c) \/ ChangeRole(c) \/ Accept(c),
             Recorded({})
      PROVE  HistoryInv'
      BY <1>1, CallKeepsHistory
<1>2. ASSUME NEW c \in Calls, Crash(c), Recorded({u \in Users : Owes(c, u)})
      PROVE  HistoryInv'
      BY <1>2, CallKeepsHistory
<1>3. ASSUME NEW u \in Users, TokenExpires(u), Recorded({})
      PROVE  HistoryInv'
  <2>1. UNCHANGED <<role, account, call>>
        BY <1>3 DEF TokenExpires, team, ids
  <2>2. IInv' /\ KindSteps'
        BY <1>3, <2>1, ExpiryKeeps DEF HistoryInv, KindSteps
  <2>3. HistoryTypeOK' /\ Alone'
        BY <1>3, <2>2, RecordedKeepsTypes DEF HistoryInv, IInv
  <2>4. Members' = Members /\ Owners' = Owners
        BY <2>1 DEF Members, Owners
  <2>5. SeatsInv' /\ HasAccount' /\ NewMade' /\ NewOutside' /\ Owed'
        BY <1>3, <2>1, <2>4, RestKeeps
  <2>6. LateKnown'
        BY <1>3, <2>1, <2>4 DEF HistoryInv, LateKnown, Recorded, Target
  <2>. QED BY <2>2, <2>3, <2>5, <2>6 DEF HistoryInv, LinksInv
<1>4. CASE UNCHANGED historyVars
  <2>1. UNCHANGED vars /\ UNCHANGED record
        BY <1>4 DEF historyVars
  <2>2. IInv' /\ KindSteps'
        BY <2>1, NextIInv DEF HistoryInv, KindSteps, vars
  <2>3. HistoryTypeOK'
        BY <2>1, <2>2 DEF HistoryInv, HistoryTypeOK, record, IInv
  <2>4. SeatsInv'
        BY <2>1 DEF HistoryInv, SeatsInv, SeatsKept, Members, Booked, vars, record
  <2>5. LinksInv'
        BY <2>1 DEF HistoryInv, LinksInv, HasAccount, Alone, NewMade, NewOutside,
                    Owed, Owes, Inviting, Members, Target, vars, record
  <2>6. LateKnown'
        BY <2>1 DEF HistoryInv, LateKnown, Owners, Target, vars, record
  <2>. QED BY <2>2, <2>3, <2>4, <2>5, <2>6 DEF HistoryInv
<1>. QED BY <1>1, <1>2, <1>3, <1>4 DEF HistoryNext

\* The plan's seats (planCap in handleInviteTeam) are exceeded by no more
\* memberships than invitations that counted the seats while others, counted
\* before, were on their way to the last ones.
THEOREM TeamSeatsKept == HistorySpec => []SeatsKept
<1>1. HistoryInv => SeatsKept
      BY DEF HistoryInv, SeatsInv
<1>. QED BY InitHistoryInv, NextHistoryInv, <1>1, PTL DEF HistorySpec

\* A member whose account an invitation made and nobody has accepted was given a
\* link or is about to be (handleInviteTeam), unless the invitation that made the
\* account was cut short or another of the same address ran next to it.
THEOREM TeamLinkSent == HistorySpec => []LinkSent
<1>1. HistoryInv => LinkSent
  <2>1. SUFFICES ASSUME HistoryInv, NEW u \in Members, account[u] = "pending"
                 PROVE  \/ u \in linked \cup disturbed
                        \/ \E c \in Inviting(u) : call[c].pc = "mint"
        BY DEF LinkSent
  <2>2. CASE u \in linked \cup disturbed
        BY <2>2
  <2>3. ASSUME NEW c \in Invites, Owes(c, u)
        PROVE  u \in disturbed \/ (c \in Inviting(u) /\ call[c].pc = "mint")
        BY <2>1, <2>3 DEF HistoryInv, LinksInv, NewOutside, Owes, Inviting
  <2>. QED BY <2>1, <2>2, <2>3 DEF HistoryInv, LinksInv, Owed, Members
<1>. QED BY InitHistoryInv, NextHistoryInv, <1>1, PTL DEF HistorySpec

\* A removal (handleRemoveTeam) takes an owner out of the team only when a
\* promotion came between its look at the role and its DELETE.
THEOREM TeamOwnersStay == HistorySpec => OwnersStay
<1>1. HistoryInv /\ [HistoryNext]_historyVars =>
        [\A u \in Owners : role'[u] = "none" =>
            \E c \in promoted : /\ Target(c) = u
                                /\ call[c].pc = "delete" /\ call'[c].pc = "revoke"]_historyVars
  <2>1. SUFFICES ASSUME HistoryInv, HistoryNext, NEW u \in Owners, role'[u] = "none"
                 PROVE  \E c \in promoted : /\ Target(c) = u
                                            /\ call[c].pc = "delete"
                                            /\ call'[c].pc = "revoke"
        OBVIOUS
  <2>2. u \in Members
        BY DEF Owners, Members
  <2>3. ASSUME NEW v \in Users, TokenExpires(v) PROVE FALSE
        BY <2>1, <2>2, <2>3 DEF TokenExpires, team, Members
  <2>4. PICK c \in Calls :
            Invite(c) \/ Remove(c) \/ ChangeRole(c) \/ Accept(c) \/ Crash(c)
        BY <2>1, <2>3 DEF HistoryNext
  <2>5. RemovalEffect(c)
        BY <2>1, <2>4, CallHasRemovalEffect DEF HistoryInv, IInv
  <2>6. Moves(c, "delete", "revoke") /\ Target(c) = u
        BY <2>1, <2>2, <2>5 DEF RemovalEffect
  <2>7. c \in promoted
        BY <2>1, <2>6 DEF HistoryInv, LateKnown, Moves
  <2>. QED BY <2>6, <2>7 DEF Moves
<1>. QED BY InitHistoryInv, NextHistoryInv, <1>1, PTL DEF HistorySpec, OwnersStay
=============================================================================
