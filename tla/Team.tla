-------------------------------- MODULE Team --------------------------------
(***************************************************************************)
(* The team of one tenant: invitations, removals, role changes and the      *)
(* acceptance of an invitation (worker, routes/team.ts).  Every D1 query of  *)
(* a handler is awaited, so other handlers run between any two of them, and *)
(* a worker may die there.  A user stands for one e-mail address.  What a    *)
(* caller may do is read from its role row at the start of each call, and   *)
(* from nothing else: neither the logins nor these handlers look at         *)
(* pending_invite, so a member may call whether or not its invitation was   *)
(* accepted.  An admin acts as the owner of a tenant it is not a member of.  *)
(***************************************************************************)
EXTENDS Integers, FiniteSets

CONSTANTS
    Users, Founder,   \* Founder owns the tenant at the start
    Strangers,        \* users with an account at another tenant
    Admin,
    Invites, Removals, RoleChanges, Accepts,   \* calls, each used once
    Cap,              \* seats of the tenant's plan
    Nobody            \* a caller or target not chosen yet, a password not set

Calls == Invites \cup Removals \cup RoleChanges \cup Accepts
Roles == {"owner", "editor", "viewer"}

ASSUME TeamAssumption ==
    /\ Founder \in Users
    /\ Strangers \subseteq Users \ {Founder}
    /\ Admin \notin Users
    /\ Nobody \notin Users \cup {Admin} \cup Calls
    /\ Cap \in Nat \ {0}
    /\ Invites \cap (Removals \cup RoleChanges \cup Accepts) = {}
    /\ Removals \cap (RoleChanges \cup Accepts) = {}
    /\ RoleChanges \cap Accepts = {}

VARIABLES
    role,       \* user_business_access of the tenant
    account,    \* users rows: absent, with pending_invite = 1, or with 0
    password,   \* the accepting call that set a user's password
    tokens,     \* users whose invitation token exists and has not expired
    sessions,   \* sessions, named by the accepting call that minted them
    call,
    surplus     \* history: promotions whose demotion found no owner to demote

team == <<role, surplus>>
ids  == <<account, password>>
vars == <<role, account, password, tokens, sessions, call, surplus>>

Steps == {"start", "cap", "member", "user", "create", "grant", "mint",
          "target", "delete", "revoke", "demote", "set",
          "consume", "signIn", "closed"}

TypeOK ==
    /\ role \in [Users -> Roles \cup {"none"}]
    /\ account \in [Users -> {"absent", "pending", "active"}]
    /\ password \in [Users -> Accepts \cup {Nobody}]
    /\ tokens \subseteq Users
    /\ sessions \subseteq Accepts
    /\ call \in [Calls -> [pc : Steps, caller : Users \cup {Admin, Nobody},
                           target : Users \cup {Nobody}, grant : Roles,
                           isNew : BOOLEAN]]
    /\ surplus \in Nat

Init ==
    /\ role = [u \in Users |-> IF u = Founder THEN "owner" ELSE "none"]
    /\ account = [u \in Users |-> IF u \in Strangers \cup {Founder}
                                  THEN "active" ELSE "absent"]
    /\ password = [u \in Users |-> Nobody]
    /\ tokens = {}
    /\ sessions = {}
    /\ call = [c \in Calls |-> [pc |-> "start", caller |-> Nobody,
                                target |-> Nobody, grant |-> "viewer",
                                isNew |-> FALSE]]
    /\ surplus = 0
-----------------------------------------------------------------------------
Members == {u \in Users : role[u] # "none"}
Owners  == {u \in Users : role[u] = "owner"}

At(c, step)   == call[c].pc = step
Goto(c, step) == call' = [call EXCEPT ![c].pc = step]
Target(c)     == call[c].target

\* resolveTenant and the owner test of the three owner-only handlers; a caller
\* who is not an owner is answered 403 and leaves no trace.
MayManage(u) ==
    u = Admin \/ (u \in Users /\ role[u] = "owner")

Begin(c, step, grants) ==
    /\ At(c, "start")
    /\ \E u \in Users \cup {Admin}, t \in Users, g \in grants :
          /\ MayManage(u)
          /\ c \in Removals => t # u
          /\ call' = [call EXCEPT ![c] = [pc |-> step, caller |-> u,
                         target |-> t, grant |-> g, isNew |-> FALSE]]
    /\ UNCHANGED <<team, ids, tokens, sessions>>
-----------------------------------------------------------------------------
(* POST /api/client/team/invite *)

BeginInvite(c) == c \in Invites /\ Begin(c, "cap", {"editor", "viewer"})

\* Mutant of CheckCap: one seat too many.
CheckCapLate(c) ==
    /\ At(c, "cap")
    /\ Goto(c, IF Cardinality(Members) <= Cap THEN "member" ELSE "closed")
    /\ UNCHANGED <<team, ids, tokens, sessions>>

\* planCap: 402 when the seats are taken.
CheckCap(c) ==
    /\ At(c, "cap")
    /\ Goto(c, IF Cardinality(Members) < Cap THEN "member" ELSE "closed")
    /\ UNCHANGED <<team, ids, tokens, sessions>>

CheckMember(c) ==
    /\ At(c, "member")
    /\ Goto(c, IF Target(c) \in Members THEN "closed" ELSE "user")
    /\ UNCHANGED <<team, ids, tokens, sessions>>

\* The users row is looked up by e-mail; its pending_invite is not looked at.
FindUser(c) ==
    /\ At(c, "user")
    /\ Goto(c, IF account[Target(c)] = "absent" THEN "create" ELSE "grant")
    /\ UNCHANGED <<team, ids, tokens, sessions>>

\* Mutant of CreateUser: the handler forgets that it has made the account.
CreateUserOnly(c) ==
    /\ At(c, "create")
    /\ \/ /\ account[Target(c)] = "absent"
          /\ account' = [account EXCEPT ![Target(c)] = "pending"]
          /\ Goto(c, "grant")
       \/ /\ account[Target(c)] # "absent"
          /\ Goto(c, "closed")
          /\ UNCHANGED account
    /\ UNCHANGED <<team, password, tokens, sessions>>

\* INSERT INTO users; the UNIQUE e-mail makes the loser of a race throw.
CreateUser(c) ==
    /\ At(c, "create")
    /\ \/ /\ account[Target(c)] = "absent"
          /\ account' = [account EXCEPT ![Target(c)] = "pending"]
          /\ call' = [call EXCEPT ![c].pc = "grant", ![c].isNew = TRUE]
       \/ /\ account[Target(c)] # "absent"
          /\ Goto(c, "closed")
          /\ UNCHANGED account
    /\ UNCHANGED <<team, password, tokens, sessions>>

\* Mutant of Grant: INSERT OR REPLACE.
GrantOrReplace(c) ==
    /\ At(c, "grant")
    /\ role' = [role EXCEPT ![Target(c)] = call[c].grant]
    /\ Goto(c, IF call[c].isNew THEN "mint" ELSE "closed")
    /\ UNCHANGED <<surplus, ids, tokens, sessions>>

\* INSERT INTO user_business_access, UNIQUE(user_id, business_id)
Grant(c) ==
    /\ At(c, "grant")
    /\ \/ /\ Target(c) \notin Members
          /\ role' = [role EXCEPT ![Target(c)] = call[c].grant]
          /\ Goto(c, IF call[c].isNew THEN "mint" ELSE "closed")
       \/ /\ Target(c) \in Members
          /\ Goto(c, "closed")
          /\ UNCHANGED role
    /\ UNCHANGED <<surplus, ids, tokens, sessions>>

\* signInviteToken; the answer carries the link whether or not the mail is sent.
MintToken(c) ==
    /\ At(c, "mint")
    /\ tokens' = tokens \cup {Target(c)}
    /\ Goto(c, "closed")
    /\ UNCHANGED <<team, ids, sessions>>
-----------------------------------------------------------------------------
(* DELETE /api/client/team/:user_id *)

BeginRemoval(c) == c \in Removals /\ Begin(c, "target", {"viewer"})

\* Mutant of CheckTarget: an owner is removed like any other member.
CheckTargetMember(c) ==
    /\ At(c, "target")
    /\ Goto(c, IF Target(c) \in Members THEN "delete" ELSE "closed")
    /\ UNCHANGED <<team, ids, tokens, sessions>>

\* 404 for a non-member, 409 for an owner.
CheckTarget(c) ==
    /\ At(c, "target")
    /\ Goto(c, IF role[Target(c)] \in {"editor", "viewer"}
               THEN "delete" ELSE "closed")
    /\ UNCHANGED <<team, ids, tokens, sessions>>

DeleteMembership(c) ==
    /\ At(c, "delete")
    /\ role' = [role EXCEPT ![Target(c)] = "none"]
    /\ Goto(c, "revoke")
    /\ UNCHANGED <<surplus, ids, tokens, sessions>>

\* DELETE FROM sessions WHERE user_id = ?
RevokeSessions(c) ==
    /\ At(c, "revoke")
    /\ sessions' = {a \in sessions : Target(a) # Target(c)}
    /\ Goto(c, "closed")
    /\ UNCHANGED <<team, ids, tokens>>
-----------------------------------------------------------------------------
(* PATCH /api/client/team/:user_id/role *)

BeginRoleChange(c) == c \in RoleChanges /\ Begin(c, "demote", Roles)

\* Mutant of Demote: a promotion leaves the caller an owner.
SkipDemotion(c) ==
    /\ At(c, "demote")
    /\ Goto(c, "set")
    /\ UNCHANGED <<team, ids, tokens, sessions>>

\* Before a promotion, the caller's own row becomes an editor's; an UPDATE of a
\* row that is gone changes nothing.
Demote(c) ==
    /\ At(c, "demote")
    /\ LET me == call[c].caller
       IN IF call[c].grant # "owner" THEN UNCHANGED team
          ELSE /\ role' = IF me \in Members THEN [role EXCEPT ![me] = "editor"]
                          ELSE role
               /\ surplus' = IF me \in Owners THEN surplus ELSE surplus + 1
    /\ Goto(c, "set")
    /\ UNCHANGED <<ids, tokens, sessions>>

SetRole(c) ==
    /\ At(c, "set")
    /\ role' = IF Target(c) \in Members
               THEN [role EXCEPT ![Target(c)] = call[c].grant] ELSE role
    /\ Goto(c, "closed")
    /\ UNCHANGED <<surplus, ids, tokens, sessions>>
-----------------------------------------------------------------------------
(* POST /auth/team-accept *)

\* A valid token of a user whose invitation is not consumed yet.
BeginAccept(c) ==
    /\ c \in Accepts
    /\ At(c, "start")
    /\ \E u \in tokens :
          /\ password[u] = Nobody
          /\ call' = [call EXCEPT ![c].pc = "consume", ![c].target = u]
    /\ UNCHANGED <<team, ids, tokens, sessions>>

\* Mutant of Consume: no "invite_consumed_at IS NULL" in the UPDATE.
ConsumeAgain(c) ==
    /\ At(c, "consume")
    /\ account'  = [account  EXCEPT ![Target(c)] = "active"]
    /\ password' = [password EXCEPT ![Target(c)] = c]
    /\ Goto(c, "signIn")
    /\ UNCHANGED <<team, tokens, sessions>>

\* UPDATE users ... WHERE invite_consumed_at IS NULL; 410 when it changed no row.
Consume(c) ==
    /\ At(c, "consume")
    /\ \/ /\ password[Target(c)] = Nobody
          /\ account'  = [account  EXCEPT ![Target(c)] = "active"]
          /\ password' = [password EXCEPT ![Target(c)] = c]
          /\ Goto(c, "signIn")
       \/ /\ password[Target(c)] # Nobody
          /\ Goto(c, "closed")
          /\ UNCHANGED ids
    /\ UNCHANGED <<team, tokens, sessions>>

SignIn(c) ==
    /\ At(c, "signIn")
    /\ sessions' = sessions \cup {c}
    /\ Goto(c, "closed")
    /\ UNCHANGED <<team, ids, tokens>>
-----------------------------------------------------------------------------
\* Seven days pass and the invitation of u lapses.
TokenExpires(u) ==
    /\ u \in tokens
    /\ tokens' = tokens \ {u}
    /\ UNCHANGED <<team, ids, sessions, call>>

\* The worker dies, or a query throws: the rest of the handler never runs.
Crash(c) ==
    /\ call[c].pc \notin {"start", "closed"}
    /\ Goto(c, "closed")
    /\ UNCHANGED <<team, ids, tokens, sessions>>

Invite(c)     == BeginInvite(c) \/ CheckCap(c) \/ CheckMember(c) \/ FindUser(c)
                 \/ CreateUser(c) \/ Grant(c) \/ MintToken(c)
Remove(c)     == BeginRemoval(c) \/ CheckTarget(c) \/ DeleteMembership(c)
                 \/ RevokeSessions(c)
ChangeRole(c) == BeginRoleChange(c) \/ Demote(c) \/ SetRole(c)
Accept(c)     == BeginAccept(c) \/ Consume(c) \/ SignIn(c)

Next ==
    \/ \E c \in Calls : Invite(c) \/ Remove(c) \/ ChangeRole(c) \/ Accept(c)
                        \/ Crash(c)
    \/ \E u \in Users : TokenExpires(u)

Spec == Init /\ [][Next]_vars
-----------------------------------------------------------------------------
\* OWNERSHIP IS HANDED ON.  Promotions in flight that have demoted their caller
\* stand for an owner each: however invitations, removals, role changes and
\* crashes interleave, owners multiply only by promotions whose caller was no
\* owner (any more) when its own row was to be demoted.
Promoting == {c \in RoleChanges : At(c, "set") /\ call[c].grant = "owner"}

OwnershipHandedOn == Cardinality(Owners) + Cardinality(Promoting) <= 1 + surplus

\* INVITATIONS ONLY ADD.  A member's role is never changed by an invitation,
\* although a second invitation of the same address may have passed its
\* already_member test long before; and only invitations add members.
OnlyAdds ==
    \A c \in Calls : call'[c] # call[c] =>
        /\ c \in Invites => \A u \in Members : role'[u] = role[u]
        /\ c \notin Invites => \A u \in Users \ Members : role'[u] = "none"

InvitationsOnlyAdd == [][OnlyAdds]_vars

\* ONE WINNER.  Of several clicks on one invitation exactly one sets the
\* password, and nobody else is signed in by it.
OneWinner == \A a \in sessions : password[Target(a)] = a
=============================================================================
