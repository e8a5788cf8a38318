----------------------------- MODULE TeamHistory -----------------------------
(***************************************************************************)
(* Team with a record of how its handlers disturb each other: what the      *)
(* handlers of routes/team.ts promise holds up to these races and crashes,  *)
(* and the record says up to which.                                        *)
(***************************************************************************)
EXTENDS Team

VARIABLES
    overbooked,  \* invitations that counted a seat others were about to fill
    linked,      \* users ever given an invitation link
    disturbed,   \* new users whose invitation was cut short or not alone
    promoted     \* removals whose target became an owner behind their back

record      == <<overbooked, linked, disturbed, promoted>>
historyVars == <<vars, record>>

\* Invitations that have counted the seats and not taken theirs.
Booked == {c \in Invites : call[c].pc \in {"member", "user", "create", "grant"}}

\* Invitations of u that look for its account, make it, or have just made it.
Inviting(u) == {c \in Invites : /\ Target(c) = u
                                /\ call[c].pc \in {"user", "create", "grant", "mint"}}

\* The invitation that made the account of u and owes it a link.
Owes(c, u) == c \in Inviting(u) /\ call[c].isNew /\ call[c].pc \in {"grant", "mint"}

HistoryTypeOK ==
    /\ TypeOK
    /\ overbooked \in Nat
    /\ linked \subseteq Users /\ disturbed \subseteq Users
    /\ promoted \subseteq Removals

HistoryInit ==
    /\ Init
    /\ overbooked = 0
    /\ linked = {} /\ disturbed = {} /\ promoted = {}

\* cut: the users whose invitation is cut short by this step.
Recorded(cut) ==
    /\ overbooked' =
           IF /\ Booked' \ Booked # {} /\ Booked # {}
              /\ Cardinality(Members) + Cardinality(Booked) >= Cap
           THEN overbooked + 1 ELSE overbooked
    /\ linked' = linked \cup tokens'
    /\ disturbed' = disturbed \cup cut
           \cup {u \in Users : \E c, d \in Inviting(u)' : c # d}
    /\ promoted' = promoted \cup
           {c \in Removals : /\ call[c].pc = "delete"
                             /\ Target(c) \in Owners' \ Owners}

HistoryNext ==
    \/ /\ \E c \in Calls : Invite(c) \/ Remove(c) \/ ChangeRole(c) \/ Accept(c)
       /\ Recorded({})
    \/ \E c \in Calls : Crash(c) /\ Recorded({u \in Users : Owes(c, u)})
    \/ /\ \E u \in Users : TokenExpires(u)
       /\ Recorded({})

HistorySpec == HistoryInit /\ [][HistoryNext]_historyVars
-----------------------------------------------------------------------------
\* SEATS.  The plan's seats are exceeded only by invitations that counted them
\* while others, counted before, were still on their way to the last ones: one
\* that has the tenant to itself never takes a seat too many.
SeatsKept == Cardinality(Members) + Cardinality(Booked) <= Cap + overbooked

\* LINK SENT.  A member whose account an invitation made and nobody has accepted
\* (pending_invite = 1, a password nobody chose) was given a link, or is about to
\* be, unless the invitation that made its account was cut short or another
\* invitation of the same address ran next to it: the handler sends no link for
\* an account it finds, so nothing later makes up for a link not sent.
LinkSent ==
    \A u \in Members : account[u] = "pending" =>
        \/ u \in linked \cup disturbed
        \/ \E c \in Inviting(u) : call[c].pc = "mint"

\* OWNERS STAY.  A removal takes an owner out of the team only when a promotion
\* came between its look at the role and its DELETE.
OwnersStay ==
    [][\A u \in Owners : role'[u] = "none" =>
          \E c \in promoted : /\ Target(c) = u
                              /\ call[c].pc = "delete" /\ call'[c].pc = "revoke"]_historyVars
=============================================================================
