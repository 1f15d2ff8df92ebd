------------------------------ MODULE Accounts ------------------------------
(***************************************************************************)
(* Who a person of the Organization plane is in a workspace, and what the  *)
(* owners of the workspace make of it (apps/api/src/auth/org-tenancy.ts,   *)
(* apps/api/src/db/members.ts, the users of db/catalog.ts).                *)
(*                                                                         *)
(* Every request with a token of the plane finds, adopts or creates the    *)
(* local user and adds a membership.  Each statement on the database is a  *)
(* step of its own and requests overlap; what holds them together is the   *)
(* indexes: an address is of one user, a principal is mapped to one user.  *)
(* A user is named by the address it was created with.  There is one       *)
(* workspace.                                                              *)
(***************************************************************************)
EXTENDS Naturals, FiniteSets

CONSTANTS
  Principals, \* people of the plane
  Addresses,  \* addresses a person may have verified
  Visits,     \* requests that may overlap
  MaxMoves,   \* bound: how often an address is verified at the plane
  MaxManaged  \* bound: changes the owners make, but for those under way

NoOne == "no one"

ASSUME AccAssumption ==
  NoOne \notin Principals \cup Addresses /\ {MaxMoves, MaxManaged} \subseteq Nat

VARIABLES
  verified, \* the plane: the address each principal has verified, or NoOne
  moves,    \* how often that changed
  users,    \* the users table
  mapped,   \* external_id of each user, or NoOne
  member,   \* the memberships table: the role of each user, or "none"
  visit,    \* the requests
  managed,  \* history: how often an owner has changed who is a member
  acted     \* history: which principal has acted as which user

accVars == <<verified, moves, users, mapped, member, visit, managed, acted>>
tables == <<users, mapped, member>>

Roles == {"owner", "member"}   \* admins and viewers manage as little as members
Phases == {"idle", "find", "candidate", "upsert", "insert", "map", "join", "role",
           "owner", "inviteFind", "inviteInsert", "inviteRole", "lastOwner", "setRole"}

(* A request: the claims of its token, the user it found, whether it is    *)
(* the second attempt; of an owner also whom it is about and the new role. *)
Visit == [at : Phases, who : Principals \cup {NoOne}, address : Addresses \cup {NoOne},
          user : Addresses \cup {NoOne}, again : BOOLEAN,
          target : Addresses \cup {NoOne}, role : Roles \cup {"none"}]
NoVisit == [at |-> "idle", who |-> NoOne, address |-> NoOne, user |-> NoOne,
            again |-> FALSE, target |-> NoOne, role |-> "none"]

AccTypeOK ==
  /\ verified \in [Principals -> Addresses \cup {NoOne}]
  /\ moves \in 0 .. MaxMoves
  /\ users \subseteq Addresses
  /\ mapped \in [Addresses -> Principals \cup {NoOne}]
  /\ member \in [Addresses -> Roles \cup {"none"}]
  /\ visit \in [Visits -> Visit]
  /\ managed \in Nat /\ acted \subseteq Principals \X Addresses

(* Nobody has been here yet, or the one who became the owner.              *)
AccInit ==
  \E p \in Principals, u \in Addresses \cup {NoOne} :
    /\ verified = [q \in Principals |-> IF q = p THEN u ELSE NoOne]
    /\ users = {u} \ {NoOne}
    /\ mapped = [x \in Addresses |-> IF x = u THEN p ELSE NoOne]
    /\ member = [x \in Addresses |-> IF x = u THEN "owner" ELSE "none"]
    /\ acted = {<<p, x>> : x \in {u} \ {NoOne}}
    /\ moves = 0 /\ managed = 0
    /\ visit = [v \in Visits |-> NoVisit]

Members == {u \in Addresses : member[u] # "none"}
Owners == {u \in Addresses : member[u] = "owner"}

-----------------------------------------------------------------------------
(* The plane.  An address has one principal at a time, and changes hands   *)
(* only when no token that still names it is in use.                       *)
Verify(p, a) ==
  /\ moves < MaxMoves
  /\ \A q \in Principals : verified[q] # a
  /\ \A v \in Visits : visit[v].at # "idle" => visit[v].who # p /\ visit[v].address # a
  /\ verified' = [verified EXCEPT ![p] = a]
  /\ moves' = moves + 1
  /\ UNCHANGED <<tables, visit, managed, acted>>

-----------------------------------------------------------------------------
(* findOrAdoptOrgHuman and provisionOrgHuman.                              *)

Advances(v, step) == visit' = [visit EXCEPT ![v].at = step]
With(v, step, u) == visit' = [visit EXCEPT ![v] = [@ EXCEPT !.at = step, !.user = u]]
Ends(v) == visit' = [visit EXCEPT ![v] = NoVisit]

(* UNIQUE constraint failed: once more from the start, and then an error.  *)
TryAgain(v) ==
  IF visit[v].again THEN Ends(v)
  ELSE visit' = [visit EXCEPT ![v] = [@ EXCEPT !.at = "find", !.again = TRUE]]

Arrive(v) ==
  /\ visit[v].at = "idle"
  /\ \E p \in Principals :
       visit' = [visit EXCEPT ![v] = [NoVisit EXCEPT !.at = "find", !.who = p,
                                                     !.address = verified[p]]]
  /\ UNCHANGED <<verified, moves, tables, managed, acted>>

MappedTo(p) == {u \in users : mapped[u] = p}

FindMapped(v) ==
  /\ visit[v].at = "find"
  /\ \/ \E u \in MappedTo(visit[v].who) : With(v, "join", u)
     \/ /\ MappedTo(visit[v].who) = {}
        /\ IF visit[v].address = NoOne THEN Ends(v) ELSE Advances(v, "candidate")
  /\ UNCHANGED <<verified, moves, tables, managed, acted>>

(* Bug: the mapping of the candidate is not looked at.                     *)
Adoptable_bug(u) == TRUE

(* A user who has a mapping is never captured.                             *)
Adoptable(u) == mapped[u] = NoOne

FindCandidate(v) ==
  LET u == visit[v].address
  IN  /\ visit[v].at = "candidate"
      /\ IF u \notin users THEN Advances(v, "upsert")
         ELSE IF Adoptable(u) THEN With(v, "map", u)
         ELSE IF mapped[u] = visit[v].who THEN With(v, "join", u)
         ELSE Ends(v)
      /\ UNCHANGED <<verified, moves, tables, managed, acted>>

(* upsertUserByEmail looks again, and inserts.                             *)
UpsertUser(v) ==
  /\ visit[v].at = "upsert"
  /\ IF visit[v].address \in users THEN With(v, "map", visit[v].address)
     ELSE Advances(v, "insert")
  /\ UNCHANGED <<verified, moves, tables, managed, acted>>

InsertUser(v) ==
  /\ visit[v].at = "insert"
  /\ IF visit[v].address \in users
     THEN TryAgain(v) /\ UNCHANGED users
     ELSE users' = users \cup {visit[v].address} /\ With(v, "map", visit[v].address)
  /\ UNCHANGED <<verified, moves, mapped, member, managed, acted>>

(* setUserExternalMapping: an UPDATE by id.                                *)
MapUser(v) ==
  /\ visit[v].at = "map"
  /\ IF \E u \in users \ {visit[v].user} : mapped[u] = visit[v].who
     THEN TryAgain(v) /\ UNCHANGED mapped
     ELSE mapped' = [mapped EXCEPT ![visit[v].user] = visit[v].who] /\ Advances(v, "join")
  /\ UNCHANGED <<verified, moves, users, member, managed, acted>>

(* One statement decides who is the owner: whoever comes first.            *)
Join(v) ==
  /\ visit[v].at = "join"
  /\ member' = [member EXCEPT ![visit[v].user] =
       IF @ # "none" THEN @ ELSE IF Members = {} THEN "owner" ELSE "member"]
  /\ Advances(v, "role")
  /\ UNCHANGED <<verified, moves, users, mapped, managed, acted>>

(* roleFor: removed in between is refused.                                 *)
ReadRole(v) ==
  LET u == visit[v].user
  IN  /\ visit[v].at = "role"
      /\ IF member[u] = "none" THEN UNCHANGED acted
         ELSE acted' = acted \cup {<<visit[v].who, u>>}
      /\ IF member[u] = "owner" THEN Advances(v, "owner") ELSE Ends(v)
      /\ UNCHANGED <<verified, moves, tables, managed>>

-----------------------------------------------------------------------------
(* memberRoster, for a request that was found to be an owner's.            *)

Asks(v, step, u, r) ==
  /\ visit[v].at = "owner"
  /\ managed < MaxManaged
  /\ visit' = [visit EXCEPT ![v] = [@ EXCEPT !.at = step, !.target = u, !.role = r]]
  /\ UNCHANGED <<verified, moves, tables, managed, acted>>

AskInvite(v) == \E a \in Addresses, r \in Roles : Asks(v, "inviteFind", a, r)

(* Another role, or none: removed.                                         *)
AskRole(v) ==
  \E u \in Addresses, r \in Roles \cup {"none"} :
    Asks(v, IF r = "owner" THEN "setRole" ELSE "lastOwner", u, r)

Leaves(v) ==
  /\ visit[v].at = "owner"
  /\ Ends(v)
  /\ UNCHANGED <<verified, moves, tables, managed, acted>>

(* addMember                                                               *)
InviteFind(v) ==
  /\ visit[v].at = "inviteFind"
  /\ Advances(v, IF visit[v].target \in users THEN "inviteRole" ELSE "inviteInsert")
  /\ UNCHANGED <<verified, moves, tables, managed, acted>>

InviteInsert(v) ==
  /\ visit[v].at = "inviteInsert"
  /\ IF visit[v].target \in users THEN Ends(v) ELSE Advances(v, "inviteRole")
  /\ users' = users \cup {visit[v].target}
  /\ UNCHANGED <<verified, moves, mapped, member, managed, acted>>

SetMember(v, r) ==
  /\ member' = [member EXCEPT ![visit[v].target] = r]
  /\ managed' = managed + 1
  /\ Ends(v)
  /\ UNCHANGED <<verified, moves, users, mapped, acted>>

InviteRole(v) == visit[v].at = "inviteRole" /\ SetMember(v, visit[v].role)

(* isLastOwner                                                             *)
LastOwner(v) ==
  /\ visit[v].at = "lastOwner"
  /\ IF Owners = {visit[v].target} THEN Ends(v) ELSE Advances(v, "setRole")
  /\ UNCHANGED <<verified, moves, tables, managed, acted>>

(* setMemberRole and removeMember, of whoever is still a member.           *)
SetRole(v) ==
  /\ visit[v].at = "setRole"
  /\ SetMember(v, IF visit[v].target \in Members THEN visit[v].role ELSE "none")

AccNext ==
  \/ \E p \in Principals, a \in Addresses : Verify(p, a)
  \/ \E v \in Visits :
       \/ Arrive(v) \/ FindMapped(v) \/ FindCandidate(v) \/ UpsertUser(v)
       \/ InsertUser(v) \/ MapUser(v) \/ Join(v) \/ ReadRole(v)
       \/ AskInvite(v) \/ AskRole(v) \/ Leaves(v)
       \/ InviteFind(v) \/ InviteInsert(v) \/ InviteRole(v)
       \/ LastOwner(v) \/ SetRole(v)

AccSpec == AccInit /\ [][AccNext]_accVars

-----------------------------------------------------------------------------
(* However first requests overlap, whoever is invited meanwhile and        *)
(* whoever takes over an address later: a person acts as one user for      *)
(* ever, nobody else acts as that user (org-tenancy.ts: "to someone else,  *)
(* which is never captured"), and of those who just arrived exactly one    *)
(* became the owner ("two first arrivals cannot both see an empty tenant"). *)
ActsAsOneself ==
  /\ \A x, y \in acted : x[1] = y[1] <=> x[2] = y[2]
  /\ managed = 0 /\ Members # {} => Cardinality(Owners) = 1
=============================================================================
