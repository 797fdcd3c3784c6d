----------------------------- MODULE UserGroups -----------------------------
(***************************************************************************)
(* Accounts and group memberships: CreateInitialAdmin and CreateUser of    *)
(* internal/store/users.go, the memberships of internal/store/             *)
(* user_groups.go, and seedAdmin of pkg/bootstrap.                         *)
(*                                                                         *)
(* The statements of a transaction are steps of their own, under           *)
(* PostgreSQL's default isolation: a statement sees what was committed     *)
(* when it began, and waits for the end of a transaction that has written  *)
(* a row it wants to write.  A membership row is a group with the          *)
(* transaction that wrote it, since a row that is deleted and written      *)
(* again is another row.  The memberships are those of one user.           *)
(***************************************************************************)
EXTENDS Naturals, FiniteSets

CONSTANTS Emails, Seeds,             \* processes that start with a seed address
          SeedEmail,                 \* [Seeds -> Emails]
          Groups, Initial,           \* the user's memberships at the start
          Replaces, Wanted,          \* ReplaceUserGroups calls: [Replaces -> SUBSET Groups]
          Attaches, Nobody

VARIABLES users,   \* emails with an account, and how: "none", "seed", "other"
          admin,   \* emails in the administrator group
          lock,    \* who holds the lock on table users
          seed,    \* the seeds: at, what they have found and what they answer
          member,  \* the committed memberships: <<group, writer>>
          rep      \* the replacements

vars == <<users, admin, lock, seed, member, rep>>

NewReplace == [at |-> "new", snap |-> {}, del |-> {}, ins |-> {}]
NewSeed == [at |-> "new", found |-> "none", answer |-> "none"]

Init ==
    /\ users = [e \in Emails |-> "none"] /\ admin = {} /\ lock = Nobody
    /\ seed = [p \in Seeds |-> NewSeed]
    /\ member = {<<g, Nobody>> : g \in Initial} /\ rep = [t \in Replaces |-> NewReplace]

---------------------------------------------------------------------------
(* CreateInitialAdmin *)

Seed(p, from, new) == seed[p].at = from /\ seed' = [seed EXCEPT ![p] = new]

\* Variant: the table is not locked.
LockUsers_not(p) == lock' = lock

LockUsers(p) == lock = Nobody /\ lock' = p

BeginSeed(p) ==
    /\ Seed(p, "new", [seed[p] EXCEPT !.at = "locked"]) /\ LockUsers(p)
    /\ UNCHANGED <<users, admin, member, rep>>

\* Variant: an account with the address is enough.
FindUser_any(p) ==
    LET e == SeedEmail[p] IN
    /\ Seed(p, "locked", [seed[p] EXCEPT !.at = "found",
                             !.found = IF users[e] # "none" THEN "same"
                                       ELSE IF \E f \in Emails : users[f] # "none" THEN "refused" ELSE "empty"])
    /\ UNCHANGED <<users, admin, lock, member, rep>>

\* The address is known, another account exists, or there is none.
FindUser(p) ==
    LET e == SeedEmail[p] IN
    /\ Seed(p, "locked", [seed[p] EXCEPT !.at = "found",
                             !.found = IF users[e] # "none" THEN (IF e \in admin THEN "same" ELSE "refused")
                                       ELSE IF \E f \in Emails : users[f] # "none" THEN "refused" ELSE "empty"])
    /\ UNCHANGED <<users, admin, lock, member, rep>>

Unlock(p) == lock' = IF lock = p THEN Nobody ELSE lock

\* Variant: an account with the address becomes the administrator.
EndSeed_promotes(p) ==
    LET e == SeedEmail[p] IN
    /\ Seed(p, "found", [seed[p] EXCEPT !.at = "over"])
    /\ users' = [users EXCEPT ![e] = IF @ = "none" THEN "seed" ELSE @] /\ admin' = admin \cup {e}
    /\ Unlock(p) /\ UNCHANGED <<member, rep>>

\* The two inserts and the commit, or the answer without them.
EndSeed(p) ==
    LET e == SeedEmail[p] IN
    /\ Seed(p, "found", [seed[p] EXCEPT !.at = "over", !.answer = IF seed[p].found = "empty" THEN "created" ELSE seed[p].found])
    /\ IF seed[p].found = "empty"
       THEN users' = [users EXCEPT ![e] = "seed"] /\ admin' = admin \cup {e}
       ELSE UNCHANGED <<users, admin>>
    /\ Unlock(p) /\ UNCHANGED <<member, rep>>

\* The process stops or a statement fails, and it starts again.
RestartSeed(p) ==
    /\ seed[p].at \in {"locked", "found"} /\ seed' = [seed EXCEPT ![p] = NewSeed]
    /\ Unlock(p) /\ UNCHANGED <<users, admin, member, rep>>

\* CreateUser: an insert waits for the lock.
CreateUser(e) ==
    /\ users[e] = "none" /\ lock = Nobody /\ users' = [users EXCEPT ![e] = "other"]
    /\ UNCHANGED <<admin, lock, seed, member, rep>>

---------------------------------------------------------------------------
(* Memberships *)

Replace(t, from, new) == rep[t].at = from /\ rep' = [rep EXCEPT ![t] = new]

InTx(t) == rep[t].at \in {"deleting", "deleted", "inserted"}

\* What others have written and not yet committed.
HeldRows(t) == UNION {rep[u].del : u \in {u \in Replaces \ {t} : InTx(u)}}
HeldGroups(t) == UNION {rep[u].ins : u \in {u \in Replaces \ {t} : InTx(u)}} \cup {m[1] : m \in HeldRows(t)}

\* DELETE FROM user_groups: its snapshot,
BeginReplace(t) ==
    /\ Replace(t, "new", [rep[t] EXCEPT !.at = "deleting", !.snap = member])
    /\ UNCHANGED <<users, admin, lock, seed, member>>

\* and the rows of it that are still there, once nobody else holds one.
DeleteRows(t) ==
    /\ rep[t].snap \cap HeldRows(t) = {}
    /\ Replace(t, "deleting", [rep[t] EXCEPT !.at = "deleted", !.del = rep[t].snap \cap member])
    /\ UNCHANGED <<users, admin, lock, seed, member>>

\* An insert meets a committed row of the same group: the call fails.
Conflicts(t) == {m \in member \ rep[t].del : m[1] \in Wanted[t]} # {}

\* The inserts, once nobody else holds one of the groups.
InsertRows(t) ==
    /\ rep[t].at = "deleted" /\ Wanted[t] \cap HeldGroups(t) = {}
    /\ Replace(t, "deleted", IF Conflicts(t) THEN [NewReplace EXCEPT !.at = "failed"]
                             ELSE [rep[t] EXCEPT !.at = "inserted", !.ins = Wanted[t]])
    /\ UNCHANGED <<users, admin, lock, seed, member>>

\* Variant: the old rows stay.
Committed_kept(t) == member \cup {<<g, t>> : g \in rep[t].ins}

\* Variant: a name is written where the row is wanted.
Committed_names(t) == (member \ rep[t].del) \cup rep[t].ins

Committed(t) == (member \ rep[t].del) \cup {<<g, t>> : g \in rep[t].ins}

CommitReplace(t) ==
    /\ Replace(t, "inserted", [NewReplace EXCEPT !.at = "over"])
    /\ member' = Committed(t) /\ UNCHANGED <<users, admin, lock, seed>>

RollbackReplace(t) ==
    /\ InTx(t) /\ rep' = [rep EXCEPT ![t] = [NewReplace EXCEPT !.at = "failed"]]
    /\ UNCHANGED <<users, admin, lock, seed, member>>

\* INSERT ... ON CONFLICT DO NOTHING waits like the others.
AttachUserToGroupByName(g) ==
    /\ Attaches /\ g \notin HeldGroups(Nobody) /\ \A m \in member : m[1] # g
    /\ member' = member \cup {<<g, "attach">>} /\ UNCHANGED <<users, admin, lock, seed, rep>>

DetachUserFromGroup(g) ==
    /\ Attaches /\ g \notin HeldGroups(Nobody) /\ \E m \in member : m[1] = g
    /\ member' = {m \in member : m[1] # g} /\ UNCHANGED <<users, admin, lock, seed, rep>>

Next ==
    \/ \E p \in Seeds : BeginSeed(p) \/ FindUser(p) \/ EndSeed(p) \/ RestartSeed(p)
    \/ \E e \in Emails : CreateUser(e)
    \/ \E t \in Replaces : BeginReplace(t) \/ DeleteRows(t) \/ InsertRows(t) \/ CommitReplace(t) \/ RollbackReplace(t)
    \/ \E g \in Groups : AttachUserToGroupByName(g) \/ DetachUserFromGroup(g)

Spec == Init /\ [][Next]_vars
---------------------------------------------------------------------------

TypeOK ==
    /\ users \in [Emails -> {"none", "seed", "other"}] /\ admin \subseteq Emails /\ lock \in Seeds \cup {Nobody}
    /\ member \subseteq Groups \X (Replaces \cup {Nobody, "attach"})
    /\ \A t \in Replaces : rep[t].at \in {"new", "deleting", "deleted", "inserted", "over", "failed"}
    /\ \A p \in Seeds : seed[p].at \in {"new", "locked", "found", "over"}

\* Servers that start together, crash and start again seed one account at
\* most, and only into a database that has no other.
OneSeededAccount ==
    \A e \in Emails : users[e] = "seed" => e \in admin /\ \A f \in Emails \ {e} : users[f] # "seed"

\* An answer of the seed is true: whoever was told that the administrator is
\* there finds it.
SeedAnswersAreTrue ==
    \A p \in Seeds : seed[p].answer \in {"created", "same"} => users[SeedEmail[p]] = "seed" /\ SeedEmail[p] \in admin

\* The seed never changes an account that is there: it neither promotes it
\* nor takes it over.
SeedKeepsAccounts ==
    [][\A e \in Emails : users[e] # "none" => users'[e] = users[e] /\ (e \in admin' <=> e \in admin)]_vars

\* A group is a membership once, whatever calls overlap.
OneRowPerGroup == \A m, n \in member : m[1] = n[1] => m = n

\* "Exactly the groups named": a replacement leaves no other membership.
ReplaceIsExact ==
    [][\A t \in Replaces : rep[t].at = "inserted" /\ rep'[t].at = "over" => {m[1] : m \in member'} = Wanted[t]]_vars
=============================================================================
