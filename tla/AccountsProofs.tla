---------------------------- MODULE AccountsProofs ---------------------------
(***************************************************************************)
(* Proofs about how accounts come and go, for every number of identities,  *)
(* addresses, rows and sessions: the users table keeps its two unique keys *)
(* and its types, the welcome bonus is paid once per address, and credit   *)
(* history is neither lost nor archived twice.                             *)
(***************************************************************************)
EXTENDS Accounts, SumTheorems

UserRec == [state: {"none", "live", "anon"}, clerk: Ids \cup {None},
            email: Emails \cup {None}]
SessRec == [op: {"idle", "jit", "create", "relink", "delete", "close", "erase"},
            at: {"read", "logged"}, id: Ids \cup {None}, email: Emails \cup {None},
            row: Rows \cup {None}, ev: Event \cup {None}, credits: 0 .. 1]

\* Clerk: an identity that lives, and every event about one, has an address.
ClerkInv ==
    /\ clerk \in [Ids -> [life: {"unborn", "alive", "dead"}, email: Emails \cup {None}]]
    /\ \A i \in Ids: clerk[i].life = "alive" => clerk[i].email \in Emails
    /\ issued \subseteq Event /\ acked \subseteq issued
    /\ \A ev \in issued: ev.email \in Emails
    /\ dups \in 0 .. MaxDups

\* The tables: types, unique keys, and where the bonus of an account is.
RowOK(r) ==
    /\ Live(r) => users[r].email \in Emails
    /\ wallet[r] = 1 => Present(r) /\ archived[r] = 0
    /\ archived[r] <= erasures[r] \/ (archived[r] = 1 /\ ~Present(r))
RowInv ==
    /\ users \in [Rows -> UserRec]
    /\ wallet \in [Rows -> 0 .. 1] /\ archived \in [Rows -> Nat]
    /\ erasures \in [Rows -> Nat]
    /\ suppressed \subseteq Emails
    /\ bonus \in [Emails -> Nat] /\ moved \in [Emails -> Nat]
    /\ \A i \in Ids: \A q, r \in RowsWithClerk(i): q = r
    /\ \A e \in Emails: \A q, r \in RowsWithEmail(e): q = r
    /\ \A r \in Rows: RowOK(r)

\* Sessions: what each has read, and the rows that hard deletes have logged on.
Logged(s) == sess[s].op \in {"delete", "close"} /\ sess[s].at = "logged"
RecordOK(r) ==
    /\ r.op \in {"jit", "create", "relink", "delete", "close"} => r.id \in Ids
    /\ r.op \in {"jit", "create"} => r.email \in Emails
    /\ r.op \in {"relink", "delete", "close", "erase"} => r.row \in Rows
    /\ r.ev = None \/ r.ev \in issued
LockOK(s) ==
    Logged(s) => /\ s \in share[sess[s].row]
                 /\ Present(sess[s].row)
                 /\ sess[s].credits = wallet[sess[s].row]
SessInv ==
    /\ sess \in [Sess -> SessRec] /\ share \in [Rows -> SUBSET Sess]
    /\ \A s \in Sess: RecordOK(sess[s]) /\ LockOK(s)
    /\ \A r \in Rows: \A s \in share[r]: Logged(s) /\ sess[s].row = r

\* The bonus: an address that nobody has and that is not suppressed has room for one;
\* so has the new address of an account that was moved while a session closes it, for
\* that session suppresses the address it has read.
Paid(e) == bonus[e] <= moved[e]
Closes(s) == sess[s].op \in {"delete", "close", "erase"}
MovedUnder(s) ==
    LET r == sess[s].row IN
    /\ Closes(s) /\ Present(r)
    /\ users[r].email \in Emails \ suppressed
    /\ users[r].email # sess[s].email
BonusInv ==
    /\ \A e \in Emails: bonus[e] <= 1 + moved[e]
    /\ \A e \in Emails \ suppressed: RowsWithEmail(e) = {} => Paid(e)
    /\ \A s \in Sess: MovedUnder(s) => Paid(users[sess[s].row].email)

\* The inductive invariant.
TableInv == RowInv /\ SessInv /\ BonusInv
IInv == ClerkInv /\ TableInv
-----------------------------------------------------------------------------
\* The shapes of steps.  A step leaves the tables alone, and opens, moves on or ends a
\* session; or it inserts, relinks, updates, deletes or anonymizes one row.

Tables == <<users, wallet, archived, erasures, suppressed, bonus, moved>>
Moves(s, r) ==
    /\ sess' \in [Sess -> SessRec] /\ sess'[s] = r
    /\ \A t \in Sess \ {s}: sess'[t] = sess[t]
Drops(s) == share' = [r \in Rows |-> share[r] \ {s}]

StaysOut == UNCHANGED <<Tables, sess, share>>
OpensOn(s, r) ==
    /\ Moves(s, r) /\ sess[s].op = "idle"
    /\ r.at = "read" /\ RecordOK(r)
    /\ r.op \in {"delete", "close", "erase"} => r.email = users[r.row].email
    /\ UNCHANGED <<Tables, share>>
GoesIdle(s) == Moves(s, Idle) /\ Drops(s) /\ UNCHANGED Tables
LogsDelete(s) ==
    /\ sess[s].op \in {"delete", "close"} /\ Present(sess[s].row)
    /\ Moves(s, [sess[s] EXCEPT !.at = "logged", !.credits = wallet[sess[s].row]])
    /\ share' = [share EXCEPT ![sess[s].row] = @ \cup {s}]
    /\ UNCHANGED Tables
LogsErase(s) ==
    /\ sess[s].op = "erase"
    /\ Moves(s, [sess[s] EXCEPT !.at = "logged", !.credits = wallet[sess[s].row]])
    /\ UNCHANGED <<Tables, share>>
Inserts(s, i, e) ==
    /\ i \in Ids /\ e \in Emails /\ Conflicts(i, e) = {} /\ Unused # {}
    /\ ~Logged(s)
    /\ Insert(Fresh, i, e) /\ Moves(s, Idle)
    /\ UNCHANGED <<archived, erasures, suppressed, moved, share>>
Relinks(s, r, i) ==
    /\ i \in Ids /\ r \in Rows /\ Present(r) /\ RowsWithClerk(i) \subseteq {r}
    /\ ~Logged(s)
    /\ users' = [users EXCEPT ![r].clerk = i] /\ Moves(s, Idle)
    /\ UNCHANGED <<wallet, archived, erasures, suppressed, bonus, moved, share>>
Updates(r, e) ==
    /\ e \in Emails /\ r \in Rows /\ Live(r) /\ RowsWithEmail(e) \subseteq {r}
    /\ users' = [users EXCEPT ![r].email = e]
    /\ moved' = IF users[r].email = e THEN moved
                ELSE [moved EXCEPT ![users[r].email] = @ + 1]
    /\ UNCHANGED <<wallet, archived, erasures, suppressed, bonus, sess, share>>
Deletes(s) ==
    LET r == sess[s].row IN
    /\ Logged(s) /\ share[r] \subseteq {s}
    /\ users' = [users EXCEPT ![r] = NoRow]
    /\ wallet' = [wallet EXCEPT ![r] = 0]
    /\ archived' = [archived EXCEPT ![r] = @ + sess[s].credits]
    /\ suppressed' = suppressed \cup ({sess[s].email} \ {None})
    /\ share' = [share EXCEPT ![r] = {}] /\ Moves(s, Idle)
    /\ UNCHANGED <<erasures, bonus, moved>>
Anonymizes(s) ==
    LET r == sess[s].row IN
    /\ sess[s].op = "erase" /\ sess[s].at = "logged" /\ Present(r) /\ share[r] = {}
    /\ users' = [users EXCEPT ![r].state = "anon", ![r].email = None]
    /\ wallet' = [wallet EXCEPT ![r] = 0]
    /\ archived' = [archived EXCEPT ![r] = @ + sess[s].credits]
    /\ erasures' = [erasures EXCEPT ![r] = @ + 1]
    /\ suppressed' = suppressed \cup ({sess[s].email} \ {None})
    /\ Moves(s, Idle)
    /\ UNCHANGED <<bonus, moved, share>>

Shape ==
    \/ StaysOut
    \/ \E s \in Sess: \/ \E r \in SessRec: OpensOn(s, r)
                      \/ GoesIdle(s)
                      \/ LogsDelete(s)
                      \/ LogsErase(s)
                      \/ \E i \in Ids, e \in Emails: Inserts(s, i, e)
                      \/ \E r \in Rows, i \in Ids: Relinks(s, r, i)
                      \/ Deletes(s)
                      \/ Anonymizes(s)
    \/ \E r \in Rows, e \in Emails: Updates(r, e)
-----------------------------------------------------------------------------
LEMMA IdleType ==
  /\ Idle \in SessRec /\ Idle.op = "idle" /\ Idle.at = "read" /\ Idle.ev = None
  /\ Idle.row = None
  /\ NoRow \in UserRec /\ NoRow.state = "none" /\ NoRow.email = None
  BY DEF Idle, SessRec, NoRow, UserRec

LEMMA FreshUnused == Unused # {} => Fresh \in Unused
  BY DEF Fresh

\* Every session that is not the one that moves keeps its record; one that goes idle or
\* opens has logged nowhere.
LEMMA OthersKeep ==
  ASSUME NEW s \in Sess, NEW r, Moves(s, r), NEW t \in Sess, t # s
  PROVE  sess'[t] = sess[t] /\ (Logged(t)' <=> Logged(t)) /\ (Closes(t)' <=> Closes(t))
  BY DEF Moves, Logged, Closes

\* A step that leaves the tables alone.
LEMMA TablesKeep ==
  ASSUME UNCHANGED Tables, RowInv
  PROVE  RowInv'
  BY DEF Tables, RowInv, RowOK, Live, Present, RowsWithClerk, RowsWithEmail

LEMMA BonusKeeps ==
  ASSUME UNCHANGED Tables, BonusInv,
         \A t \in Sess: \/ sess'[t] = sess[t]
                        \/ ~Closes(t)'
                        \/ sess'[t].email = users[sess'[t].row].email
                        \/ /\ Closes(t) /\ sess'[t].row = sess[t].row
                           /\ sess'[t].email = sess[t].email
  PROVE  BonusInv'
  <1>1. ASSUME NEW t \in Sess, MovedUnder(t)'
        PROVE  Paid(users[sess'[t].row].email)
    <2>1. Closes(t)' /\ sess'[t].email # users[sess'[t].row].email
      BY <1>1 DEF MovedUnder, Tables, Closes
    <2>2. sess'[t].row = sess[t].row /\ sess'[t].email = sess[t].email /\ Closes(t)
      BY <2>1 DEF Closes
    <2>3. MovedUnder(t) BY <1>1, <2>2 DEF MovedUnder, Tables, Present, Closes
    <2> QED BY <2>2, <2>3 DEF BonusInv
  <1> QED BY <1>1 DEF BonusInv, Paid, Tables, RowsWithEmail, Present, MovedUnder

LEMMA StaysOutStep == TableInv /\ StaysOut /\ issued \subseteq issued' => TableInv'
  <1> SUFFICES ASSUME TableInv, StaysOut, issued \subseteq issued' PROVE TableInv'
    OBVIOUS
  <1>1. RowInv' BY TablesKeep DEF TableInv, StaysOut
  <1>2. BonusInv' BY BonusKeeps DEF TableInv, StaysOut
  <1>3. \A s \in Sess: RecordOK(sess[s])' /\ LockOK(s)'
    BY DEF TableInv, SessInv, StaysOut, Tables, RecordOK, LockOK, Logged, Present
  <1>4. SessInv' BY <1>3 DEF TableInv, SessInv, StaysOut, Logged
  <1> QED BY <1>1, <1>2, <1>4 DEF TableInv

\* A session opens.
LEMMA OpensStep ==
  ASSUME TableInv, issued \subseteq issued', NEW s \in Sess, NEW r \in SessRec,
         OpensOn(s, r)
  PROVE  TableInv'
  <1>1. UNCHANGED Tables /\ share' = share /\ Moves(s, r) BY DEF OpensOn
  <1>2. RowInv' BY <1>1, TablesKeep DEF TableInv
  <1>3. ~Logged(s) /\ ~Logged(s)' BY <1>1 DEF OpensOn, Moves, Logged
  <1>4. ASSUME NEW t \in Sess PROVE RecordOK(sess[t])' /\ LockOK(t)'
    <2>1. CASE t = s BY <2>1, <1>1, <1>3 DEF OpensOn, Moves, RecordOK, LockOK
    <2>2. CASE t # s
      <3>1. RecordOK(sess[t]) /\ LockOK(t) BY DEF TableInv, SessInv
      <3> QED BY <3>1, <2>2, <1>1, OthersKeep
              DEF RecordOK, LockOK, Tables, Present
    <2> QED BY <2>1, <2>2
  <1>5. ASSUME NEW q \in Rows, NEW t \in share'[q] PROVE Logged(t)' /\ sess'[t].row = q
    <2>1. t \in Sess /\ Logged(t) /\ sess[t].row = q
      BY <1>1 DEF TableInv, SessInv
    <2>2. t # s BY <2>1, <1>3
    <2> QED BY <1>1, <2>1, <2>2, OthersKeep
  <1>6. SessInv' BY <1>1, <1>4, <1>5 DEF TableInv, SessInv, Moves
  <1>7. BonusInv'
    <2>1. ASSUME NEW t \in Sess
          PROVE  \/ sess'[t] = sess[t] \/ ~Closes(t)'
                 \/ sess'[t].email = users[sess'[t].row].email
      BY <1>1 DEF OpensOn, Moves, Closes
    <2> QED BY <1>1, <2>1, BonusKeeps DEF TableInv
  <1> QED BY <1>2, <1>6, <1>7 DEF TableInv

\* A session ends without a trace.
LEMMA GoesIdleStep ==
  ASSUME TableInv, issued \subseteq issued', NEW s \in Sess, GoesIdle(s)
  PROVE  TableInv'
  <1>1. UNCHANGED Tables /\ Drops(s) /\ Moves(s, Idle) BY DEF GoesIdle
  <1>2. RowInv' BY <1>1, TablesKeep DEF TableInv
  <1>3. ~Logged(s)' /\ ~Closes(s)' BY <1>1, IdleType DEF Moves, Logged, Closes
  <1>4. ASSUME NEW t \in Sess PROVE RecordOK(sess[t])' /\ LockOK(t)'
    <2>1. CASE t = s BY <2>1, <1>1, <1>3, IdleType DEF Moves, RecordOK, LockOK
    <2>2. CASE t # s
      <3>1. RecordOK(sess[t]) /\ LockOK(t) BY DEF TableInv, SessInv
      <3>2. sess'[t] = sess[t] /\ (Logged(t)' <=> Logged(t))
        BY <2>2, <1>1, OthersKeep
      <3>3. RecordOK(sess[t])' BY <3>1, <3>2 DEF RecordOK
      <3>4. Logged(t) => sess[t].row \in Rows BY <3>1 DEF RecordOK, Logged
      <3> QED BY <3>1, <3>2, <3>3, <3>4, <2>2, <1>1 DEF LockOK, Tables, Present, Drops
    <2> QED BY <2>1, <2>2
  <1>5. ASSUME NEW q \in Rows, NEW t \in share'[q] PROVE Logged(t)' /\ sess'[t].row = q
    <2>1. t \in share[q] /\ t # s BY <1>1, <1>5 DEF Drops
    <2>2. t \in Sess /\ Logged(t) /\ sess[t].row = q
      BY <2>1 DEF TableInv, SessInv
    <2> QED BY <1>1, <2>1, <2>2, OthersKeep
  <1>6. share' \in [Rows -> SUBSET Sess] BY <1>1 DEF Drops, TableInv, SessInv
  <1>7. SessInv' BY <1>1, <1>4, <1>5, <1>6 DEF SessInv, Moves
  <1>8. BonusInv'
    <2>1. ASSUME NEW t \in Sess PROVE sess'[t] = sess[t] \/ ~Closes(t)'
      BY <1>1, <1>3 DEF Moves
    <2> QED BY <1>1, <2>1, BonusKeeps DEF TableInv
  <1> QED BY <1>2, <1>7, <1>8 DEF TableInv
-----------------------------------------------------------------------------
\* A closing session moves on: a hard delete locks the row for its audit record.
LEMMA LogsDeleteStep ==
  ASSUME TableInv, issued \subseteq issued', NEW s \in Sess, LogsDelete(s)
  PROVE  TableInv'
  <1>0. PICK q \in Rows: q = sess[s].row
    BY DEF LogsDelete, TableInv, SessInv, RecordOK
  <1> DEFINE r == [sess[s] EXCEPT !.at = "logged", !.credits = wallet[sess[s].row]]
  <1>1. /\ UNCHANGED Tables /\ Moves(s, r) /\ share' = [share EXCEPT ![q] = @ \cup {s}]
        /\ sess[s].op \in {"delete", "close"} /\ Present(q)
    BY <1>0 DEF LogsDelete
  <1>2. RowInv' BY <1>1, TablesKeep DEF TableInv
  <1>3. /\ r.op = sess[s].op /\ r.at = "logged" /\ r.credits = wallet[q] /\ r.row = q
        /\ r.email = sess[s].email /\ r.ev = sess[s].ev /\ r.id = sess[s].id
    BY <1>0 DEF TableInv, SessInv, SessRec
  <1> HIDE DEF r
  <1>4. /\ share'[q] = share[q] \cup {s}
        /\ \A p \in Rows: p # q => share'[p] = share[p]
        /\ share' \in [Rows -> SUBSET Sess]
    BY <1>1 DEF TableInv, SessInv
  <1>5. ASSUME NEW t \in Sess PROVE RecordOK(sess[t])' /\ LockOK(t)'
    <2>0. RecordOK(sess[t]) /\ LockOK(t) BY DEF TableInv, SessInv
    <2>1. CASE t = s
      <3>1. sess'[t] = r BY <2>1, <1>1 DEF Moves
      <3>2. RecordOK(sess[t])' BY <3>1, <2>0, <2>1, <1>0, <1>3 DEF RecordOK
      <3> QED BY <3>1, <3>2, <2>1, <1>1, <1>3, <1>4 DEF LockOK, Tables, Present
    <2>2. CASE t # s
      <3>1. sess'[t] = sess[t] /\ (Logged(t)' <=> Logged(t))
        BY <2>2, <1>1, OthersKeep
      <3>2. RecordOK(sess[t])' BY <2>0, <3>1 DEF RecordOK
      <3>3. Logged(t) => sess[t].row \in Rows BY <2>0 DEF RecordOK, Logged
      <3> QED BY <2>0, <3>1, <3>2, <3>3, <1>1, <1>4 DEF LockOK, Tables, Present
    <2> QED BY <2>1, <2>2
  <1>6. ASSUME NEW p \in Rows, NEW t \in share'[p] PROVE Logged(t)' /\ sess'[t].row = p
    <2>1. CASE t = s
      <3>1. p = q
        <4>1. p # q => s \in share[p] BY <1>4, <1>6, <2>1
        <4> QED BY <4>1, <1>0 DEF TableInv, SessInv
      <3> QED BY <3>1, <2>1, <1>1, <1>3 DEF Moves, Logged
    <2>2. CASE t # s
      <3>1. t \in share[p] BY <2>2, <1>4, <1>6
      <3>2. t \in Sess /\ Logged(t) /\ sess[t].row = p BY <3>1 DEF TableInv, SessInv
      <3> QED BY <2>2, <3>2, <1>1, OthersKeep
    <2> QED BY <2>1, <2>2
  <1>7. SessInv' BY <1>1, <1>4, <1>5, <1>6 DEF SessInv, Moves
  <1>8. BonusInv'
    <2>1. ASSUME NEW t \in Sess
          PROVE  \/ sess'[t] = sess[t]
                 \/ /\ Closes(t) /\ sess'[t].row = sess[t].row
                    /\ sess'[t].email = sess[t].email
      BY <1>0, <1>1, <1>3 DEF Moves, Closes
    <2> QED BY <1>1, <2>1, BonusKeeps DEF TableInv
  <1> QED BY <1>2, <1>7, <1>8 DEF TableInv

LEMMA LogsEraseStep ==
  ASSUME TableInv, issued \subseteq issued', NEW s \in Sess, LogsErase(s)
  PROVE  TableInv'
  <1> DEFINE r == [sess[s] EXCEPT !.at = "logged", !.credits = wallet[sess[s].row]]
  <1>1. /\ UNCHANGED Tables /\ Moves(s, r) /\ share' = share /\ sess[s].op = "erase"
    BY DEF LogsErase
  <1>2. RowInv' BY <1>1, TablesKeep DEF TableInv
  <1>3. /\ r.op = "erase" /\ r.row = sess[s].row
        /\ r.email = sess[s].email /\ r.ev = sess[s].ev
    BY <1>1 DEF TableInv, SessInv, SessRec
  <1> HIDE DEF r
  <1>4. ~Logged(s) /\ ~Logged(s)' BY <1>1, <1>3 DEF Moves, Logged
  <1>5. ASSUME NEW t \in Sess PROVE RecordOK(sess[t])' /\ LockOK(t)'
    <2>0. RecordOK(sess[t]) /\ LockOK(t) BY DEF TableInv, SessInv
    <2>1. CASE t = s
      <3>1. sess'[t] = r BY <2>1, <1>1 DEF Moves
      <3>2. RecordOK(sess[t])' BY <3>1, <2>0, <2>1, <1>1, <1>3 DEF RecordOK
      <3> QED BY <3>2, <2>1, <1>4 DEF LockOK
    <2>2. CASE t # s
      <3>1. sess'[t] = sess[t] /\ (Logged(t)' <=> Logged(t))
        BY <2>2, <1>1, OthersKeep
      <3>2. RecordOK(sess[t])' BY <2>0, <3>1 DEF RecordOK
      <3> QED BY <2>0, <3>1, <3>2, <1>1 DEF LockOK, Tables, Present
    <2> QED BY <2>1, <2>2
  <1>6. ASSUME NEW p \in Rows, NEW t \in share'[p] PROVE Logged(t)' /\ sess'[t].row = p
    <2>1. t \in Sess /\ Logged(t) /\ sess[t].row = p
      BY <1>1, <1>6 DEF TableInv, SessInv
    <2> QED BY <2>1, <1>1, <1>4, OthersKeep
  <1>7. SessInv' BY <1>1, <1>5, <1>6 DEF TableInv, SessInv, Moves
  <1>8. BonusInv'
    <2>1. ASSUME NEW t \in Sess
          PROVE  \/ sess'[t] = sess[t]
                 \/ /\ Closes(t) /\ sess'[t].row = sess[t].row
                    /\ sess'[t].email = sess[t].email
      BY <1>1, <1>3 DEF Moves, Closes
    <2> QED BY <1>1, <2>1, BonusKeeps DEF TableInv
  <1> QED BY <1>2, <1>7, <1>8 DEF TableInv

\* A session that goes idle while one row changes: the sessions that have logged on
\* other rows, or on this one when it stays, keep what they rely on.
LEMMA SessionsKeep ==
  ASSUME TableInv, issued \subseteq issued', NEW s \in Sess, Moves(s, Idle), NEW q \in Rows,
         share' \in [Rows -> SUBSET Sess],
         \A p \in Rows: share'[p] \subseteq share[p] /\ s \notin share'[p],
         \A p \in Rows: p # q => /\ share'[p] = share[p] \ {s}
                                 /\ users'[p] = users[p] /\ wallet'[p] = wallet[p],
         \/ share[q] \subseteq {s}
         \/ share'[q] = share[q] \ {s} /\ Present(q)' /\ wallet'[q] = wallet[q]
  PROVE  SessInv'
  <1>1. ~Logged(s)' BY IdleType DEF Moves, Logged
  <1>2. ASSUME NEW t \in Sess PROVE RecordOK(sess[t])' /\ LockOK(t)'
    <2>1. CASE t = s BY <2>1, <1>1, IdleType DEF Moves, RecordOK, LockOK
    <2>2. CASE t # s
      <3>1. RecordOK(sess[t]) /\ LockOK(t) BY DEF TableInv, SessInv
      <3>2. sess'[t] = sess[t] /\ (Logged(t)' <=> Logged(t)) BY <2>2, OthersKeep
      <3>3. RecordOK(sess[t])' BY <3>1, <3>2 DEF RecordOK
      <3>4. LockOK(t)'
        <4>1. SUFFICES ASSUME Logged(t) PROVE LockOK(t)' BY <3>2 DEF LockOK
        <4>2. PICK p \in Rows: p = sess[t].row BY <3>1, <4>1 DEF RecordOK, Logged
        <4>3. t \in share[p] /\ Present(p) /\ sess[t].credits = wallet[p]
          BY <3>1, <4>1, <4>2 DEF LockOK
        <4>4. CASE p # q BY <4>2, <4>3, <4>4, <3>2, <2>2 DEF LockOK, Present
        <4>5. CASE p = q BY <4>2, <4>3, <4>5, <3>2, <2>2 DEF LockOK
        <4> QED BY <4>4, <4>5
      <3> QED BY <3>3, <3>4
    <2> QED BY <2>1, <2>2
  <1>3. ASSUME NEW p \in Rows, NEW t \in share'[p] PROVE Logged(t)' /\ sess'[t].row = p
    <2>1. t \in Sess /\ t # s /\ Logged(t) /\ sess[t].row = p
      BY <1>3 DEF TableInv, SessInv
    <2> QED BY <2>1, OthersKeep
  <1> QED BY <1>2, <1>3 DEF SessInv, Moves

LEMMA NotShared ==
  ASSUME SessInv, NEW s \in Sess, ~Logged(s)
  PROVE  \A p \in Rows: s \notin share[p] /\ share[p] \ {s} = share[p]
  BY DEF SessInv
-----------------------------------------------------------------------------
\* An account is inserted: its two keys are free.
LEMMA InsertStep ==
  ASSUME TableInv, issued \subseteq issued', NEW s \in Sess, NEW i \in Ids,
         NEW e \in Emails, Inserts(s, i, e)
  PROVE  TableInv'
  <1>0. PICK q \in Unused: q = Fresh BY FreshUnused DEF Inserts
  <1>1. /\ q \in Rows /\ users[q] = NoRow /\ archived[q] = 0
        /\ \A t \in Sess: sess[t].row # q
    BY DEF Unused
  <1> DEFINE n == [state |-> "live", clerk |-> i, email |-> e]
  <1>2. /\ users' = [users EXCEPT ![q] = n] /\ Moves(s, Idle)
        /\ UNCHANGED <<archived, erasures, suppressed, moved, share>>
        /\ \/ /\ e \in suppressed /\ wallet' = wallet /\ bonus' = bonus
           \/ /\ e \notin suppressed /\ wallet' = [wallet EXCEPT ![q] = 1]
              /\ bonus' = [bonus EXCEPT ![e] = @ + 1]
    BY <1>0 DEF Inserts, Insert
  <1>3. n \in UserRec /\ n.state = "live" /\ n.clerk = i /\ n.email = e BY DEF UserRec
  <1> HIDE DEF n
  <1>4. RowsWithClerk(i) = {} /\ RowsWithEmail(e) = {} BY DEF Inserts, Conflicts
  <1>5. /\ users' \in [Rows -> UserRec] /\ users'[q] = n
        /\ \A p \in Rows: p # q => users'[p] = users[p]
    BY <1>1, <1>2, <1>3 DEF TableInv, RowInv
  <1>6. ~Present(q) /\ Present(q)' BY <1>1, <1>3, <1>5, IdleType DEF Present
  <1>7. \A p \in Rows: Present(p)' <=> Present(p) \/ p = q
    BY <1>5, <1>6 DEF Present
  <1>8. /\ wallet' \in [Rows -> 0 .. 1] /\ \A p \in Rows: p # q => wallet'[p] = wallet[p]
        /\ bonus' \in [Emails -> Nat]
        /\ \A x \in Emails: x # e => bonus'[x] = bonus[x]
        /\ bonus'[e] = IF e \in suppressed THEN bonus[e] ELSE bonus[e] + 1
    BY <1>1, <1>2 DEF TableInv, RowInv
  <1>9. \A j \in Ids: \A x, y \in RowsWithClerk(j)': x = y
    <2>1. ASSUME NEW j \in Ids, NEW x \in RowsWithClerk(j)', x # q
          PROVE  x \in RowsWithClerk(j) /\ j # i
      BY <2>1, <1>4, <1>5, <1>7 DEF RowsWithClerk
    <2>2. \A j \in Ids: q \in RowsWithClerk(j)' => j = i
      BY <1>3, <1>5 DEF RowsWithClerk
    <2> QED BY <2>1, <2>2 DEF TableInv, RowInv
  <1>10. \A f \in Emails: \A x, y \in RowsWithEmail(f)': x = y
    <2>1. ASSUME NEW f \in Emails, NEW x \in RowsWithEmail(f)', x # q
          PROVE  x \in RowsWithEmail(f) /\ f # e
      BY <2>1, <1>4, <1>5, <1>7 DEF RowsWithEmail
    <2>2. \A f \in Emails: q \in RowsWithEmail(f)' => f = e
      BY <1>3, <1>5 DEF RowsWithEmail
    <2> QED BY <2>1, <2>2 DEF TableInv, RowInv
  <1>11. ASSUME NEW p \in Rows PROVE RowOK(p)'
    <2>1. RowOK(p) BY DEF TableInv, RowInv
    <2>2. CASE p = q
      BY <2>1, <2>2, <1>1, <1>2, <1>3, <1>5, <1>6 DEF RowOK, Live, TableInv, RowInv
    <2>3. CASE p # q BY <2>1, <2>3, <1>2, <1>5, <1>7, <1>8 DEF RowOK, Live
    <2> QED BY <2>2, <2>3
  <1>12. RowInv' BY <1>2, <1>5, <1>8, <1>9, <1>10, <1>11 DEF TableInv, RowInv
  <1>13. SessInv'
    <2>1. ~Logged(s) BY DEF Inserts
    <2>2. \A p \in Rows: s \notin share[p] /\ share[p] \ {s} = share[p]
      BY <2>1, NotShared DEF TableInv
    <2>3. share[q] \subseteq {s} BY <1>1 DEF TableInv, SessInv
    <2> QED BY <2>2, <2>3, <1>1, <1>2, <1>5, <1>8, SessionsKeep DEF TableInv, SessInv
  <1>14. BonusInv'
    <2>1. \A x \in Emails: bonus'[x] <= 1 + moved'[x]
      BY <1>2, <1>4, <1>8 DEF TableInv, BonusInv, Paid, RowInv
    <2>2. ASSUME NEW x \in Emails \ suppressed', RowsWithEmail(x)' = {} PROVE Paid(x)'
      <3>1. x # e
        <4>1. q \in RowsWithEmail(e)' BY <1>1, <1>3, <1>5, <1>6 DEF RowsWithEmail
        <4> QED BY <4>1, <2>2
      <3>2. RowsWithEmail(x) = {}
        BY <2>2, <1>1, <1>5, <1>6, <1>7 DEF RowsWithEmail
      <3> QED BY <2>2, <3>1, <3>2, <1>2, <1>8 DEF TableInv, BonusInv, Paid
    <2>3. ASSUME NEW t \in Sess, MovedUnder(t)' PROVE Paid(users[sess[t].row].email)'
      <3>1. Closes(t)' BY <2>3 DEF MovedUnder, Closes
      <3>2. t # s BY <3>1, <1>2, IdleType DEF Moves, Closes
      <3>3. sess'[t] = sess[t] /\ Closes(t) BY <3>1, <3>2, <1>2, OthersKeep
      <3>4. PICK p \in Rows: p = sess[t].row /\ p # q
        BY <3>3, <1>1 DEF Closes, TableInv, SessInv, RecordOK
      <3>5. users'[p] = users[p] /\ (Present(p)' <=> Present(p)) BY <3>4, <1>5, <1>7
      <3>6. MovedUnder(t)
        BY <2>3, <3>3, <3>4, <3>5, <1>2 DEF MovedUnder, Closes
      <3>7. Paid(users[p].email) /\ users[p].email \in Emails
        BY <3>4, <3>6 DEF TableInv, BonusInv, MovedUnder
      <3>8. users[p].email # e
        BY <3>4, <3>6, <1>4 DEF MovedUnder, RowsWithEmail
      <3> QED BY <3>3, <3>4, <3>5, <3>7, <3>8, <1>2, <1>8 DEF Paid
    <2> QED BY <2>1, <2>2, <2>3 DEF BonusInv
  <1> QED BY <1>12, <1>13, <1>14 DEF TableInv

\* An account is linked to another identity, which has no other row.
LEMMA RelinkStep ==
  ASSUME TableInv, issued \subseteq issued', NEW s \in Sess, NEW q \in Rows, NEW i \in Ids,
         Relinks(s, q, i)
  PROVE  TableInv'
  <1>1. /\ users' = [users EXCEPT ![q].clerk = i] /\ Moves(s, Idle) /\ ~Logged(s)
        /\ Present(q) /\ RowsWithClerk(i) \subseteq {q}
        /\ UNCHANGED <<wallet, archived, erasures, suppressed, bonus, moved, share>>
    BY DEF Relinks
  <1>2. /\ users' \in [Rows -> UserRec]
        /\ \A p \in Rows: /\ users'[p].state = users[p].state
                          /\ users'[p].email = users[p].email
                          /\ users'[p].clerk = IF p = q THEN i ELSE users[p].clerk
    BY <1>1 DEF TableInv, RowInv, UserRec
  <1>3. \A p \in Rows: (Present(p)' <=> Present(p)) /\ (Live(p)' <=> Live(p))
    BY <1>2 DEF Present, Live
  <1>4. \A e: RowsWithEmail(e)' = RowsWithEmail(e) BY <1>2, <1>3 DEF RowsWithEmail
  <1>5. \A j \in Ids: \A x, y \in RowsWithClerk(j)': x = y
    <2>1. \A j \in Ids: j # i => RowsWithClerk(j)' \subseteq RowsWithClerk(j)
      BY <1>2, <1>3 DEF RowsWithClerk
    <2>2. RowsWithClerk(i)' \subseteq {q} BY <1>1, <1>2, <1>3 DEF RowsWithClerk
    <2> QED BY <2>1, <2>2 DEF TableInv, RowInv
  <1>6. \A p \in Rows: RowOK(p)'
    BY <1>1, <1>2, <1>3 DEF TableInv, RowInv, RowOK
  <1>7. RowInv' BY <1>1, <1>2, <1>4, <1>5, <1>6 DEF TableInv, RowInv
  <1>8. SessInv'
    <2>1. \A p \in Rows: s \notin share[p] /\ share[p] \ {s} = share[p]
      BY <1>1, NotShared DEF TableInv
    <2>2. \A p \in Rows: p # q => users'[p] = users[p]
      BY <1>1 DEF TableInv, RowInv
    <2> QED BY <2>1, <2>2, <1>1, <1>3, SessionsKeep DEF TableInv, SessInv
  <1>9. BonusInv'
    <2>1. ASSUME NEW t \in Sess, MovedUnder(t)' PROVE Paid(users[sess[t].row].email)'
      <3>1. Closes(t)' BY <2>1 DEF MovedUnder, Closes
      <3>2. t # s BY <3>1, <1>1, IdleType DEF Moves, Closes
      <3>3. sess'[t] = sess[t] /\ Closes(t) BY <3>1, <3>2, <1>1, OthersKeep
      <3>4. PICK p \in Rows: p = sess[t].row
        BY <3>3 DEF Closes, TableInv, SessInv, RecordOK
      <3>5. MovedUnder(t)
        BY <2>1, <3>3, <3>4, <1>1, <1>2, <1>3 DEF MovedUnder, Closes
      <3> QED BY <3>3, <3>4, <3>5, <1>1, <1>2 DEF TableInv, BonusInv, Paid
    <2> QED BY <2>1, <1>1, <1>4 DEF TableInv, BonusInv, Paid
  <1> QED BY <1>7, <1>8, <1>9 DEF TableInv
-----------------------------------------------------------------------------
\* An account moves to an address that no other row has.
LEMMA UpdateStep ==
  ASSUME TableInv, issued \subseteq issued', NEW q \in Rows, NEW e \in Emails, Updates(q, e)
  PROVE  TableInv'
  <1>0. PICK o \in Emails: o = users[q].email
    BY DEF Updates, TableInv, RowInv, RowOK
  <1>1. /\ users' = [users EXCEPT ![q].email = e] /\ Live(q) /\ RowsWithEmail(e) \subseteq {q}
        /\ moved' = IF o = e THEN moved ELSE [moved EXCEPT ![o] = @ + 1]
        /\ UNCHANGED <<wallet, archived, erasures, suppressed, bonus, sess, share>>
    BY <1>0 DEF Updates
  <1>2. /\ users' \in [Rows -> UserRec]
        /\ \A p \in Rows: /\ users'[p].state = users[p].state
                          /\ users'[p].clerk = users[p].clerk
                          /\ users'[p].email = IF p = q THEN e ELSE users[p].email
    BY <1>1 DEF TableInv, RowInv, UserRec
  <1>3. /\ moved' \in [Emails -> Nat] /\ \A x \in Emails: moved[x] <= moved'[x]
        /\ o # e => moved'[o] = moved[o] + 1
    BY <1>1 DEF TableInv, RowInv
  <1>4. \A p \in Rows: (Present(p)' <=> Present(p)) /\ (Live(p)' <=> Live(p))
    BY <1>2 DEF Present, Live
  <1>5. \A i: RowsWithClerk(i)' = RowsWithClerk(i) BY <1>2, <1>4 DEF RowsWithClerk
  <1>6. /\ RowsWithEmail(e)' \subseteq {q}
        /\ \A x: x # e => RowsWithEmail(x)' = RowsWithEmail(x) \ {q}
        /\ q \in RowsWithEmail(e)'
    BY <1>1, <1>2, <1>4 DEF RowsWithEmail, Live, Present
  <1>7. \A x \in Emails: \A y, z \in RowsWithEmail(x)': y = z
    BY <1>6 DEF TableInv, RowInv
  <1>8. \A p \in Rows: RowOK(p)'
    BY <1>1, <1>2, <1>4 DEF TableInv, RowInv, RowOK
  <1>9. RowInv' BY <1>1, <1>2, <1>3, <1>5, <1>7, <1>8 DEF TableInv, RowInv
  <1>10. SessInv'
    <2>1. \A t \in Sess: RecordOK(sess[t])' /\ LockOK(t)'
      BY <1>1, <1>4 DEF TableInv, SessInv, RecordOK, LockOK, Logged
    <2> QED BY <1>1, <2>1 DEF TableInv, SessInv, Logged
  <1>11. o # e /\ e \notin suppressed => Paid(e)
    <2>1. o # e => RowsWithEmail(e) = {}
      BY <1>0, <1>1 DEF RowsWithEmail
    <2> QED BY <2>1 DEF TableInv, BonusInv
  <1>12. \A x \in Emails: Paid(x) => Paid(x)'
    BY <1>1, <1>3 DEF Paid, TableInv, RowInv
  <1>13. BonusInv'
    <2>1. \A x \in Emails: bonus'[x] <= 1 + moved'[x]
      BY <1>1, <1>3 DEF TableInv, BonusInv, RowInv
    <2>2. ASSUME NEW x \in Emails \ suppressed', RowsWithEmail(x)' = {} PROVE Paid(x)'
      <3>1. x # e BY <2>2, <1>6
      <3>2. CASE x = o
        <4>1. bonus'[o] <= moved'[o]
          BY <3>1, <3>2, <1>1, <1>3 DEF TableInv, BonusInv, RowInv
        <4> QED BY <4>1, <3>2 DEF Paid
      <3>3. CASE x # o
        <4>1. q \notin RowsWithEmail(x) BY <3>3, <1>0 DEF RowsWithEmail
        <4>2. RowsWithEmail(x) = {} BY <2>2, <3>1, <4>1, <1>6
        <4> QED BY <2>2, <4>2, <1>1, <1>12 DEF TableInv, BonusInv
      <3> QED BY <3>2, <3>3
    <2>3. ASSUME NEW t \in Sess, MovedUnder(t)' PROVE Paid(users[sess[t].row].email)'
      <3>1. Closes(t) BY <2>3, <1>1 DEF MovedUnder, Closes
      <3>2. PICK p \in Rows: p = sess[t].row
        BY <3>1 DEF Closes, TableInv, SessInv, RecordOK
      <3>3. CASE p = q /\ o # e
        <4>1. users'[p].email = e BY <3>2, <3>3, <1>2
        <4>2. e \notin suppressed
          BY <2>3, <3>2, <3>3, <4>1, <1>1 DEF MovedUnder
        <4>3. Paid(e)' BY <4>2, <3>3, <1>11, <1>12
        <4> QED BY <4>1, <4>3, <3>2, <1>1 DEF Paid
      <3>4. CASE ~(p = q /\ o # e)
        <4>1. users'[p].email = users[p].email BY <3>2, <3>4, <1>0, <1>2
        <4>2. MovedUnder(t)
          BY <2>3, <3>1, <3>2, <4>1, <1>1, <1>4 DEF MovedUnder
        <4>3. Paid(users[p].email) /\ users[p].email \in Emails
          BY <4>2, <3>2 DEF TableInv, BonusInv, MovedUnder
        <4> QED BY <4>1, <4>3, <3>2, <1>1, <1>12
      <3> QED BY <3>3, <3>4
    <2> QED BY <2>1, <2>2, <2>3 DEF BonusInv
  <1> QED BY <1>9, <1>10, <1>13 DEF TableInv

\* What closing an account does to the tables, a row deleted or anonymized.
LEMMA ClosesTables ==
  ASSUME TableInv, NEW s \in Sess, Closes(s), NEW q \in Rows, q = sess[s].row,
         Present(q), Moves(s, Idle),
         users' \in [Rows -> UserRec],
         \A p \in Rows: p # q => users'[p] = users[p],
         users'[q].email = None, users'[q].state # "live",
         \/ users'[q].clerk = users[q].clerk
         \/ users'[q].state = "none",
         wallet' = [wallet EXCEPT ![q] = 0],
         suppressed' = suppressed \cup ({sess[s].email} \ {None}),
         bonus' = bonus, moved' = moved
  PROVE  /\ wallet' \in [Rows -> 0 .. 1] /\ suppressed' \subseteq Emails
         /\ \A i \in Ids: \A x, y \in RowsWithClerk(i)': x = y
         /\ \A e \in Emails: \A x, y \in RowsWithEmail(e)': x = y
         /\ BonusInv'
  <1>1. wallet' \in [Rows -> 0 .. 1] /\ suppressed' \subseteq Emails
    BY DEF TableInv, RowInv, SessInv, SessRec
  <1>2. \A p \in Rows: Present(p)' => Present(p)
    BY DEF Present
  <1>3. \A i \in Ids: RowsWithClerk(i)' \subseteq RowsWithClerk(i)
    BY <1>2 DEF RowsWithClerk, Present
  <1>4. \A e \in Emails: RowsWithEmail(e)' = RowsWithEmail(e) \ {q}
    <2>1. \A e \in Emails: e # None BY AccountsAssumption
    <2> QED BY <2>1, <1>2 DEF RowsWithEmail, Present
  <1>5. ASSUME NEW e \in Emails \ suppressed', RowsWithEmail(e)' = {} PROVE Paid(e)
    <2>1. CASE q \in RowsWithEmail(e)
      <3>1. users[q].email = e BY <2>1 DEF RowsWithEmail
      <3>2. sess[s].email # e BY <1>5, AccountsAssumption
      <3>3. e \in Emails \ suppressed BY <1>5
      <3>4. MovedUnder(s) BY <3>1, <3>2, <3>3 DEF MovedUnder
      <3> QED BY <3>1, <3>4 DEF TableInv, BonusInv
    <2>2. CASE q \notin RowsWithEmail(e)
      <3>1. RowsWithEmail(e) = {} /\ e \notin suppressed BY <2>2, <1>4, <1>5
      <3> QED BY <3>1 DEF TableInv, BonusInv
    <2> QED BY <2>1, <2>2
  <1>6. ASSUME NEW t \in Sess, MovedUnder(t)' PROVE Paid(users[sess[t].row].email)'
    <2>1. Closes(t)' BY <1>6 DEF MovedUnder, Closes
    <2>2. t # s BY <2>1, IdleType DEF Moves, Closes
    <2>3. sess'[t] = sess[t] /\ Closes(t) BY <2>1, <2>2, OthersKeep
    <2>4. PICK p \in Rows: p = sess[t].row
      BY <2>3 DEF Closes, TableInv, SessInv, RecordOK
    <2>5. p # q
      BY <1>6, <2>3, <2>4, AccountsAssumption DEF MovedUnder
    <2>6. users'[p] = users[p] /\ (Present(p)' <=> Present(p)) BY <2>5 DEF Present
    <2>7. MovedUnder(t) BY <1>6, <2>3, <2>4, <2>6 DEF MovedUnder, Closes
    <2> QED BY <2>3, <2>4, <2>6, <2>7 DEF TableInv, BonusInv, Paid
  <1>7. BonusInv' BY <1>5, <1>6 DEF TableInv, BonusInv, Paid
  <1> QED BY <1>1, <1>3, <1>4, <1>7 DEF TableInv, RowInv

\* A row is deleted, its credits archived.
LEMMA DeleteStep ==
  ASSUME TableInv, issued \subseteq issued', NEW s \in Sess, Deletes(s)
  PROVE  TableInv'
  <1>0. PICK q \in Rows: q = sess[s].row /\ s \in share[q] /\ Present(q)
                          /\ sess[s].credits = wallet[q]
    BY DEF Deletes, TableInv, SessInv, RecordOK, LockOK, Logged
  <1>1. /\ share[q] \subseteq {s} /\ Moves(s, Idle)
        /\ users' = [users EXCEPT ![q] = NoRow]
        /\ wallet' = [wallet EXCEPT ![q] = 0]
        /\ archived' = [archived EXCEPT ![q] = @ + wallet[q]]
        /\ suppressed' = suppressed \cup ({sess[s].email} \ {None})
        /\ share' = [share EXCEPT ![q] = {}]
        /\ UNCHANGED <<erasures, bonus, moved>>
    BY <1>0 DEF Deletes
  <1>2. Closes(s) BY DEF Deletes, Logged, Closes
  <1>3. /\ users' \in [Rows -> UserRec] /\ users'[q] = NoRow
        /\ \A p \in Rows: p # q => users'[p] = users[p]
    BY <1>1, IdleType DEF TableInv, RowInv
  <1>4. /\ wallet' \in [Rows -> 0 .. 1] /\ suppressed' \subseteq Emails
        /\ \A i \in Ids: \A x, y \in RowsWithClerk(i)': x = y
        /\ \A e \in Emails: \A x, y \in RowsWithEmail(e)': x = y
        /\ BonusInv'
    BY <1>0, <1>1, <1>2, <1>3, IdleType, ClosesTables
  <1>5. wallet[q] \in 0 .. 1 /\ archived[q] \in Nat /\ erasures[q] \in Nat
    BY DEF TableInv, RowInv
  <1>6. /\ archived' \in [Rows -> Nat] /\ archived'[q] = archived[q] + wallet[q]
        /\ \A p \in Rows: p # q => archived'[p] = archived[p] /\ wallet'[p] = wallet[p]
        /\ wallet'[q] = 0
    BY <1>1, <1>5 DEF TableInv, RowInv
  <1>7. ASSUME NEW p \in Rows PROVE RowOK(p)'
    <2>1. RowOK(p) BY DEF TableInv, RowInv
    <2>2. CASE p = q
      BY <2>1, <2>2, <1>0, <1>1, <1>3, <1>5, <1>6, IdleType DEF RowOK, Live, Present
    <2>3. CASE p # q BY <2>1, <2>3, <1>1, <1>3, <1>6 DEF RowOK, Live, Present
    <2> QED BY <2>2, <2>3
  <1>8. RowInv' BY <1>1, <1>3, <1>4, <1>6, <1>7 DEF TableInv, RowInv
  <1>9. SessInv'
    <2>1. \A p \in Rows: p # q => s \notin share[p]
      BY <1>0 DEF TableInv, SessInv
    <2>2. /\ share' \in [Rows -> SUBSET Sess] /\ share'[q] = {}
          /\ \A p \in Rows: p # q => share'[p] = share[p]
      BY <1>1 DEF TableInv, SessInv
    <2>3. \A p \in Rows: share'[p] \subseteq share[p] /\ s \notin share'[p]
      BY <2>1, <2>2
    <2>4. \A p \in Rows: p # q => share'[p] = share[p] \ {s} BY <2>1, <2>2
    <2> QED BY <2>2, <2>3, <2>4, <1>1, <1>3, <1>6, SessionsKeep
  <1> QED BY <1>4, <1>8, <1>9 DEF TableInv

\* A row is anonymized, a copy of its credits archived.
LEMMA AnonymizeStep ==
  ASSUME TableInv, issued \subseteq issued', NEW s \in Sess, Anonymizes(s)
  PROVE  TableInv'
  <1>0. PICK q \in Rows, k \in 0 .. 1: q = sess[s].row /\ k = sess[s].credits
    BY DEF Anonymizes, TableInv, SessInv, SessRec, RecordOK
  <1>1. /\ share[q] = {} /\ Moves(s, Idle) /\ Present(q)
        /\ users' = [users EXCEPT ![q].state = "anon", ![q].email = None]
        /\ wallet' = [wallet EXCEPT ![q] = 0]
        /\ archived' = [archived EXCEPT ![q] = @ + k]
        /\ erasures' = [erasures EXCEPT ![q] = @ + 1]
        /\ suppressed' = suppressed \cup ({sess[s].email} \ {None})
        /\ UNCHANGED <<bonus, moved, share>>
    BY <1>0 DEF Anonymizes
  <1>2. Closes(s) /\ ~Logged(s) BY DEF Anonymizes, Logged, Closes
  <1>3. /\ users' \in [Rows -> UserRec]
        /\ users'[q].state = "anon" /\ users'[q].email = None
        /\ users'[q].clerk = users[q].clerk
        /\ \A p \in Rows: p # q => users'[p] = users[p]
    BY <1>1 DEF TableInv, RowInv, UserRec
  <1>4. /\ wallet' \in [Rows -> 0 .. 1] /\ suppressed' \subseteq Emails
        /\ \A i \in Ids: \A x, y \in RowsWithClerk(i)': x = y
        /\ \A e \in Emails: \A x, y \in RowsWithEmail(e)': x = y
        /\ BonusInv'
    BY <1>0, <1>1, <1>2, <1>3, ClosesTables
  <1>5. wallet[q] \in 0 .. 1 /\ archived[q] \in Nat /\ erasures[q] \in Nat
    BY DEF TableInv, RowInv
  <1>6. /\ archived' \in [Rows -> Nat] /\ archived'[q] = archived[q] + k
        /\ erasures' \in [Rows -> Nat] /\ erasures'[q] = erasures[q] + 1
        /\ \A p \in Rows: p # q => /\ archived'[p] = archived[p] /\ wallet'[p] = wallet[p]
                                   /\ erasures'[p] = erasures[p]
        /\ wallet'[q] = 0
    BY <1>1, <1>5 DEF TableInv, RowInv
  <1>7. ASSUME NEW p \in Rows PROVE RowOK(p)'
    <2>1. RowOK(p) BY DEF TableInv, RowInv
    <2>2. CASE p = q
      BY <2>1, <2>2, <1>1, <1>3, <1>5, <1>6 DEF RowOK, Live, Present
    <2>3. CASE p # q BY <2>1, <2>3, <1>3, <1>6 DEF RowOK, Live, Present
    <2> QED BY <2>2, <2>3
  <1>8. RowInv' BY <1>1, <1>3, <1>4, <1>6, <1>7 DEF TableInv, RowInv
  <1>9. SessInv'
    <2>1. \A p \in Rows: s \notin share[p] /\ share[p] \ {s} = share[p]
      BY <1>2, NotShared DEF TableInv
    <2> QED BY <2>1, <1>1, <1>3, <1>6, SessionsKeep DEF TableInv, SessInv
  <1> QED BY <1>4, <1>8, <1>9 DEF TableInv
-----------------------------------------------------------------------------
\* Clerk, its events, and the steps of the code as shapes.

LEMMA ClerkSaysOK ==
  ASSUME ClerkInv, NEW i \in Ids, NEW life \in {"alive", "dead"}, NEW e \in Emails,
         NEW k \in Kinds, Becoming(i, life, e, k)
  PROVE  /\ clerk' \in [Ids -> [life: {"unborn", "alive", "dead"}, email: Emails \cup {None}]]
         /\ \A j \in Ids: clerk'[j].life = "alive" => clerk'[j].email \in Emails
         /\ issued' \subseteq Event /\ issued \subseteq issued'
         /\ \A ev \in issued': ev.email \in Emails
  <1> DEFINE n == [kind |-> k, id |-> i, email |-> e]
  <1>1. n \in Event /\ n.email = e /\ issued' = issued \cup {n} BY DEF Becoming, Event
  <1> HIDE DEF n
  <1> DEFINE c == [life |-> life, email |-> e]
  <1>2. /\ c \in [life: {"unborn", "alive", "dead"}, email: Emails \cup {None}]
        /\ c.email = e /\ clerk' = [clerk EXCEPT ![i] = c]
    BY DEF Becoming
  <1> HIDE DEF c
  <1> QED BY <1>1, <1>2 DEF ClerkInv

LEMMA AnswerOK ==
  ASSUME ClerkInv, NEW ev, ev = None \/ ev \in issued, Answer(ev)
  PROVE  acked' \subseteq issued
  BY DEF ClerkInv, Answer

LEMMA DeliveredOK ==
  ASSUME ClerkInv, NEW ev, Delivered(ev)
  PROVE  dups' \in 0 .. MaxDups /\ ev \in issued /\ ev.id \in Ids /\ ev.email \in Emails
  <1>1. ev \in issued /\ ev \in Event BY DEF Delivered, ClerkInv
  <1>2. dups' \in 0 .. MaxDups
    <2>1. CASE dups < MaxDups /\ dups' = dups + 1
      BY <2>1, AccountsAssumption DEF ClerkInv
    <2>2. CASE dups' = dups BY <2>2 DEF ClerkInv
    <2> QED BY <2>1, <2>2 DEF Delivered
  <1> QED BY <1>1, <1>2 DEF ClerkInv, Event

LEMMA ClerkFrame ==
  ASSUME ClerkInv, UNCHANGED <<clerk, issued>>, acked' \subseteq issued, dups' \in 0 .. MaxDups
  PROVE  ClerkInv' /\ issued \subseteq issued'
  BY DEF ClerkInv

\* A record that a session opens with.
Ops == {"jit", "create", "relink", "delete", "close", "erase"}
LEMMA JitType ==
  ASSUME NEW n \in SessRec, NEW op \in Ops, NEW i \in Ids, NEW e \in Emails \cup {None}
  PROVE  [n EXCEPT !.op = op, !.id = i, !.email = e] \in SessRec
  BY DEF SessRec, Ops
LEMMA OpenTypes ==
  ASSUME NEW n \in SessRec, NEW op \in Ops, NEW i \in Ids, NEW e \in Emails \cup {None},
         NEW r \in Rows \cup {None}, NEW ev \in Event \cup {None}
  PROVE  /\ [n EXCEPT !.op = op, !.id = i, !.email = e, !.row = r, !.ev = ev] \in SessRec
         /\ [n EXCEPT !.op = op, !.id = i, !.row = r, !.email = e, !.ev = ev] \in SessRec
  BY DEF SessRec, Ops

Reads(n, op, i, e, r, ev) ==
    /\ n \in SessRec /\ n.op = op /\ n.at = "read" /\ n.id = i /\ n.email = e
    /\ n.row = r /\ n.ev = ev
LEMMA OpenRecords ==
  ASSUME NEW op \in Ops, NEW i \in Ids, NEW e \in Emails \cup {None},
         NEW r \in Rows \cup {None}, NEW ev \in Event \cup {None}
  PROVE  /\ Reads([Idle EXCEPT !.op = op, !.id = i, !.email = e], op, i, e, None, None)
         /\ Reads([Idle EXCEPT !.op = op, !.id = i, !.email = e, !.row = r, !.ev = ev],
                  op, i, e, r, ev)
         /\ Reads([Idle EXCEPT !.op = op, !.id = i, !.row = r, !.email = e, !.ev = ev],
                  op, i, e, r, ev)
  <1>1. [Idle EXCEPT !.op = op, !.id = i, !.email = e] \in SessRec
    BY IdleType, JitType
  <1>2. [Idle EXCEPT !.op = op, !.id = i, !.email = e, !.row = r, !.ev = ev] \in SessRec
    BY IdleType, OpenTypes
  <1>3. [Idle EXCEPT !.op = op, !.id = i, !.row = r, !.email = e, !.ev = ev] \in SessRec
    BY IdleType, OpenTypes
  <1>4. Reads([Idle EXCEPT !.op = op, !.id = i, !.email = e], op, i, e, None, None)
    BY <1>1 DEF Reads, Idle
  <1>5. Reads([Idle EXCEPT !.op = op, !.id = i, !.email = e, !.row = r, !.ev = ev],
              op, i, e, r, ev)
    BY <1>2 DEF Reads, Idle
  <1>6. Reads([Idle EXCEPT !.op = op, !.id = i, !.row = r, !.email = e, !.ev = ev],
              op, i, e, r, ev)
    BY <1>3 DEF Reads, Idle
  <1> QED BY <1>4, <1>5, <1>6

LEMMA MovesTo ==
  ASSUME SessInv, NEW s \in Sess, NEW r \in SessRec, Becomes(s, r)
  PROVE  Moves(s, r)
  BY DEF SessInv, Becomes, Moves

LEMMA GoesIdleOf ==
  ASSUME SessInv, NEW s \in Sess, Becomes(s, Idle), UNCHANGED Tables,
         \/ share' = share /\ ~Logged(s)
         \/ share' = [share EXCEPT ![sess[s].row] = @ \ {s}]
  PROVE  GoesIdle(s)
  <1>1. Moves(s, Idle) BY MovesTo, IdleType
  <1>2. share' \in [Rows -> SUBSET Sess] BY DEF SessInv
  <1>3. ASSUME NEW p \in Rows PROVE share'[p] = share[p] \ {s}
    <2>1. CASE share' = share /\ ~Logged(s) BY <2>1, NotShared
    <2>2. CASE share' = [share EXCEPT ![sess[s].row] = @ \ {s}]
      <3>1. CASE p = sess[s].row BY <2>2, <3>1 DEF SessInv
      <3>2. CASE p # sess[s].row
        <4>1. s \notin share[p] BY <3>2 DEF SessInv
        <4> QED BY <4>1, <2>2, <3>2 DEF SessInv
      <3> QED BY <3>1, <3>2
    <2> QED BY <2>1, <2>2
  <1>4. Drops(s) BY <1>2, <1>3 DEF Drops
  <1> QED BY <1>1, <1>4 DEF GoesIdle
-----------------------------------------------------------------------------
\* Every action is one of the shapes.

Lawful == ClerkInv' /\ issued \subseteq issued' /\ Shape

LEMMA ClerkActions ==
  ASSUME IInv, NEW i \in Ids,
         Leave(i) \/ \E e \in Emails: SignUp(i, e) \/ ChangeEmail(i, e)
  PROVE  Lawful
  <1>1. PICK life \in {"alive", "dead"}, e \in Emails, k \in Kinds: ClerkSays(i, life, e, k)
    BY DEF Leave, SignUp, ChangeEmail, Kinds, IInv, ClerkInv
  <1>2. StaysOut BY <1>1 DEF ClerkSays, StaysOut, Tables, creditVars
  <1>3. Becoming(i, life, e, k) /\ UNCHANGED <<acked, dups>> BY <1>1 DEF ClerkSays
  <1>4. ClerkInv' /\ issued \subseteq issued' BY <1>3, ClerkSaysOK DEF IInv, ClerkInv
  <1> QED BY <1>2, <1>4 DEF Lawful, Shape

LEMMA AnsweredAtOnce ==
  ASSUME IInv, NEW ev \in issued,
         CreatedKnown(ev) \/ UpdatedUnknown(ev) \/ DeletedUnknown(ev)
  PROVE  Lawful
  <1>1. /\ Delivered(ev) /\ Answer(ev) /\ StaysOut /\ UNCHANGED <<clerk, issued>>
    BY DEF CreatedKnown, UpdatedUnknown, DeletedUnknown, StaysOut, Tables, clerkVars,
           creditVars
  <1>2. acked' \subseteq issued BY <1>1, AnswerOK DEF IInv
  <1>3. dups' \in 0 .. MaxDups BY <1>1, DeliveredOK DEF IInv
  <1> QED BY <1>1, <1>2, <1>3, ClerkFrame DEF IInv, Lawful, Shape

LEMMA AddressFollows ==
  ASSUME IInv, NEW ev \in issued, UpdatedKnown(ev)
  PROVE  Lawful
  <1>1. /\ Delivered(ev) /\ Answer(ev) /\ UNCHANGED <<clerk, issued>>
    BY DEF UpdatedKnown, clerkVars
  <1>2. acked' \subseteq issued BY <1>1, AnswerOK DEF IInv
  <1>3. dups' \in 0 .. MaxDups /\ ev.email \in Emails BY <1>1, DeliveredOK DEF IInv
  <1>4. PICK r \in RowsWithClerk(ev.id):
          /\ Live(r) /\ RowsWithEmail(ev.email) \subseteq {r}
          /\ users' = [users EXCEPT ![r].email = ev.email]
          /\ moved' = IF users[r].email = ev.email THEN moved
                      ELSE [moved EXCEPT ![users[r].email] = @ + 1]
    BY DEF UpdatedKnown
  <1>5. r \in Rows BY DEF RowsWithClerk
  <1>6. Updates(r, ev.email) BY <1>3, <1>4, <1>5 DEF Updates, UpdatedKnown, creditVars
  <1> QED BY <1>1, <1>2, <1>3, <1>5, <1>6, ClerkFrame DEF IInv, Lawful, Shape

\* A session that opens.
LEMMA OpenShape ==
  ASSUME IInv, NEW s \in Sess, Starts(s), UNCHANGED <<clerk, issued, acked, Tables, share>>,
         dups' \in 0 .. MaxDups,
         NEW n, Becomes(s, n), NEW op \in Ops, NEW i \in Ids, NEW e \in Emails \cup {None},
         NEW r \in Rows \cup {None}, NEW ev \in Event \cup {None},
         Reads(n, op, i, e, r, ev),
         op \in {"jit", "create"} => e \in Emails,
         op \in {"relink", "delete", "close", "erase"} => r \in Rows,
         op \in {"delete", "close", "erase"} => e = users[r].email,
         ev = None \/ ev \in issued
  PROVE  Lawful
  <1>1. n \in SessRec /\ Moves(s, n) BY MovesTo DEF IInv, TableInv, Reads
  <1>2. RecordOK(n) BY DEF Reads, RecordOK
  <1>3. OpensOn(s, n) BY <1>1, <1>2 DEF OpensOn, Reads, Starts
  <1>4. ClerkInv' /\ issued \subseteq issued' BY DEF IInv, ClerkInv
  <1> QED BY <1>1, <1>3, <1>4 DEF Lawful, Shape

LEMMA JitOpens ==
  ASSUME IInv, NEW s \in Sess, NEW i \in Ids, JitRead(s, i)
  PROVE  Lawful
  <1> DEFINE n == [Idle EXCEPT !.op = "jit", !.id = i, !.email = clerk[i].email]
  <1>1. /\ Starts(s) /\ Becomes(s, n) /\ clerk[i].email \in Emails
        /\ UNCHANGED <<clerk, issued, acked, dups, Tables, share>>
    BY DEF JitRead, IInv, ClerkInv, Tables, clerkVars, creditVars
  <1>2. Reads(n, "jit", i, clerk[i].email, None, None) BY <1>1, OpenRecords DEF Ops
  <1>3. dups' \in 0 .. MaxDups BY <1>1 DEF IInv, ClerkInv
  <1> HIDE DEF n
  <1> QED BY <1>1, <1>2, <1>3, OpenShape DEF Ops

LEMMA CreatedOpens ==
  ASSUME IInv, NEW s \in Sess, NEW ev \in issued, CreatedRead(s, ev)
  PROVE  Lawful
  <1>1. /\ Starts(s) /\ Delivered(ev) /\ UNCHANGED <<clerk, issued, acked, Tables, share>>
    BY DEF CreatedRead, Tables, clerkVars, creditVars
  <1>2. /\ dups' \in 0 .. MaxDups /\ ev \in Event /\ ev.id \in Ids /\ ev.email \in Emails
    BY <1>1, DeliveredOK DEF IInv, ClerkInv
  <1>3. PICK r \in IF RowsWithEmail(ev.email) = {} THEN {None} ELSE RowsWithEmail(ev.email):
          Becomes(s, [Idle EXCEPT !.op = IF r = None THEN "create" ELSE "relink",
                         !.id = ev.id, !.email = ev.email, !.row = r, !.ev = ev])
    BY DEF CreatedRead
  <1>4. r \in Rows \cup {None} BY <1>3 DEF RowsWithEmail
  <1>5. PICK op \in Ops: op = IF r = None THEN "create" ELSE "relink" BY DEF Ops
  <1> DEFINE n == [Idle EXCEPT !.op = op, !.id = ev.id, !.email = ev.email, !.row = r,
                               !.ev = ev]
  <1>6. Becomes(s, n) BY <1>3, <1>5
  <1>7. Reads(n, op, ev.id, ev.email, r, ev) BY <1>2, <1>4, OpenRecords
  <1>8. op = "create" \/ (op = "relink" /\ r \in Rows) BY <1>4, <1>5
  <1> HIDE DEF n
  <1> QED BY <1>1, <1>2, <1>4, <1>6, <1>7, <1>8, OpenShape

LEMMA ClosingOpens ==
  ASSUME IInv, NEW s \in Sess, NEW op \in {"delete", "close", "erase"}, NEW i \in Ids,
         NEW r \in RowsWithClerk(i), NEW ev \in Event \cup {None}, ev = None \/ ev \in issued,
         Starts(s), Opens(s, op, i, r, ev), dups' \in 0 .. MaxDups,
         UNCHANGED <<clerk, issued, acked, Tables, share>>
  PROVE  Lawful
  <1> DEFINE n == [Idle EXCEPT !.op = op, !.id = i, !.row = r, !.email = users[r].email,
                               !.ev = ev]
  <1>1. Becomes(s, n) BY DEF Opens
  <1>2. r \in Rows /\ op \in Ops BY DEF RowsWithClerk, Ops
  <1>3. users[r].email \in Emails \cup {None}
    BY <1>2 DEF IInv, TableInv, RowInv, UserRec
  <1>4. Reads(n, op, i, users[r].email, r, ev) BY <1>2, <1>3, OpenRecords
  <1> HIDE DEF n
  <1> QED BY <1>1, <1>2, <1>3, <1>4, OpenShape

LEMMA ClosingReads ==
  ASSUME IInv, NEW s \in Sess,
         \/ \E ev \in issued: DeletedRead(s, ev)
         \/ \E i \in Ids: ReconcileRead(s, i) \/ \E op \in {"close", "erase"}: AskedRead(s, op, i)
  PROVE  Lawful
  <1>1. CASE \E ev \in issued: DeletedRead(s, ev)
    <2>1. PICK ev \in issued: DeletedRead(s, ev) BY <1>1
    <2>2. /\ Starts(s) /\ Delivered(ev) /\ UNCHANGED <<clerk, issued, acked, Tables, share>>
      BY <2>1 DEF DeletedRead, Tables, clerkVars, creditVars
    <2>3. /\ dups' \in 0 .. MaxDups /\ ev \in Event /\ ev.id \in Ids
      BY <2>2, DeliveredOK DEF IInv, ClerkInv
    <2>4. PICK r \in RowsWithClerk(ev.id): Opens(s, "delete", ev.id, r, ev)
      BY <2>1 DEF DeletedRead
    <2> QED BY <2>2, <2>3, <2>4, ClosingOpens
  <1>2. CASE \E i \in Ids: ReconcileRead(s, i) \/ \E op \in {"close", "erase"}: AskedRead(s, op, i)
    <2>1. PICK i \in Ids, op \in {"delete", "close", "erase"}:
            /\ Starts(s) /\ \E r \in RowsWithClerk(i): Opens(s, op, i, r, None)
            /\ UNCHANGED <<clerk, issued, acked, dups, Tables, share>>
      BY <1>2 DEF ReconcileRead, AskedRead, Tables, clerkVars, creditVars
    <2>2. PICK r \in RowsWithClerk(i): Opens(s, op, i, r, None) BY <2>1
    <2>3. dups' \in 0 .. MaxDups BY <2>1 DEF IInv, ClerkInv
    <2> QED BY <2>1, <2>2, <2>3, ClosingOpens
  <1> QED BY <1>1, <1>2

\* A session that ends, or moves on.
LEMMA FailsIdle ==
  ASSUME IInv, NEW s \in Sess, CreatedFails(s) \/ DeleteFails(s) \/ EraseFails(s)
  PROVE  Lawful
  <1>1. /\ Becomes(s, Idle) /\ UNCHANGED <<clerk, issued, acked, dups, Tables>>
        /\ \/ share' = share /\ ~Logged(s)
           \/ share' = [share EXCEPT ![sess[s].row] = @ \ {s}]
    BY DEF CreatedFails, DeleteFails, EraseFails, Doing, Logged, Tables, clerkVars,
           creditVars
  <1>2. GoesIdle(s) BY <1>1, GoesIdleOf DEF IInv, TableInv
  <1>3. ClerkInv' /\ issued \subseteq issued' BY <1>1 DEF IInv, ClerkInv
  <1> QED BY <1>2, <1>3 DEF Lawful, Shape

LEMMA JitResolves ==
  ASSUME IInv, NEW s \in Sess, JitConflict(s)
  PROVE  Lawful
  <1>1. /\ Becomes(s, Idle) /\ ~Logged(s) /\ sess[s].id \in Ids
        /\ UNCHANGED <<clerk, issued, acked, dups, wallet, archived, erasures, bonus,
                       suppressed, moved, share>>
    BY DEF JitConflict, Doing, Logged, clerkVars, creditVars, IInv, TableInv, SessInv, RecordOK
  <1>2. Moves(s, Idle) BY <1>1, MovesTo, IdleType DEF IInv, TableInv
  <1>3. ClerkInv' /\ issued \subseteq issued' BY <1>1 DEF IInv, ClerkInv
  <1>4. CASE users' = users
    <2>1. UNCHANGED Tables BY <1>1, <1>4 DEF Tables
    <2>2. GoesIdle(s) BY <2>1, <1>1, GoesIdleOf DEF IInv, TableInv
    <2> QED BY <1>3, <2>2 DEF Lawful, Shape
  <1>5. CASE \E r \in Relinkable(sess[s].id, sess[s].email):
               users' = [users EXCEPT ![r].clerk = sess[s].id]
    <2>1. PICK r \in Relinkable(sess[s].id, sess[s].email):
            users' = [users EXCEPT ![r].clerk = sess[s].id]
      BY <1>5
    <2>2. r \in Rows /\ Present(r) /\ RowsWithClerk(sess[s].id) \subseteq {r}
      BY DEF Relinkable, RowsWithEmail
    <2>3. Relinks(s, r, sess[s].id) BY <1>1, <1>2, <2>1, <2>2 DEF Relinks
    <2> QED BY <1>1, <1>3, <2>2, <2>3 DEF Lawful, Shape
  <1> QED BY <1>4, <1>5 DEF JitConflict

LEMMA RowInserted ==
  ASSUME IInv, NEW s \in Sess, JitInsert(s) \/ CreatedInsert(s)
  PROVE  Lawful
  <1>1. /\ Becomes(s, Idle) /\ ~Logged(s) /\ sess[s].id \in Ids /\ sess[s].email \in Emails
        /\ Conflicts(sess[s].id, sess[s].email) = {} /\ Unused # {}
        /\ Insert(Fresh, sess[s].id, sess[s].email)
        /\ UNCHANGED <<clerk, issued, dups, archived, erasures, suppressed, moved, share>>
        /\ acked' = acked \/ Answer(sess[s].ev)
        /\ sess[s].ev = None \/ sess[s].ev \in issued
    BY DEF JitInsert, CreatedInsert, Doing, Logged, clerkVars, IInv, TableInv, SessInv,
           RecordOK
  <1>2. Moves(s, Idle) BY <1>1, MovesTo, IdleType DEF IInv, TableInv
  <1>3. Inserts(s, sess[s].id, sess[s].email) BY <1>1, <1>2 DEF Inserts
  <1>4. acked' \subseteq issued BY <1>1, AnswerOK DEF IInv, ClerkInv
  <1>5. ClerkInv' /\ issued \subseteq issued'
    BY <1>1, <1>4, ClerkFrame DEF IInv, ClerkInv
  <1> QED BY <1>1, <1>3, <1>5 DEF Lawful, Shape

LEMMA RowRelinked ==
  ASSUME IInv, NEW s \in Sess, RelinkCommit(s)
  PROVE  Lawful
  <1>1. /\ Becomes(s, Idle) /\ ~Logged(s) /\ sess[s].id \in Ids /\ sess[s].row \in Rows
        /\ Present(sess[s].row) /\ RowsWithClerk(sess[s].id) \subseteq {sess[s].row}
        /\ users' = [users EXCEPT ![sess[s].row].clerk = sess[s].id]
        /\ UNCHANGED <<clerk, issued, dups, wallet, archived, erasures, bonus, suppressed,
                       moved, share>>
        /\ Answer(sess[s].ev)
        /\ sess[s].ev = None \/ sess[s].ev \in issued
    BY DEF RelinkCommit, Doing, Logged, clerkVars, creditVars, IInv, TableInv, SessInv,
           RecordOK
  <1>2. Moves(s, Idle) BY <1>1, MovesTo, IdleType DEF IInv, TableInv
  <1>3. Relinks(s, sess[s].row, sess[s].id) BY <1>1, <1>2 DEF Relinks
  <1>4. acked' \subseteq issued BY <1>1, AnswerOK DEF IInv
  <1>5. ClerkInv' /\ issued \subseteq issued'
    BY <1>1, <1>4, ClerkFrame DEF IInv, ClerkInv
  <1> QED BY <1>1, <1>3, <1>5 DEF Lawful, Shape

LEMMA LoggedRecord ==
  ASSUME IInv, NEW s \in Sess, sess[s].row \in Rows,
         Becomes(s, [sess[s] EXCEPT !.at = "logged", !.credits = wallet[sess[s].row]])
  PROVE  Moves(s, [sess[s] EXCEPT !.at = "logged", !.credits = wallet[sess[s].row]])
  <1> DEFINE n == [sess[s] EXCEPT !.at = "logged", !.credits = wallet[sess[s].row]]
  <1>1. sess[s] \in SessRec /\ wallet[sess[s].row] \in 0 .. 1
    BY DEF IInv, TableInv, SessInv, RowInv
  <1>2. n \in SessRec BY <1>1 DEF SessRec
  <1> HIDE DEF n
  <1>3. Becomes(s, n) => Moves(s, n) BY <1>2, MovesTo DEF IInv, TableInv
  <1> QED BY <1>3 DEF n

LEMMA LogsAnEntry ==
  ASSUME IInv, NEW s \in Sess, DeleteLog(s) \/ EraseArchive(s)
  PROVE  Lawful
  <1>1. sess[s].row \in Rows
    BY DEF DeleteLog, EraseArchive, Doing, IInv, TableInv, SessInv, RecordOK
  <1>2. ClerkInv' /\ issued \subseteq issued'
    BY DEF DeleteLog, EraseArchive, clerkVars, IInv, ClerkInv
  <1>3. Moves(s, [sess[s] EXCEPT !.at = "logged", !.credits = wallet[sess[s].row]])
    BY <1>1, LoggedRecord DEF DeleteLog, EraseArchive
  <1>4. CASE DeleteLog(s)
    <2>1. LogsDelete(s) BY <1>3, <1>4 DEF DeleteLog, LogsDelete, Tables, creditVars
    <2> QED BY <1>2, <2>1 DEF Lawful, Shape
  <1>5. CASE EraseArchive(s)
    <2>1. LogsErase(s) BY <1>3, <1>5 DEF EraseArchive, LogsErase, Tables, creditVars, Doing
    <2> QED BY <1>2, <2>1 DEF Lawful, Shape
  <1> QED BY <1>4, <1>5

LEMMA RowDeleted ==
  ASSUME IInv, NEW s \in Sess, DeleteCommit(s)
  PROVE  Lawful
  <1>1. /\ Becomes(s, Idle) /\ Logged(s) /\ sess[s].id \in Ids
        /\ Answer(sess[s].ev)
        /\ sess[s].ev = None \/ sess[s].ev \in issued
        /\ UNCHANGED <<dups, erasures, bonus, moved>>
    BY DEF DeleteCommit, Logged, IInv, TableInv, SessInv, RecordOK
  <1>2. Moves(s, Idle) BY <1>1, MovesTo, IdleType DEF IInv, TableInv
  <1>3. Deletes(s) BY <1>1, <1>2 DEF DeleteCommit, Deletes
  <1>4. acked' \subseteq issued BY <1>1, AnswerOK DEF IInv
  <1>5. CASE UNCHANGED clerkVars
    <2>1. ClerkInv' /\ issued \subseteq issued'
      BY <1>1, <1>4, <1>5, ClerkFrame DEF IInv, ClerkInv, clerkVars
    <2> QED BY <1>3, <2>1 DEF Lawful, Shape
  <1>6. CASE /\ clerk[sess[s].id].life = "alive"
             /\ Becoming(sess[s].id, "dead", clerk[sess[s].id].email, "deleted")
    <2>1. clerk[sess[s].id].email \in Emails BY <1>1, <1>6 DEF IInv, ClerkInv
    <2>2. PICK i \in Ids, e \in Emails, life \in {"alive", "dead"}, k \in Kinds:
            Becoming(i, life, e, k)
      BY <1>1, <1>6, <2>1 DEF Kinds
    <2>3. ClerkInv' /\ issued \subseteq issued'
      BY <1>1, <1>4, <2>2, ClerkSaysOK DEF IInv, ClerkInv
    <2> QED BY <1>3, <2>3 DEF Lawful, Shape
  <1> QED BY <1>5, <1>6 DEF DeleteCommit

LEMMA RowAnonymized ==
  ASSUME IInv, NEW s \in Sess, EraseCommit(s)
  PROVE  Lawful
  <1>1. Becomes(s, Idle) /\ UNCHANGED <<clerk, issued, acked, dups>>
    BY DEF EraseCommit, Erases, clerkVars
  <1>2. Moves(s, Idle) BY <1>1, MovesTo, IdleType DEF IInv, TableInv
  <1>3. Anonymizes(s) BY <1>2 DEF EraseCommit, Erases, Anonymizes, Doing
  <1>4. ClerkInv' /\ issued \subseteq issued' BY <1>1 DEF IInv, ClerkInv
  <1> QED BY <1>3, <1>4 DEF Lawful, Shape

LEMMA EveryStep ==
  ASSUME IInv, [Next]_vars
  PROVE  Lawful
  <1>1. CASE ClerkActs BY <1>1, ClerkActions DEF ClerkActs
  <1>2. CASE \E ev \in issued: Delivers(ev)
    <2>1. PICK ev \in issued: Delivers(ev) BY <1>2
    <2>2. CASE CreatedKnown(ev) \/ UpdatedUnknown(ev) \/ DeletedUnknown(ev)
      BY <2>2, AnsweredAtOnce
    <2>3. CASE UpdatedKnown(ev) BY <2>3, AddressFollows
    <2>4. CASE \E s \in Sess: CreatedRead(s, ev) BY <2>4, CreatedOpens
    <2>5. CASE \E s \in Sess: DeletedRead(s, ev) BY <2>5, ClosingReads
    <2> QED BY <2>1, <2>2, <2>3, <2>4, <2>5 DEF Delivers
  <1>3. ASSUME NEW s \in Sess, Ends(s) PROVE Lawful
    <2>1. CASE JitInsert(s) \/ CreatedInsert(s) BY <2>1, RowInserted
    <2>2. CASE JitConflict(s) BY <2>2, JitResolves
    <2>3. CASE RelinkCommit(s) BY <2>3, RowRelinked
    <2>4. CASE CreatedFails(s) \/ DeleteFails(s) \/ EraseFails(s) BY <2>4, FailsIdle
    <2>5. CASE DeleteLog(s) \/ EraseArchive(s) BY <2>5, LogsAnEntry
    <2>6. CASE DeleteCommit(s) BY <2>6, RowDeleted
    <2>7. CASE EraseCommit(s) BY <2>7, RowAnonymized
    <2> QED BY <1>3, <2>1, <2>2, <2>3, <2>4, <2>5, <2>6, <2>7 DEF Ends
  <1>4. ASSUME NEW s \in Sess, NEW i \in Ids, Requests(s, i) PROVE Lawful
    <2>1. CASE JitRead(s, i) BY <2>1, JitOpens
    <2>2. CASE ReconcileRead(s, i) \/ \E op \in {"close", "erase"}: AskedRead(s, op, i)
      BY <2>2, ClosingReads
    <2> QED BY <1>4, <2>1, <2>2 DEF Requests
  <1>5. CASE UNCHANGED vars
    <2>1. StaysOut BY <1>5 DEF vars, StaysOut, Tables
    <2>2. ClerkInv' /\ issued \subseteq issued' BY <1>5 DEF vars, IInv, ClerkInv
    <2> QED BY <2>1, <2>2 DEF Lawful, Shape
  <1> QED BY <1>1, <1>2, <1>3, <1>4, <1>5 DEF Next

LEMMA ShapeStep == TableInv /\ issued \subseteq issued' /\ Shape => TableInv'
  <1> SUFFICES ASSUME TableInv, issued \subseteq issued', Shape PROVE TableInv' OBVIOUS
  <1>1. CASE StaysOut BY <1>1, StaysOutStep
  <1>2. ASSUME NEW s \in Sess,
               \/ \E r \in SessRec: OpensOn(s, r)
               \/ GoesIdle(s) \/ LogsDelete(s) \/ LogsErase(s)
               \/ \E i \in Ids, e \in Emails: Inserts(s, i, e)
               \/ \E r \in Rows, i \in Ids: Relinks(s, r, i)
               \/ Deletes(s) \/ Anonymizes(s)
        PROVE  TableInv'
    <2>1. CASE \E r \in SessRec: OpensOn(s, r) BY <2>1, OpensStep
    <2>2. CASE GoesIdle(s) BY <2>2, GoesIdleStep
    <2>3. CASE LogsDelete(s) BY <2>3, LogsDeleteStep
    <2>4. CASE LogsErase(s) BY <2>4, LogsEraseStep
    <2>5. CASE \E i \in Ids, e \in Emails: Inserts(s, i, e) BY <2>5, InsertStep
    <2>6. CASE \E r \in Rows, i \in Ids: Relinks(s, r, i) BY <2>6, RelinkStep
    <2>7. CASE Deletes(s) BY <2>7, DeleteStep
    <2>8. CASE Anonymizes(s) BY <2>8, AnonymizeStep
    <2> QED BY <1>2, <2>1, <2>2, <2>3, <2>4, <2>5, <2>6, <2>7, <2>8
  <1>3. CASE \E r \in Rows, e \in Emails: Updates(r, e) BY <1>3, UpdateStep
  <1> QED BY <1>1, <1>2, <1>3 DEF Shape

LEMMA InitIInv == Init => IInv
  <1> SUFFICES ASSUME Init PROVE IInv OBVIOUS
  <1>1. ClerkInv BY AccountsAssumption DEF Init, ClerkInv
  <1>2. \A r \in Rows: users[r] = NoRow /\ ~Present(r) /\ ~Live(r)
    BY DEF Init, NoRow, Present, Live
  <1>3. \A s \in Sess: ~Logged(s) /\ ~Closes(s) /\ RecordOK(sess[s])
    BY IdleType DEF Init, Logged, Closes, RecordOK
  <1>4. RowInv
    <2>1. users \in [Rows -> UserRec] BY IdleType DEF Init
    <2>2. \A r \in Rows: RowOK(r) BY <1>2 DEF Init, RowOK
    <2> QED BY <1>2, <2>1, <2>2 DEF Init, RowInv, RowsWithClerk, RowsWithEmail
  <1>5. SessInv BY <1>3, IdleType DEF Init, SessInv, LockOK
  <1>6. BonusInv BY <1>2, <1>3 DEF Init, BonusInv, MovedUnder, Paid
  <1> QED BY <1>1, <1>4, <1>5, <1>6 DEF IInv, TableInv
-----------------------------------------------------------------------------
\* The inductive invariant, and what follows from it.

THEOREM Invariance == Spec => []IInv
  <1>1. IInv /\ [Next]_vars => IInv' BY EveryStep, ShapeStep DEF IInv, Lawful
  <1> QED BY InitIInv, <1>1, PTL DEF Spec

LEMMA AtMostOne ==
  ASSUME NEW S, \A q, r \in S: q = r
  PROVE  Cardinality(S) <= 1
  <1>1. CASE S = {} BY <1>1, FS_EmptySet
  <1>2. CASE S # {}
    <2>1. PICK q \in S: TRUE BY <1>2
    <2>2. S = {q} BY <2>1
    <2>3. Cardinality({q}) = 1 BY FS_Singleton
    <2> QED BY <2>2, <2>3
  <1> QED BY <1>1, <1>2

\* Whatever provisioning, webhooks and deletions race, no two rows ever have the same
\* identity or the same address, and a live account has an address.
THEOREM AccountTypes == Spec => []TypeOK
  <1>1. IInv => TypeOK
    <2> SUFFICES ASSUME IInv PROVE TypeOK OBVIOUS
    <2>1. \A i \in Ids: Cardinality(RowsWithClerk(i)) <= 1
      BY AtMostOne DEF IInv, TableInv, RowInv
    <2>2. \A e \in Emails: Cardinality(RowsWithEmail(e)) <= 1
      BY AtMostOne DEF IInv, TableInv, RowInv
    <2>3. \A r \in Rows: Live(r) => users[r].email # None
      BY AccountsAssumption DEF IInv, TableInv, RowInv, RowOK
    <2> QED BY <2>1, <2>2, <2>3
            DEF TypeOK, IInv, ClerkInv, TableInv, RowInv, UserRec, SessInv
  <1> QED BY <1>1, Invariance, PTL

\* The suppression list does its work for any number of sign-ups and closures: accounts
\* of one address get one welcome bonus, and one more for each that was moved off it.
THEOREM BonusSound == Spec => []BonusOncePerEmail
  <1>1. IInv => BonusOncePerEmail BY DEF IInv, TableInv, BonusInv, BonusOncePerEmail
  <1> QED BY <1>1, Invariance, PTL

\* FOR KEY SHARE makes hard deletes of a row take turns, so that each archives what the
\* one before left: no history is archived twice but by erasures that overlap.
THEOREM ArchiveSound == Spec => []ArchivedOnce
  <1>1. IInv => ArchivedOnce
    BY DEF IInv, TableInv, RowInv, RowOK, ArchivedOnce
  <1> QED BY <1>1, Invariance, PTL
-----------------------------------------------------------------------------
\* An erasure has read at least the credits that its row still has: only an insertion
\* pays, and it takes no row that a session has read.
HistRead(s) == sess[s].op = "erase" /\ sess[s].at = "logged" => wallet[sess[s].row] <= sess[s].credits
HistInv == HistoryKept /\ \A s \in Sess: HistRead(s)

\* What the sums of a step's wallets and archives can do.
LEMMA SumsMove ==
  ASSUME NEW D, IsFiniteSet(D), NEW f \in [D -> Int], NEW g \in [D -> Int], NEW x \in D,
         \A y \in D \ {x}: g[y] = f[y]
  PROVE  /\ SumFunction(f) \in Int /\ SumFunction(g) \in Int
         /\ SumFunction(g) = SumFunction(f) - f[x] + g[x]
  <1>1. DOMAIN f = D /\ DOMAIN g = D OBVIOUS
  <1>2. SumFunction(f) = SumFunctionOnSet(f, D) /\ SumFunction(g) = SumFunctionOnSet(g, D)
    BY <1>1 DEF SumFunction
  <1>3. SumFunctionOnSet(f, D) \in Int /\ SumFunctionOnSet(g, D) \in Int BY SumElements
  <1>4. SumFunctionOnSet(g, D) = SumFunctionOnSet(f, D) - f[x] + g[x] BY SumExcept
  <1> QED BY <1>2, <1>3, <1>4

LEMMA SumTypes ==
  ASSUME RowInv
  PROVE  SumFunction(bonus) \in Int /\ SumFunction(wallet) \in Int /\ SumFunction(archived) \in Int
  <1>1. /\ bonus \in [Emails -> Nat] /\ wallet \in [Rows -> 0 .. 1]
        /\ archived \in [Rows -> Nat]
    BY DEF RowInv
  <1> QED BY <1>1, AccountsAssumption, SumElements DEF SumFunction

\* A row that is inserted is paid into; a row that is closed is archived.
LEMMA InsertHistory ==
  ASSUME TableInv, HistInv, NEW s \in Sess, NEW i \in Ids, NEW e \in Emails, Inserts(s, i, e),
         RowInv'
  PROVE  HistoryKept'
  <1>1. CASE e \in suppressed
    <2>1. UNCHANGED <<wallet, bonus, archived>> BY <1>1 DEF Inserts, Insert
    <2> QED BY <2>1 DEF HistInv, HistoryKept
  <1>2. CASE e \notin suppressed
    <2>1. /\ wallet' = [wallet EXCEPT ![Fresh] = 1] /\ bonus' = [bonus EXCEPT ![e] = @ + 1]
          /\ archived' = archived /\ Unused # {}
      BY <1>2 DEF Inserts, Insert
    <2>2. Fresh \in Rows /\ users[Fresh] = NoRow BY <2>1, FreshUnused DEF Unused
    <2>3. wallet \in [Rows -> 0 .. 1] /\ bonus \in [Emails -> Nat]
      BY DEF TableInv, RowInv
    <2>4. wallet[Fresh] = 0
      <3>1. ~Present(Fresh) BY <2>2, IdleType DEF Present
      <3> QED BY <2>2, <2>3, <3>1 DEF TableInv, RowInv, RowOK
    <2>5. wallet' \in [Rows -> 0 .. 1] /\ bonus' \in [Emails -> Nat] BY <2>1, <2>2, <2>3
    <2>6. \A r \in Rows \ {Fresh}: wallet'[r] = wallet[r] BY <2>1, <2>3
    <2>7. wallet'[Fresh] = 1 BY <2>1, <2>2, <2>3
    <2>8. SumFunction(wallet') = SumFunction(wallet) + 1
      <3>1. wallet \in [Rows -> Int] /\ wallet' \in [Rows -> Int] BY <2>3, <2>5
      <3>2. SumFunction(wallet) \in Int /\ SumFunction(wallet') \in Int
            /\ SumFunction(wallet') = SumFunction(wallet) - wallet[Fresh] + wallet'[Fresh]
        BY <3>1, <2>2, <2>6, SumsMove, AccountsAssumption
      <3> QED BY <3>2, <2>4, <2>7
    <2>9. SumFunction(bonus') = SumFunction(bonus) + 1
      <3>1. bonus \in [Emails -> Int] /\ bonus' \in [Emails -> Int] BY <2>3, <2>5
      <3>2. (\A y \in Emails \ {e}: bonus'[y] = bonus[y]) /\ bonus'[e] = bonus[e] + 1
        BY <2>1, <2>3
      <3>3. SumFunction(bonus) \in Int /\ SumFunction(bonus') \in Int
            /\ SumFunction(bonus') = SumFunction(bonus) - bonus[e] + bonus'[e]
        BY <3>1, <3>2, SumsMove, AccountsAssumption
      <3> QED BY <3>1, <3>2, <3>3
    <2>10. SumFunction(archived') = SumFunction(archived) BY <2>1
    <2>11. /\ SumFunction(archived) \in Int /\ SumFunction(bonus) \in Int
           /\ SumFunction(wallet) \in Int
      BY SumTypes DEF TableInv
    <2>12. SumFunction(bonus') <= SumFunction(wallet') + SumFunction(archived')
      BY <2>8, <2>9, <2>10, <2>11 DEF HistInv, HistoryKept
    <2> QED BY <2>12 DEF HistoryKept
  <1> QED BY <1>1, <1>2

LEMMA CloseHistory ==
  ASSUME TableInv, HistInv, NEW q \in Rows, NEW k \in 0 .. 1, wallet[q] <= k,
         wallet' = [wallet EXCEPT ![q] = 0], archived' = [archived EXCEPT ![q] = @ + k],
         bonus' = bonus
  PROVE  HistoryKept'
  <1>1. wallet \in [Rows -> Int] /\ archived \in [Rows -> Int] BY DEF TableInv, RowInv
  <1>2. wallet' \in [Rows -> Int] /\ archived' \in [Rows -> Int] BY <1>1
  <1>3. /\ \A r \in Rows \ {q}: wallet'[r] = wallet[r] /\ archived'[r] = archived[r]
        /\ wallet'[q] = 0 /\ archived'[q] = archived[q] + k
    BY <1>1
  <1>0. IsFiniteSet(Rows) BY AccountsAssumption
  <1>4. /\ SumFunction(wallet) \in Int /\ SumFunction(wallet') \in Int
        /\ SumFunction(wallet') = SumFunction(wallet) - wallet[q] + wallet'[q]
    <2>1. \A r \in Rows \ {q}: wallet'[r] = wallet[r] BY <1>3
    <2> QED BY ONLY <1>0, <1>1, <1>2, <2>1, SumsMove, q \in Rows
  <1>5. /\ SumFunction(archived) \in Int /\ SumFunction(archived') \in Int
        /\ SumFunction(archived') = SumFunction(archived) - archived[q] + archived'[q]
    <2>1. \A r \in Rows \ {q}: archived'[r] = archived[r] BY <1>3
    <2> QED BY ONLY <1>0, <1>1, <1>2, <2>1, SumsMove, q \in Rows
  <1>6. SumFunction(bonus) \in Int /\ SumFunction(bonus') = SumFunction(bonus)
    BY SumTypes DEF TableInv
  <1>7. wallet[q] \in Int /\ archived[q] \in Int BY <1>1
  <1>8. SumFunction(bonus') <= SumFunction(wallet') + SumFunction(archived')
    BY <1>3, <1>4, <1>5, <1>6, <1>7 DEF HistInv, HistoryKept
  <1> QED BY <1>8 DEF HistoryKept

\* A session that moves keeps what the others have read, unless a wallet is filled.
LEMMA ReadsKeep ==
  ASSUME TableInv, HistInv, NEW s \in Sess, NEW r \in SessRec, Moves(s, r),
         r.op = "erase" /\ r.at = "logged" => r.row \in Rows /\ wallet'[r.row] <= r.credits,
         \A t \in Sess \ {s}: sess[t].row \in Rows => wallet'[sess[t].row] <= wallet[sess[t].row],
         wallet' \in [Rows -> 0 .. 1]
  PROVE  \A t \in Sess: HistRead(t)'
  <1> SUFFICES ASSUME NEW t \in Sess PROVE HistRead(t)' OBVIOUS
  <1>1. CASE t = s BY <1>1 DEF Moves, HistRead
  <1>2. CASE t # s
    <2>1. sess'[t] = sess[t] BY <1>2 DEF Moves
    <2>2. HistRead(t) /\ RecordOK(sess[t]) BY DEF HistInv, TableInv, SessInv
    <2>3. CASE ~(sess[t].op = "erase" /\ sess[t].at = "logged") BY <2>1, <2>3 DEF HistRead
    <2>4. CASE sess[t].op = "erase" /\ sess[t].at = "logged"
      <3>1. sess[t].row \in Rows BY <2>2, <2>4 DEF RecordOK
      <3>2. wallet'[sess[t].row] <= wallet[sess[t].row] BY <1>2, <3>1
      <3>3. wallet[sess[t].row] <= sess[t].credits BY <2>2, <2>4 DEF HistRead
      <3>4. sess[t].credits \in Int /\ wallet[sess[t].row] \in Int /\ wallet'[sess[t].row] \in Int
        BY <3>1 DEF TableInv, SessInv, SessRec, RowInv
      <3>5. wallet'[sess[t].row] <= sess[t].credits BY <3>2, <3>3, <3>4
      <3> QED BY <2>1, <3>5 DEF HistRead
    <2> QED BY <2>3, <2>4
  <1> QED BY <1>1, <1>2

LEMMA HistoryStep ==
  ASSUME TableInv, HistInv, Shape, TableInv'
  PROVE  HistInv'
  <1>0. wallet \in [Rows -> 0 .. 1] /\ wallet' \in [Rows -> 0 .. 1] BY DEF TableInv, RowInv
  <1>t. \A r \in Rows: wallet[r] \in Int /\ wallet[r] <= wallet[r] BY <1>0
  <1>i. Idle \in SessRec /\ Idle.op # "erase" BY IdleType
  <1>u. ASSUME UNCHANGED Tables PROVE HistoryKept' BY <1>u DEF Tables, HistInv, HistoryKept
  <1>1. CASE StaysOut
    <2>1. \A s \in Sess: HistRead(s)' BY <1>1 DEF StaysOut, Tables, HistInv, HistRead
    <2> QED BY <1>1, <1>u, <2>1 DEF StaysOut, HistInv
  <1>2. ASSUME NEW s \in Sess, NEW r \in SessRec, OpensOn(s, r) PROVE HistInv'
    <2>1. Moves(s, r) /\ r.at = "read" /\ UNCHANGED Tables BY <1>2 DEF OpensOn
    <2>2. wallet' = wallet BY <2>1 DEF Tables
    <2>3. \A t \in Sess: HistRead(t)' BY <1>0, <1>t, <2>1, <2>2, ReadsKeep
    <2> QED BY <1>u, <2>1, <2>3 DEF HistInv
  <1>3. ASSUME NEW s \in Sess, GoesIdle(s) PROVE HistInv'
    <2>1. Moves(s, Idle) /\ UNCHANGED Tables BY <1>3 DEF GoesIdle
    <2>2. wallet' = wallet BY <2>1 DEF Tables
    <2>3. \A t \in Sess: HistRead(t)' BY <1>0, <1>t, <1>i, <2>1, <2>2, ReadsKeep
    <2> QED BY <1>u, <2>1, <2>3 DEF HistInv
  <1>4. ASSUME NEW s \in Sess, LogsDelete(s) \/ LogsErase(s) PROVE HistInv'
    <2> DEFINE r == [sess[s] EXCEPT !.at = "logged", !.credits = wallet[sess[s].row]]
    <2>1. /\ Moves(s, r) /\ UNCHANGED Tables
          /\ sess[s].op \in {"delete", "close", "erase"}
      BY <1>4 DEF LogsDelete, LogsErase
    <2>2. sess[s].row \in Rows /\ sess[s] \in SessRec
      BY <2>1 DEF TableInv, SessInv, RecordOK
    <2>3. wallet[sess[s].row] \in 0 .. 1 BY <1>0, <2>2
    <2>4. r \in SessRec /\ r.row = sess[s].row /\ r.credits = wallet[sess[s].row]
      BY <2>2, <2>3 DEF SessRec
    <2>5. wallet' = wallet BY <2>1 DEF Tables
    <2> HIDE DEF r
    <2>6. \A t \in Sess: HistRead(t)' BY <1>0, <1>t, <2>1, <2>2, <2>3, <2>4, <2>5, ReadsKeep
    <2> QED BY <1>u, <2>1, <2>6 DEF HistInv
  <1>5. ASSUME NEW s \in Sess, NEW i \in Ids, NEW e \in Emails, Inserts(s, i, e) PROVE HistInv'
    <2>1. HistoryKept' BY <1>5, InsertHistory DEF TableInv
    <2>2. Moves(s, Idle) /\ Fresh \in Unused BY <1>5, FreshUnused DEF Inserts
    <2>3. \A t \in Sess: sess[t].row \in Rows => wallet'[sess[t].row] = wallet[sess[t].row]
      <3>1. \A t \in Sess: sess[t].row # Fresh BY <2>2 DEF Unused
      <3>2. wallet' = wallet \/ wallet' = [wallet EXCEPT ![Fresh] = 1]
        BY <1>5 DEF Inserts, Insert
      <3> QED BY <1>0, <3>1, <3>2
    <2>4. \A t \in Sess: sess[t].row \in Rows => wallet'[sess[t].row] <= wallet[sess[t].row]
      BY <1>t, <2>3
    <2>5. \A t \in Sess: HistRead(t)' BY <1>0, <1>i, <2>2, <2>4, ReadsKeep
    <2> QED BY <2>1, <2>5 DEF HistInv
  <1>6. ASSUME NEW s \in Sess, NEW q \in Rows, NEW i \in Ids, Relinks(s, q, i) PROVE HistInv'
    <2>1. Moves(s, Idle) /\ UNCHANGED <<wallet, archived, bonus>> BY <1>6 DEF Relinks
    <2>2. HistoryKept' BY <2>1 DEF HistInv, HistoryKept
    <2>3. \A t \in Sess: HistRead(t)' BY <1>0, <1>t, <1>i, <2>1, ReadsKeep
    <2> QED BY <2>2, <2>3 DEF HistInv
  <1>7. ASSUME NEW s \in Sess, Deletes(s) \/ Anonymizes(s) PROVE HistInv'
    <2>1. PICK q \in Rows, k \in 0 .. 1: q = sess[s].row /\ k = sess[s].credits
      BY <1>7 DEF Deletes, Anonymizes, Logged, TableInv, SessInv, SessRec, RecordOK
    <2>2. /\ wallet' = [wallet EXCEPT ![q] = 0] /\ archived' = [archived EXCEPT ![q] = @ + k]
          /\ bonus' = bonus /\ Moves(s, Idle)
      BY <1>7, <2>1 DEF Deletes, Anonymizes
    <2>3. wallet[q] <= k
      <3>1. CASE Deletes(s)
        <4>1. k = wallet[q] BY <3>1, <2>1 DEF Deletes, TableInv, SessInv, LockOK
        <4> QED BY <1>t, <4>1
      <3>2. CASE Anonymizes(s) BY <3>2, <2>1 DEF Anonymizes, HistInv, HistRead
      <3> QED BY <1>7, <3>1, <3>2
    <2>4. HistoryKept' BY <2>2, <2>3, CloseHistory
    <2>5. \A t \in Sess: sess[t].row \in Rows => wallet'[sess[t].row] <= wallet[sess[t].row]
      <3>1. ASSUME NEW r \in Rows PROVE wallet'[r] <= wallet[r]
        <4>1. wallet[r] \in Int /\ 0 <= wallet[r] BY <1>0
        <4>2. wallet'[r] = IF r = q THEN 0 ELSE wallet[r] BY <1>0, <2>2
        <4> QED BY <4>1, <4>2
      <3> QED BY <3>1
    <2>6. \A t \in Sess: HistRead(t)' BY <1>0, <1>i, <2>2, <2>5, ReadsKeep
    <2> QED BY <2>4, <2>6 DEF HistInv
  <1>8. ASSUME NEW q \in Rows, NEW e \in Emails, Updates(q, e) PROVE HistInv'
    <2>1. UNCHANGED <<wallet, archived, bonus, sess>> BY <1>8 DEF Updates
    <2> QED BY <2>1 DEF HistInv, HistoryKept, HistRead
  <1> QED BY <1>1, <1>2, <1>3, <1>4, <1>5, <1>6, <1>7, <1>8 DEF Shape

\* The credit history outlives the account for any number of rows and sessions: every
\* bonus is in a wallet or in the archive, whichever way an account is closed.
THEOREM HistorySound == Spec => []HistoryKept
  <1>1. Init => HistInv
    <2> SUFFICES ASSUME Init PROVE HistInv OBVIOUS
    <2>1. /\ bonus = [e \in Emails |-> 0] /\ wallet = [r \in Rows |-> 0]
          /\ archived = [r \in Rows |-> 0]
      BY DEF Init
    <2>2. SumFunction(bonus) <= Cardinality(Emails) * 0
      <3>1. SumFunction(bonus) = SumFunctionOnSet(bonus, Emails) BY <2>1 DEF SumFunction
      <3>2. \A e \in Emails: bonus[e] \in Int /\ bonus[e] <= 0 BY <2>1
      <3>3. 0 \in Nat /\ IsFiniteSet(Emails) BY AccountsAssumption
      <3> QED BY <3>1, <3>2, <3>3, SumBounded
    <2>3. SumFunction(bonus) \in Int
      BY <2>1, SumElements, AccountsAssumption DEF SumFunction
    <2>4. SumFunction(wallet) \in Nat /\ SumFunction(archived) \in Nat
      BY <2>1, SumNatural, AccountsAssumption DEF SumFunction
    <2>5. Cardinality(Emails) * 0 = 0 BY FS_CardinalityType, AccountsAssumption
    <2>6. \A s \in Sess: sess[s].op # "erase" BY IdleType DEF Init
    <2> QED BY <2>2, <2>3, <2>4, <2>5, <2>6 DEF HistInv, HistoryKept, HistRead
  <1>2. IInv /\ HistInv /\ [Next]_vars => (IInv /\ HistInv)'
    <2> SUFFICES ASSUME IInv, HistInv, [Next]_vars PROVE (IInv /\ HistInv)' OBVIOUS
    <2>1. Lawful BY EveryStep
    <2>2. TableInv' BY <2>1, ShapeStep DEF Lawful, IInv
    <2>3. HistInv' BY <2>1, <2>2, HistoryStep DEF Lawful, IInv
    <2> QED BY <2>1, <2>2, <2>3 DEF Lawful, IInv
  <1>3. HistInv => HistoryKept BY DEF HistInv
  <1> QED BY InitIInv, <1>1, <1>2, <1>3, PTL DEF Spec
=============================================================================
