--------------------------- MODULE AccountsProofs ---------------------------
(***************************************************************************)
(* Proofs about Accounts, for any user names and any number of crashes.     *)
(***************************************************************************)
EXTENDS Accounts, FiniteSetTheorems, TLAPS

\* What holds besides the types: the start-up promotes the account it has just
\* created, which nobody registered.
PromotesNew == process = "promoting" => rows[First].exists /\ First \notin users

IInv == TypeOK /\ PromotesNew

LEMMA InitHolds == Init => IInv
BY AccountAssumption DEF Init, IInv, TypeOK, PromotesNew, NoRow, Nobody, Row, Password

\* What a patch and a change of the password leave of a row is a row.
LEMMA PatchedRow ==
  ASSUME NEW row \in Row, NEW t \in Account, NEW patch \in Patch[t]
  PROVE  /\ Patched(row.is_admin, patch.is_admin) \in BOOLEAN
         /\ Patched(row.banned, patch.banned) \in BOOLEAN
         /\ {s \in Capability : Patched(s \in row.can, patch.can[s])} \in SUBSET Capability
BY AccountAssumption DEF Patched, Row

\* An account whose row a request writes has one already.
LEMMA RowWritten ==
  ASSUME IInv, NEW t \in Account, rows[t].exists, NEW row \in Row, row.exists,
         rows' = [rows EXCEPT ![t] = row],
         UNCHANGED <<things, process, open, sessions, sockets, users, crashes>>,
         actor' \in Account
  PROVE  IInv'
BY AccountAssumption DEF IInv, TypeOK, PromotesNew, things

\* Requests about accounts keep the invariant.
LEMMA RequestKeeps ==
  ASSUME IInv, NEW a \in Account, Request(a)
  PROVE  IInv'
<1> USE AccountAssumption DEF IInv, TypeOK, PromotesNew
<1>1. CASE RegisterAccount(a)
  <2>1. NewRow \in Row /\ NewRow.exists /\ ~NewRow.is_admin /\ ~NewRow.banned
    BY DEF NewRow, NoRow, Row, Capability, Password
  <2>2. /\ rows' = [rows EXCEPT ![a] = NewRow]
        /\ users' = users \cup {a}
        /\ actor' = a /\ process = "up"
        /\ UNCHANGED <<keys, devices, process, open, sessions, sockets, crashes>>
    BY <1>1 DEF RegisterAccount, RequestOf, things
  <2>3. rows' \in [Account -> Row]
    BY <2>1, <2>2
  <2>4. /\ \A b \in Account : rows'[b] = IF b = a THEN NewRow ELSE rows[b]
        /\ \A b \in Account : rows[b].exists => rows'[b].exists
    BY <2>1, <2>2
  <2>5. \A b \in Account : rows'[b].is_admin \/ rows'[b].banned => rows'[b].exists
    BY <2>1, <2>4
  <2>6. /\ devices' \subseteq {b \in Account : rows'[b].exists}
        /\ users' \subseteq {b \in Account : rows'[b].exists}
    BY <2>1, <2>2, <2>4
  <2> QED
    BY <2>2, <2>3, <2>5, <2>6
<1>2. ASSUME NEW password \in Password, Login(a, password) PROVE IInv'
  BY <1>2 DEF Login, RequestOf, things
<1>3. ASSUME NEW t \in Account, NEW patch \in Patch[t], UpdateAccount(a, t, patch)
      PROVE  IInv'
  <2> DEFINE new == [rows[t] EXCEPT
                       !.is_admin = Patched(rows[t].is_admin, patch.is_admin),
                       !.banned = Patched(rows[t].banned, patch.banned),
                       !.can = {s \in Capability : Patched(s \in rows[t].can, patch.can[s])}]
  <2>0. rows[t] \in Row
    OBVIOUS
  <2>1. new \in Row /\ new.exists = rows[t].exists
    <3>1. /\ Patched(rows[t].is_admin, patch.is_admin) \in BOOLEAN
          /\ Patched(rows[t].banned, patch.banned) \in BOOLEAN
          /\ {s \in Capability : Patched(s \in rows[t].can, patch.can[s])}
               \in SUBSET Capability
      BY <2>0, PatchedRow
    <3> QED
      BY <2>0, <3>1 DEF Row
  <2>2. rows' = [rows EXCEPT ![t] = new]
    BY <1>3 DEF UpdateAccount
  <2> QED
    BY <1>3, <2>1, <2>2, RowWritten DEF UpdateAccount, RequestOf
<1> QED
  BY <1>1, <1>2, <1>3 DEF Request

\* Requests about a password, keys and workers keep the invariant.
LEMMA ProviderRequestKeeps ==
  ASSUME IInv, NEW a \in Account, ProviderRequest(a)
  PROVE  IInv'
<1> USE AccountAssumption DEF IInv, TypeOK, PromotesNew, RequestOf, things
<1>1. ASSUME NEW t \in Account, NEW current \in Password, NEW new \in Password,
             ChangePassword(a, t, current, new)
      PROVE  IInv'
  <2> DEFINE row == [rows[t] EXCEPT !.password = new]
  <2>1. row \in Row /\ row.exists
    BY <1>1 DEF Row, ChangePassword, SessionAccount, Standing
  <2>2. rows' = [rows EXCEPT ![t] = row] /\ rows[t].exists
    BY <1>1 DEF ChangePassword, SessionAccount, Standing
  <2> QED
    BY <1>1, <2>1, <2>2, RowWritten DEF ChangePassword
<1>2. ASSUME NEW scope \in Capability, CreateKey(a, scope) PROVE IInv'
  BY <1>2 DEF CreateKey
<1>3. ASSUME NEW scope \in Capability, RevokeKey(a, scope) PROVE IInv'
  BY <1>3 DEF RevokeKey
<1>4. CASE RegisterWorker(a)
  BY <1>4 DEF RegisterWorker, KeyAccount, Standing
<1>5. CASE OperateWorker(a)
  BY <1>5 DEF OperateWorker
<1>6. CASE RevokeWorker(a)
  BY <1>6 DEF RevokeWorker
<1>7. CASE Infer(a)
  BY <1>7 DEF Infer
<1>8. CASE OpenSocket(a)
  BY <1>8 DEF OpenSocket
<1>9. CASE SocketFrame(a)
  BY <1>9 DEF SocketFrame
<1> QED
  BY <1>1, <1>2, <1>3, <1>4, <1>5, <1>6, <1>7, <1>8, <1>9 DEF ProviderRequest

\* Every request and every step of the process keeps the invariant.
LEMMA NextKeeps == IInv /\ [Next]_vars => IInv'
<1> SUFFICES ASSUME IInv, [Next]_vars PROVE IInv'
  OBVIOUS
<1> USE AccountAssumption DEF IInv, TypeOK, PromotesNew, things
<1>1. CASE Start
  BY <1>1 DEF Start
<1>2. CASE Bootstrap
  <2>1. NewRow \in Row /\ NewRow.exists /\ ~NewRow.is_admin /\ ~NewRow.banned
    BY DEF NewRow, NoRow, Row, Capability, Password
  <2>2. users \subseteq {a \in Account : rows[a].exists}
    OBVIOUS
  <2> QED
    BY <1>2, <2>1, <2>2 DEF Bootstrap
<1>3. CASE Promote
  <2> DEFINE new == [rows[First] EXCEPT !.is_admin = TRUE]
  <2>1. new \in Row /\ new.exists
    <3>1. rows[First] \in Row /\ rows[First].exists
      BY <1>3 DEF Promote
    <3> QED
      BY <3>1 DEF Row
  <2>2. rows' = [rows EXCEPT ![First] = new]
    BY <1>3 DEF Promote
  <2> HIDE DEF new
  <2> QED
    BY <1>3, <2>1, <2>2 DEF Promote
<1>4. CASE Crash
  BY <1>4 DEF Crash
<1>5. ASSUME NEW a \in Account, Request(a) PROVE IInv'
  BY <1>5, RequestKeeps
<1>6. ASSUME NEW a \in Account, SessionExpires(a) PROVE IInv'
  BY <1>6 DEF SessionExpires
<1>7. ASSUME NEW a \in Account, SocketCloses(a) PROVE IInv'
  BY <1>7 DEF SocketCloses
<1>8. ASSUME NEW a \in Provider, ProviderRequest(a) PROVE IInv'
  BY <1>8, ProviderRequestKeeps
<1>9. CASE UNCHANGED vars
  BY <1>9 DEF vars
<1> QED
  BY <1>1, <1>2, <1>3, <1>4, <1>5, <1>6, <1>7, <1>8, <1>9 DEF Next

LEMMA Invariance == Spec => []IInv
<1> QED
  BY InitHolds, NextKeeps, PTL DEF Spec

-----------------------------------------------------------------------------

\* A patch takes the last admin's flag from nobody: if none were left, the
\* account demoted would have been the only one, and the patch rejected.
LEMMA PatchLeavesOne ==
  ASSUME IInv, NEW a \in Account, NEW t \in Account, NEW patch \in Patch[t],
         UpdateAccount(a, t, patch)
  PROVE  Admins' # {}
<1> SUFFICES ASSUME Admins' = {} PROVE FALSE
  OBVIOUS
<1>1. \A b \in Account \ {t} : rows'[b] = rows[b]
  BY DEF UpdateAccount, IInv, TypeOK
<1>2. rows'[t].is_admin = Patched(rows[t].is_admin, patch.is_admin)
  BY DEF UpdateAccount, IInv, TypeOK, Row
<1>3. a \in Admins
  BY DEF UpdateAccount, Admins
<1>4. Admins = {t}
  BY <1>1, <1>3 DEF Admins
<1>5. Cardinality(Admins) = 1
  BY <1>4, FS_Singleton
<1>6. rows[t].is_admin /\ patch.is_admin \in Field
  BY <1>4, AccountAssumption DEF Admins
<1>7. ~Patched(rows[t].is_admin, patch.is_admin)
  BY <1>2 DEF Admins
<1>8. patch.is_admin = "off"
  BY <1>6, <1>7 DEF Patched, Field
<1> QED
  BY <1>5, <1>6, <1>8 DEF UpdateAccount, IsLastAdmin

\* Only a patch takes rights away.
LEMMA AdminStays == IInv /\ [Next]_vars => (Admins # {} => Admins' # {})
<1> SUFFICES ASSUME IInv, [Next]_vars, NEW b \in Admins PROVE Admins' # {}
  OBVIOUS
<1>1. b \in Account /\ rows[b].is_admin
  BY DEF Admins
<1>2. CASE UNCHANGED rows
  BY <1>1, <1>2 DEF Admins
<1>3. CASE Bootstrap
  BY <1>2, <1>3 DEF Bootstrap
<1>4. CASE Promote
  BY <1>1, <1>4, AccountAssumption DEF Promote, Admins, IInv, TypeOK, Row
<1>5. ASSUME NEW a \in Account, RegisterAccount(a) PROVE Admins' # {}
  <2>1. a # b
    BY <1>1, <1>5 DEF RegisterAccount, IInv, TypeOK
  <2> QED
    BY <1>1, <1>5, <2>1 DEF RegisterAccount, Admins, IInv, TypeOK
<1>6. ASSUME NEW a \in Account, NEW t \in Account, NEW patch \in Patch[t],
             UpdateAccount(a, t, patch)
      PROVE Admins' # {}
  BY <1>6, PatchLeavesOne
<1>7. ASSUME NEW a \in Account, NEW t \in Account, NEW new \in Password,
             rows' = [rows EXCEPT ![t].password = new]
      PROVE Admins' # {}
  BY <1>1, <1>7 DEF Admins, IInv, TypeOK, Row
<1>8. QED
  BY <1>2, <1>3, <1>4, <1>5, <1>6, <1>7
     DEF Next, Request, ProviderRequest, Start, Crash, Login, ChangePassword, CreateKey,
         RevokeKey, RegisterWorker, OperateWorker, RevokeWorker, Infer, OpenSocket,
         SocketFrame, SessionExpires, SocketCloses, vars

\* Once the pool has an admin it always has one.
THEOREM AdminsRemain == Spec => AdminRemains
<1>1. IInv /\ [Next]_vars => [Admins # {} => Admins' # {}]_vars
  BY AdminStays
<1> QED
  BY <1>1, Invariance, PTL DEF Spec, AdminRemains

-----------------------------------------------------------------------------

Granted(a) ==
  rows[a].exists /\ Rights(rows'[a]) # Rights(rows[a]) =>
    \/ actor' \in Admins /\ Standing(actor')
    \/ process = "promoting" /\ a = First /\ a \notin users

OwnDoing(a) ==
  \/ rows[a].exists /\ rows'[a].password # rows[a].password
  \/ keys'[a] # keys[a]
  \/ (a \in devices') # (a \in devices)
  => actor' = a /\ Standing(a)

\* Rights change by a patch of an admin in good standing, or where the start-up
\* promotes the account it has just created.
LEMMA RightsGranted ==
  ASSUME IInv, [Next]_vars, NEW a \in Account
  PROVE  Granted(a)
<1> USE DEF Granted
<1>1. CASE UNCHANGED rows
  BY <1>1
<1>2. CASE Bootstrap
  BY <1>1, <1>2, AccountAssumption DEF Bootstrap, IInv, TypeOK
<1>3. CASE Promote
  BY <1>3, AccountAssumption DEF Promote, IInv, TypeOK, PromotesNew
<1>4. ASSUME NEW b \in Account, RegisterAccount(b) PROVE Granted(a)
  BY <1>4 DEF RegisterAccount, IInv, TypeOK
<1>5. ASSUME NEW b \in Account, NEW t \in Account, NEW patch \in Patch[t],
             UpdateAccount(b, t, patch)
      PROVE Granted(a)
  BY <1>5 DEF UpdateAccount, RequestOf, SessionAccount, Admins
<1>6. ASSUME NEW b \in Account, NEW t \in Account, NEW new \in Password,
             rows' = [rows EXCEPT ![t].password = new]
      PROVE Granted(a)
  <2>1. Rights(rows'[a]) = Rights(rows[a])
    BY <1>6 DEF Rights, IInv, TypeOK, Row
  <2> QED
    BY <2>1
<1> QED
  BY <1>1, <1>2, <1>3, <1>4, <1>5, <1>6
     DEF Next, Request, ProviderRequest, Start, Crash, Login, ChangePassword, CreateKey,
         RevokeKey, RegisterWorker, OperateWorker, RevokeWorker, Infer, OpenSocket,
         SocketFrame, SessionExpires, SocketCloses, vars

\* A password, keys and workers change by requests of the account's own.
LEMMA OwnChanges ==
  ASSUME IInv, [Next]_vars, NEW a \in Account
  PROVE  OwnDoing(a)
<1> USE DEF OwnDoing
<1>1. CASE UNCHANGED <<rows, things>>
  BY <1>1 DEF things
<1>2. CASE Bootstrap
  BY <1>1, <1>2, AccountAssumption DEF Bootstrap, IInv, TypeOK, things
<1>3. CASE Promote
  BY <1>3, AccountAssumption DEF Promote, IInv, TypeOK, Row, things
<1>4. ASSUME NEW b \in Account, RegisterAccount(b) PROVE OwnDoing(a)
  BY <1>4 DEF RegisterAccount, IInv, TypeOK, things
<1>5. ASSUME NEW b \in Account, NEW t \in Account, NEW patch \in Patch[t],
             UpdateAccount(b, t, patch)
      PROVE OwnDoing(a)
  BY <1>5 DEF UpdateAccount, IInv, TypeOK, Row, things
<1>6. ASSUME NEW b \in Account, NEW t \in Account, NEW current \in Password,
             NEW new \in Password, ChangePassword(b, t, current, new)
      PROVE OwnDoing(a)
  BY <1>6 DEF ChangePassword, RequestOf, SessionAccount, IInv, TypeOK, things
<1>7. ASSUME NEW b \in Account, NEW scope \in Capability,
             CreateKey(b, scope) \/ RevokeKey(b, scope)
      PROVE OwnDoing(a)
  BY <1>7 DEF CreateKey, RevokeKey, RequestOf, SessionAccount, IInv, TypeOK
<1>8. ASSUME NEW b \in Account, RegisterWorker(b) \/ RevokeWorker(b) PROVE OwnDoing(a)
  BY <1>8 DEF RegisterWorker, RevokeWorker, RequestOf, MayOperate, KeyAccount,
              SessionAccount, IInv, TypeOK
<1> QED
  BY <1>1, <1>2, <1>3, <1>4, <1>5, <1>6, <1>7, <1>8, AccountAssumption
     DEF Next, Request, ProviderRequest, Start, Crash, Login, OperateWorker, Infer,
         OpenSocket, SocketFrame, SessionExpires, SocketCloses, vars

\* Rights are changed by admins in good standing, and by a start-up that has
\* just created the account; passwords, keys and workers by their own account.
THEOREM AuthorityHolds == Spec => Authority
<1>1. IInv /\ [Next]_vars => [\A a \in Account : Granted(a) /\ OwnDoing(a)]_vars
  BY RightsGranted, OwnChanges
<1>2. (\A a \in Account : Granted(a) /\ OwnDoing(a)) <=>
        \A a \in Account :
          /\ rows[a].exists /\ Rights(rows'[a]) # Rights(rows[a]) =>
               \/ actor' \in Admins /\ Standing(actor')
               \/ process = "promoting" /\ a = First /\ a \notin users
          /\ \/ rows[a].exists /\ rows'[a].password # rows[a].password
             \/ keys'[a] # keys[a]
             \/ (a \in devices') # (a \in devices)
             => actor' = a /\ Standing(a)
  BY DEF Granted, OwnDoing
<1> QED
  BY <1>1, <1>2, Invariance, PTL DEF Spec, Authority
=============================================================================
