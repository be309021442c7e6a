------------------------- MODULE PoolContractProofs -------------------------
(* Wholeness is an invariant of the contract, for any workers and clusters.  *)
EXTENDS PoolContract, TLAPS

TypeInv ==
  /\ up \in [Worker -> BOOLEAN]
  /\ place \in [Worker -> Cluster \cup {0}]
  /\ phase \in [Cluster -> {"none", "assembling", "live", "terminated"}]
  /\ ring \in [Cluster -> SUBSET Worker]
  /\ reports \in [Cluster -> [ready : SUBSET Worker, layers : BOOLEAN]]

\* Wholeness is inductive together with the domains of the variables: a
\* cluster that is not yet formed has nobody placed in it, because it is not
\* active.
IInv == TypeInv /\ Wholeness

LEMMA ContractInit == Numbered /\ Init => IInv
  BY DEF Numbered, Init, IInv, TypeInv, Wholeness, Active

LEMMA ContractStep == Numbered /\ IInv /\ [Next]_vars => IInv'
<1> SUFFICES ASSUME Numbered, IInv, [Next]_vars
             PROVE  IInv'
  OBVIOUS
<1> USE DEF Numbered
<1>1. ASSUME NEW w \in Worker, ComesUp(w)
      PROVE  IInv'
  BY <1>1 DEF IInv, TypeInv, ComesUp, Wholeness, Active
<1>2. ASSUME NEW w \in Worker, GoesDown(w)
      PROVE  IInv'
  BY <1>2 DEF IInv, TypeInv, GoesDown, Wholeness, Active
<1>3. ASSUME NEW c \in Cluster, NEW S \in SUBSET Worker, Form(c, S)
      PROVE  IInv'
  <2>1. TypeInv'
    BY <1>3 DEF IInv, TypeInv, Form
  <2>2. ASSUME NEW d \in Cluster, NEW w \in Worker
        PROVE  /\ (place'[w] = d) <=> (Active(d)' /\ w \in ring'[d])
               /\ place'[w] = d => up'[w]
    BY <1>3, <2>1, <2>2 DEF IInv, TypeInv, Form, Wholeness, Active
  <2>3. QED  BY <2>1, <2>2 DEF IInv, Wholeness
<1>4. ASSUME NEW w \in Worker, NEW ready \in SUBSET Worker,
             NEW layers \in BOOLEAN, Report(w, ready, layers)
      PROVE  IInv'
  <2> DEFINE c == place[w]
  <2>1. c \in Cluster /\ Active(c)
    BY <1>4 DEF IInv, TypeInv, Report, Wholeness
  <2>2. TypeInv'
    BY <1>4, <2>1 DEF IInv, TypeInv, Report
  <2>3. \A d \in Cluster : Active(d)' = Active(d)
    BY <1>4, <2>1 DEF IInv, TypeInv, Report, Active
  <2>4. ASSUME NEW d \in Cluster, NEW v \in Worker
        PROVE  /\ (place'[v] = d) <=> (Active(d)' /\ v \in ring'[d])
               /\ place'[v] = d => up'[v]
    <3>1. place' = place /\ ring' = ring /\ up' = up
      BY <1>4 DEF Report
    <3>2. QED
      BY <2>3, <3>1 DEF IInv, Wholeness
  <2>5. QED  BY <2>2, <2>4 DEF IInv, Wholeness
<1>5. ASSUME NEW w \in Worker, NEW silent \in BOOLEAN, Dissolve(w, silent)
      PROVE  IInv'
  <2> DEFINE c == place[w]
  <2>1. c \in Cluster /\ Active(c) /\ w \in ring[c]
    BY <1>5 DEF IInv, TypeInv, Dissolve, Wholeness
  <2>2. TypeInv'
    <3>1. place' \in [Worker -> Cluster \cup {0}]
      BY <1>5, <2>1 DEF IInv, TypeInv, Dissolve
    <3>2. up' \in [Worker -> BOOLEAN]
      <4>1. (up[w] /\ ~silent) \in BOOLEAN
        OBVIOUS
      <4>2. QED  BY <1>5, <4>1, Zenon DEF IInv, TypeInv, Dissolve
    <3>3. QED
      BY <1>5, <2>1, <3>1, <3>2 DEF IInv, TypeInv, Dissolve
  <2>3. ASSUME NEW d \in Cluster, NEW v \in Worker
        PROVE  /\ (place'[v] = d) <=> (Active(d)' /\ v \in ring'[d])
               /\ place'[v] = d => up'[v]
    <3>1. place'[v] = IF v \in ring[c] THEN 0 ELSE place[v]
      BY <1>5 DEF Dissolve
    <3>2. Active(d)' <=> Active(d) /\ d # c
      BY <1>5, <2>1 DEF IInv, TypeInv, Dissolve, Active
    <3>3. ring'[d] = ring[d]
      BY <1>5 DEF Dissolve
    <3>4. v # w => up'[v] = up[v]
      BY <1>5, Zenon DEF IInv, TypeInv, Dissolve
    <3>5. /\ (place[v] = d) <=> (Active(d) /\ v \in ring[d])
          /\ (place[v] = c) <=> (Active(c) /\ v \in ring[c])
          /\ place[v] = d => up[v]
      BY <2>1 DEF IInv, Wholeness
    <3>6. 0 # d
      OBVIOUS
    <3>7. (place'[v] = d) <=> (Active(d)' /\ v \in ring'[d])
      BY <2>1, <3>1, <3>2, <3>3, <3>5, <3>6
    <3>8. place'[v] = d => up'[v]
      BY <2>1, <3>1, <3>4, <3>5, <3>6
    <3>9. QED  BY <3>7, <3>8
  <2>4. QED  BY <2>2, <2>3 DEF IInv, Wholeness
<1>6. CASE UNCHANGED vars
  BY <1>6 DEF IInv, TypeInv, vars, Wholeness, Active
<1>7. QED
  BY <1>1, <1>2, <1>3, <1>4, <1>5, <1>6 DEF Next

\* Whatever the workers do, one of them serves in a cluster exactly while it
\* is a member of it and the cluster is active, and is up as long as it does.
THEOREM ContractWholeness ==
  ASSUME Numbered
  PROVE  Spec => []Wholeness
<1>1. Init => IInv
  BY ContractInit, Numbered
<1>2. IInv /\ [Next]_vars => IInv'
  BY ContractStep, Numbered
<1>3. IInv => Wholeness
  BY DEF IInv
<1>4. QED
  BY <1>1, <1>2, <1>3, PTL DEF Spec
=============================================================================
