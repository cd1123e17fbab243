----------------------- MODULE SessionRegistryProofs -----------------------
(***************************************************************************)
(* For every number of contacts and every limit, the two dictionaries of   *)
(* the session registry agree and the limit holds.                         *)
(*                                                                         *)
(* The inductive invariant adds to Consistent that a filed id was drawn:   *)
(* a fresh id is then filed under no peer, so that filing it for one peer  *)
(* takes it from no other.                                                 *)
(***************************************************************************)
EXTENDS SessionRegistry, FiniteSetTheorems, TLAPS

(***************************************************************************)
(* The inductive invariant: types, agreement, and that only ids that were  *)
(* drawn are filed (register and remove of session.py).                    *)
(***************************************************************************)
RegistryInv ==
    /\ TypeOK
    /\ Consistent
    /\ Active \subseteq drawn

\* The registry starts empty (SessionRegistry.__init__).
LEMMA RegistryInit == Init => RegistryInv /\ Bounded
<1> SUFFICES ASSUME Init
             PROVE  RegistryInv /\ Bounded
    OBVIOUS
<1>1. TypeOK
    BY DEF Init, TypeOK
<1>2. Consistent
    BY RegistryAssumption DEF Init, Consistent
<1>3. Active = {}
    BY DEF Init, Active
<1>4. Bounded
    BY <1>3, FS_EmptySet, RegistryAssumption DEF Bounded
<1> QED
    BY <1>1, <1>2, <1>3, <1>4 DEF RegistryInv

\* register keeps the dictionaries in step: p's old session leaves both, the
\* new one enters both, and no other peer's session is touched.
LEMMA RegisterKeeps ==
    ASSUME RegistryInv, NEW s \in Sids, NEW p \in Peers, Register(s, p)
    PROVE  RegistryInv'
<1> USE RegistryAssumption
<1>1. CASE Full /\ UNCHANGED <<bySession, byPeer>>
    <2>1. TypeOK' /\ Consistent'
        BY <1>1 DEF RegistryInv, Register, TypeOK, Consistent
    <2>2. Active' = Active /\ drawn \subseteq drawn'
        BY <1>1 DEF Active, Register
    <2> QED
        BY <2>1, <2>2 DEF RegistryInv
<1>2. CASE ~Full /\ bySession' = Filed(s, p) /\ byPeer' = [byPeer EXCEPT ![p] = s]
    <2>1. TypeOK'
        BY <1>2 DEF RegistryInv, Register, TypeOK, Filed
    <2>2. bySession[s] = NoPeer
        BY DEF RegistryInv, Active, Register
    <2>3. ASSUME NEW t \in Sids, NEW q \in Peers
          PROVE  bySession'[t] = q <=> byPeer'[q] = t
        <3>1. bySession[t] = q <=> byPeer[q] = t
            BY DEF RegistryInv, Consistent
        <3>2. byPeer[q] # s
            BY <2>2 DEF RegistryInv, Consistent
        <3>3. t = byPeer[p] => bySession[t] = p
            BY DEF RegistryInv, Consistent
        <3> QED
            BY <1>2, <3>1, <3>2, <3>3 DEF RegistryInv, TypeOK, Filed
    <2>4. Active' \subseteq Active \cup {s}
        BY <1>2 DEF Active, Filed
    <2> QED
        BY <2>1, <2>3, <2>4 DEF RegistryInv, Consistent, Register
<1> QED
    BY <1>1, <1>2 DEF Register

\* remove takes a session out of both dictionaries.
LEMMA RemoveKeeps ==
    ASSUME RegistryInv, NEW s \in Sids, Remove(s)
    PROVE  RegistryInv'
<1> USE RegistryAssumption
<1>1. TypeOK'
    BY DEF RegistryInv, TypeOK, Remove
<1>2. ASSUME NEW t \in Sids, NEW q \in Peers
      PROVE  bySession'[t] = q <=> byPeer'[q] = t
    <2>1. /\ bySession[t] = q <=> byPeer[q] = t
          /\ bySession[s] = q <=> byPeer[q] = s
        BY DEF RegistryInv, Consistent
    <2> QED
        BY <2>1 DEF RegistryInv, TypeOK, Remove
<1>3. Active' \subseteq Active
    BY DEF RegistryInv, TypeOK, Active, Remove
<1> QED
    BY <1>1, <1>2, <1>3 DEF RegistryInv, Consistent, Remove

\* Every step of the registry keeps the dictionaries in step.
LEMMA RegistryStep == RegistryInv /\ [Next]_vars => RegistryInv'
<1>1. RegistryInv /\ UNCHANGED vars => RegistryInv'
    BY DEF RegistryInv, TypeOK, Consistent, Active, vars
<1> QED
    BY <1>1, RegisterKeeps, RemoveKeeps DEF Next

\* The limit: register adds one id at most, and only below the limit.
LEMMA LimitKept ==
    ASSUME RegistryInv, Bounded, [Next]_vars
    PROVE  Bounded'
<1> USE RegistryAssumption
<1>1. /\ IsFiniteSet(Active)
      /\ Cardinality(Active) \in Nat
    BY FS_Subset, FS_CardinalityType DEF Active
<1>2. ASSUME Active' \subseteq Active
      PROVE  Bounded'
    BY <1>1, <1>2, FS_Subset, FS_CardinalityType DEF Bounded
<1>3. ASSUME NEW s \in Sids, NEW p \in Peers, Register(s, p)
      PROVE  Bounded'
    <2>1. CASE UNCHANGED bySession
        BY <2>1, <1>2 DEF Active
    <2>2. CASE ~Full /\ bySession' = Filed(s, p)
        <3>1. Active' \subseteq Active \cup {s}
            BY <2>2 DEF Active, Filed
        <3>2. /\ IsFiniteSet(Active \cup {s})
              /\ Cardinality(Active \cup {s}) <= Cardinality(Active) + 1
            <4>1. /\ IsFiniteSet(Active \cup {s})
                  /\ Cardinality(Active \cup {s}) =
                        IF s \in Active THEN Cardinality(Active)
                        ELSE Cardinality(Active) + 1
                BY <1>1, FS_AddElement
            <4> QED
                BY <1>1, <4>1
        <3>3. /\ Cardinality(Active') <= Cardinality(Active \cup {s})
              /\ Cardinality(Active') \in Nat
              /\ Cardinality(Active \cup {s}) \in Nat
            BY <3>1, <3>2, FS_Subset, FS_CardinalityType
        <3> QED
            BY <1>1, <2>2, <3>2, <3>3 DEF Full, Bounded
    <2> QED
        BY <1>3, <2>1, <2>2 DEF Register
<1>4. ASSUME NEW s \in Sids, Remove(s)
      PROVE  Bounded'
    <2>1. Active' \subseteq Active
        BY <1>4 DEF RegistryInv, TypeOK, Active, Remove
    <2> QED
        BY <2>1, <1>2
<1>5. CASE UNCHANGED vars
    BY <1>5, <1>2 DEF vars, Active
<1> QED
    BY <1>3, <1>4, <1>5 DEF Next

(***************************************************************************)
(* The session registry of session.py, for any number of contacts and any  *)
(* limit: both dictionaries agree after every register and remove.         *)
(***************************************************************************)
THEOREM RegistryConsistent == Spec => []Consistent
    BY RegistryInit, RegistryStep, PTL DEF Spec, RegistryInv

(***************************************************************************)
(* MAX_SESSIONS of session.py is never exceeded.                           *)
(***************************************************************************)
THEOREM RegistryBounded == Spec => []Bounded
<1>1. RegistryInv /\ Bounded /\ [Next]_vars => Bounded'
    BY LimitKept
<1> QED
    BY <1>1, RegistryInit, RegistryStep, PTL DEF Spec
=============================================================================
