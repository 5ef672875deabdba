---------------------------- MODULE CommonProofs ----------------------------
(***************************************************************************)
(* The lemmas that the proofs about both life cycles rest on: the closures *)
(* of UnitGraph are what their names say, the parser's guarantees in the   *)
(* form the proofs use, and least elements of sets of naturals.            *)
(***************************************************************************)
EXTENDS ComposeFile, UnitGraph, Naturals, WellFoundedInduction, TLAPS

\* The closures of UnitGraph are what their names say: they contain the set they
\* start from, and are closed.
LEMMA DependentsContain ==
    ASSUME NEW req, NEW T, T \subseteq DOMAIN req
    PROVE  T \subseteq DependentsOf(req, T)
  BY DEF DependentsOf

\* Who requires a dependant is a dependant.
LEMMA DependentsClosed ==
    ASSUME NEW req, NEW T
    PROVE  UpwardClosed(req, DependentsOf(req, T))
<1> DEFINE D == DependentsOf(req, T)
<1> SUFFICES ASSUME NEW t \in DOMAIN req, req[t] \cap D # {} PROVE t \in D
  BY DEF UpwardClosed
<1>1. PICK u \in D : u \in req[t]
  OBVIOUS
<1>2. ASSUME NEW S \in SUBSET DOMAIN req, T \subseteq S, UpwardClosed(req, S)
      PROVE  t \in S
  <2>1. u \in S
    BY <1>1, <1>2 DEF DependentsOf
  <2> QED
    BY <1>1, <1>2, <2>1 DEF UpwardClosed
<1> QED
  BY <1>2 DEF DependentsOf

\* A unit is among its own requirements.
LEMMA RequirementsContain ==
    ASSUME NEW req, NEW T, T \subseteq DOMAIN req
    PROVE  T \subseteq RequirementsOf(req, T)
  BY DEF RequirementsOf

\* What a requirement requires is a requirement.
LEMMA RequirementsClosed ==
    ASSUME NEW req, NEW T, \A t \in DOMAIN req : req[t] \subseteq DOMAIN req
    PROVE  DownwardClosed(req, RequirementsOf(req, T))
<1> DEFINE R == RequirementsOf(req, T)
<1> SUFFICES ASSUME NEW t \in R \cap DOMAIN req, NEW u \in req[t] PROVE u \in R
  BY DEF DownwardClosed
<1>1. ASSUME NEW S \in SUBSET DOMAIN req, T \subseteq S, DownwardClosed(req, S)
      PROVE  u \in S
  <2>1. t \in S
    BY <1>1 DEF RequirementsOf
  <2> QED
    BY <1>1, <2>1 DEF DownwardClosed
<1> QED
  BY <1>1 DEF RequirementsOf

\* The requirements are the least closed set.
LEMMA RequirementsLeast ==
    ASSUME NEW req, NEW T, NEW S \in SUBSET DOMAIN req, T \subseteq S, DownwardClosed(req, S)
    PROVE  RequirementsOf(req, T) \subseteq S
  BY DEF RequirementsOf

-----------------------------------------------------------------------------
\* The dependencies stored in a hash are services.
LEMMA HashDependencies ==
    ASSUME NEW h \in Hashes
    PROVE  DependsOn(h.own) \subseteq Service
<1>0. PICK f \in Files : h \in {Hash(f, s) : s \in Listed(f)}
  BY DEF Hashes
<1>1. PICK s \in Listed(f) : h = Hash(f, s)
  BY <1>0
<1>2. f.def[s] \in Definition
  BY <1>1, FilesAssumption DEF IsComposeFile
<1>3. h.own = f.def[s]
  BY <1>1 DEF Hash
<1> QED
  BY <1>2, <1>3 DEF Definition, DependsOn, Range

\* The parser's guarantees (IsComposeFile), as the proofs use them.
LEMMA ListedServices ==
    ASSUME NEW f \in Files
    PROVE  /\ Listed(f) \subseteq Service
           /\ f.order \in Seq(Service) /\ f.order # <<>>
           /\ \A i \in DOMAIN f.order : f.order[i] \in Listed(f)
           /\ \A s \in Listed(f) : f.def[s] \in Definition /\ Hash(f, s) \in Hashes
<1>1. IsComposeFile(f)
  BY FilesAssumption
<1>2. \A s \in Listed(f) : Hash(f, s) \in Hashes
  BY DEF Hashes
<1> QED
  BY <1>1, <1>2 DEF IsComposeFile, Listed, Range

\* A set of naturals has a least element.
LEMMA LeastNat ==
    ASSUME NEW T, T \subseteq Nat, T # {}
    PROVE  \E x \in T : \A y \in T : x <= y
<1> DEFINE R == OpToRel(<, Nat)
<1>1. IsWellFoundedOn(R, Nat)
  BY NatLessThanWellFounded
<1>2. \A x, y \in Nat : x < y => <<x, y>> \in R
  BY DEF OpToRel
<1> HIDE DEF R
<1>3. PICK x \in T : \A y \in T : <<y, x>> \notin R
  BY <1>1, WFMin
<1>4. ASSUME NEW y \in T PROVE x <= y
  <2>1. x \in Nat /\ y \in Nat /\ ~(y < x)
    BY <1>2, <1>3
  <2> QED
    BY <2>1
<1> QED
  BY <1>4

=============================================================================
