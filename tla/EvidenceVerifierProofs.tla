----------------------- MODULE EvidenceVerifierProofs -----------------------
(***************************************************************************)
(* What a PASS and a FAIL of `veriagent verify` mean, for a batch of any   *)
(* size, any place of the event in the batch and any proof file.  The      *)
(* levels that merkle_root computes are a tower over the leaves.  A proof  *)
(* as it was served is a path through that tower, and the fold climbs it.  *)
(* Where hashes do not collide, a fold that begins outside the tower stays *)
(* outside, whatever it is folded with, and never meets the root.          *)
(***************************************************************************)
EXTENDS EvidenceVerifier, SequenceTheorems, FiniteSetTheorems, TLAPS

IsList(s) == \E V : s \in Seq(V)

\* T[0] to T[n] are the levels of the tree: the last iteration of merkle_root
\* that was done made T[n].
Tower(T, n) ==
    /\ T[0] = Hashes(leaves)
    /\ \A k \in 0..n : IsList(T[k]) /\ Len(T[k]) >= 1
    /\ \A k \in 0..(n - 1) : Len(T[k]) > 1 /\ T[k + 1] = Parents(Padded(T[k]))

\* I[k] is the place in T[k] of the ancestor of the target, and the m steps of
\* the proof are the siblings of these ancestors.
Path(T, I, m) ==
    /\ I[0] = target - 1
    /\ \A k \in 0..m : I[k] \in 0..(Len(T[k]) - 1)
    /\ \A k \in 0..(m - 1) :
        proof[k + 1] = Sibling(Padded(T[k]), I[k]) /\ I[k + 1] = I[k] \div 2

\* Where merkle_proof, and later the fold of what it returned, is on the path.
OnPath(T, I, n) ==
    /\ Path(T, I, Len(proof))
    /\ pc = "proof" => level = T[Len(proof)] /\ index = I[Len(proof)]
    /\ pc # "proof" => Len(proof) = n
    /\ pc = "fold" /\ file = Served => pos \in 0..n /\ current = T[pos][I[pos] + 1]

Intact(T, n) ==
    pc # "stored" => IsList(proof) /\ Len(proof) <= n /\ \E I : OnPath(T, I, n)

Built(T, n) ==
    /\ Tower(T, n)
    /\ pc = "root" => level = T[n]
    /\ pc # "root" => Len(T[n]) = 1 /\ root = T[n][1] /\ Intact(T, n)

TreeInv ==
    /\ leaves \in SortedLists
    /\ pc \notin {"root", "stored"} => target \in DOMAIN leaves
    /\ \E n \in Nat : \E T : Built(T, n)

\* What the checks that are behind it found out about the evidence.
Verifying == pc \in {"hash", "signature", "fold", "anchor"}

ChecksInv ==
    /\ Verifying =>
        /\ event.rank \in 0..Outsider
        /\ anchor.batch \in {"this", "other"}
        /\ anchor.root \in {None, IF anchor.filled THEN file.root ELSE RootOf(anchor.batch)}
    /\ pc \in {"signature", "fold", "anchor"} => LeafHash(event.rank) = file.hash
    /\ pc \in {"fold", "anchor"} => event.signed

EvidenceInv == TreeInv /\ ChecksInv /\ BlameIsRight

--------------------------------------------------------------------------
(* Levels. *)

LEMMA FunctionIsList ==
    ASSUME NEW n \in Nat, NEW f, f = [i \in 1..n |-> f[i]]
    PROVE  IsList(f) /\ Len(f) = n
<1> DEFINE V == {f[i] : i \in 1..n}
<1>1. f \in [1..n -> V]
  OBVIOUS
<1>2. f \in Seq(V)
  BY <1>1, SeqDef
<1>3. Len(f) \in Nat /\ 1..Len(f) = 1..n
  BY <1>1, <1>2, LenProperties
<1>4. \A m \in Nat : 1..m = 1..n => m = n
  <2> SUFFICES ASSUME NEW m \in Nat, 1..m = 1..n PROVE m = n
    OBVIOUS
  <2>1. \A i \in Int : i \in 1..m <=> i \in 1..n
    OBVIOUS
  <2>2. (m \in 1..m <=> m \in 1..n) /\ (n \in 1..m <=> n \in 1..n)
    BY <2>1
  <2> QED BY <2>2
<1>5. Len(f) = n
  BY <1>3, <1>4
<1> QED BY <1>2, <1>5 DEF IsList

LEMMA ListProperties ==
    ASSUME NEW s, IsList(s)
    PROVE  /\ Len(s) \in Nat
           /\ \A x : /\ IsList(Append(s, x))
                     /\ Len(Append(s, x)) = Len(s) + 1
                     /\ Append(s, x)[Len(s) + 1] = x
                     /\ \A i \in 1..Len(s) : Append(s, x)[i] = s[i]
<1>1. PICK V : s \in Seq(V)
  BY DEF IsList
<1>2. Len(s) \in Nat
  BY <1>1, LenProperties
<1>3. ASSUME NEW x
      PROVE  /\ IsList(Append(s, x))
             /\ Len(Append(s, x)) = Len(s) + 1
             /\ Append(s, x)[Len(s) + 1] = x
             /\ \A i \in 1..Len(s) : Append(s, x)[i] = s[i]
  <2> DEFINE W == V \cup {x}
  <2>1. s \in Seq(W) /\ x \in W
    BY <1>1, SeqMonotonic
  <2>2. Append(s, x) \in Seq(W)
    BY <2>1
  <2>3. IsList(Append(s, x))
    BY <2>2 DEF IsList
  <2> QED BY <1>2, <2>1, <2>3
<1> QED BY <1>2, <1>3

\* _normalize_level keeps the nodes and makes their number even.
LEMMA PaddedLevel ==
    ASSUME NEW s, IsList(s), Len(s) >= 1
    PROVE  /\ IsList(Padded(s))
           /\ Len(Padded(s)) = 2 * ((Len(s) + 1) \div 2)
           /\ \A i \in 1..Len(s) : Padded(s)[i] = s[i]
<1>1. Len(s) \in Nat
  BY ListProperties
<1>2. CASE Len(s) % 2 = 1
  <2>1. Padded(s) = Append(s, s[Len(s)])
    BY <1>2 DEF Padded
  <2>2. Len(s) + 1 = 2 * ((Len(s) + 1) \div 2)
    BY <1>1, <1>2
  <2> QED BY <2>1, <2>2, ListProperties
<1>3. CASE Len(s) % 2 # 1
  <2>1. Padded(s) = s
    BY <1>3 DEF Padded
  <2>2. Len(s) = 2 * ((Len(s) + 1) \div 2)
    BY <1>1, <1>3
  <2> QED BY <2>1, <2>2
<1> QED BY <1>2, <1>3

\* The level above: each of its nodes is the hash of two neighbours.
LEMMA ParentsLevel ==
    ASSUME NEW s, IsList(s), Len(s) >= 1
    PROVE  /\ IsList(Parents(Padded(s)))
           /\ Len(Parents(Padded(s))) = (Len(s) + 1) \div 2
           /\ Len(Parents(Padded(s))) >= 1
           /\ \A i \in 1..((Len(s) + 1) \div 2) :
                Parents(Padded(s))[i] = HashPair(Padded(s)[2 * i - 1], Padded(s)[2 * i])
<1> DEFINE h == (Len(s) + 1) \div 2
           q == Parents(Padded(s))
<1>1. Len(s) \in Nat /\ h \in Nat /\ h >= 1
  BY ListProperties
<1>2. Len(Padded(s)) = 2 * h
  BY PaddedLevel
<1>3. Len(Padded(s)) \div 2 = h
  BY <1>1, <1>2
<1>4. q = [i \in 1..h |-> HashPair(Padded(s)[2 * i - 1], Padded(s)[2 * i])]
  BY <1>3 DEF Parents
<1>5. q = [i \in 1..h |-> q[i]]
  BY <1>4
<1>6. IsList(q) /\ Len(q) = h
  BY <1>1, <1>5, FunctionIsList
<1> QED BY <1>1, <1>4, <1>6

\* What verify_inclusion_proof does with a step of the proof.
Folded(c, s) == IF s.side = "left" THEN HashPair(s.sibling, c) ELSE HashPair(c, s.sibling)

\* Folding a node with its sibling gives the parent of both.
LEMMA SiblingFold ==
    ASSUME NEW s, IsList(s), Len(s) >= 1, NEW i \in 0..(Len(s) - 1)
    PROVE  /\ i \div 2 \in 0..(Len(Parents(Padded(s))) - 1)
           /\ Parents(Padded(s))[i \div 2 + 1] = Folded(s[i + 1], Sibling(Padded(s), i))
<1> DEFINE h == (Len(s) + 1) \div 2
           p == Padded(s)
<1>1. Len(s) \in Nat /\ i \in Nat
  BY ListProperties
<1>2. i \div 2 \in 0..(h - 1) /\ i \div 2 + 1 \in 1..h
  BY <1>1
<1>3. Parents(p)[i \div 2 + 1] = HashPair(p[2 * (i \div 2 + 1) - 1], p[2 * (i \div 2 + 1)])
  BY <1>2, ParentsLevel
<1>4. p[i + 1] = s[i + 1]
  BY <1>1, PaddedLevel
<1>5. CASE i % 2 = 0
  <2>1. 2 * (i \div 2 + 1) - 1 = i + 1 /\ 2 * (i \div 2 + 1) = i + 2
    BY <1>1, <1>5
  <2>2. Sibling(p, i) = [sibling |-> p[i + 2], side |-> "right"]
    BY <1>5 DEF Sibling
  <2>3. Folded(s[i + 1], Sibling(p, i)) = HashPair(s[i + 1], p[i + 2])
    BY <2>2 DEF Folded
  <2> QED BY <1>2, <1>3, <1>4, <2>1, <2>3, ParentsLevel
<1>6. CASE i % 2 # 0
  <2>1. 2 * (i \div 2 + 1) - 1 = i /\ 2 * (i \div 2 + 1) = i + 1
    BY <1>1, <1>6
  <2>2. Sibling(p, i) = [sibling |-> p[i], side |-> "left"]
    BY <1>6 DEF Sibling
  <2>3. Folded(s[i + 1], Sibling(p, i)) = HashPair(p[i], s[i + 1])
    BY <2>2 DEF Folded
  <2> QED BY <1>2, <1>3, <1>4, <2>1, <2>3, ParentsLevel
<1> QED BY <1>5, <1>6

\* The leaves of the tree.
LEMMA Leaves ==
    ASSUME leaves \in SortedLists
    PROVE  /\ \A i \in DOMAIN leaves : leaves[i] \in Ranks
           /\ DOMAIN leaves = 1..Len(leaves)
           /\ IsList(Hashes(leaves)) /\ Len(Hashes(leaves)) = Len(leaves)
           /\ Len(leaves) \in Nat /\ Len(leaves) >= 1
           /\ \A i \in DOMAIN leaves : Hashes(leaves)[i] = LeafHash(leaves[i])
<1>1. PICK n \in Ranks : leaves = [i \in 1..n |-> i]
  BY DEF SortedLists
<1>2. n \in Nat /\ n >= 1
  BY MerkleAssumption DEF Ranks
<1>3. leaves = [i \in 1..n |-> leaves[i]]
  BY <1>1
<1>4. Len(leaves) = n
  BY <1>2, <1>3, FunctionIsList
<1>5. \A i \in 1..n : leaves[i] \in Ranks
  BY <1>1, <1>2, MerkleAssumption DEF Ranks
<1>6. Hashes(leaves) = [i \in 1..n |-> LeafHash(leaves[i])]
  BY <1>4 DEF Hashes
<1>7. Hashes(leaves) = [i \in 1..n |-> Hashes(leaves)[i]]
  BY <1>6
<1>8. IsList(Hashes(leaves)) /\ Len(Hashes(leaves)) = n
  BY <1>2, <1>7, FunctionIsList
<1> QED BY <1>1, <1>2, <1>4, <1>5, <1>6, <1>8

--------------------------------------------------------------------------
(* The tree and the proof. *)

LEMMA TowerBuilt == Init => TreeInv
<1> SUFFICES ASSUME Init PROVE TreeInv
  OBVIOUS
<1> USE DEF Init, TreeInit
<1> DEFINE T == [k \in {0} |-> Hashes(leaves)]
<1>1. T[0] = Hashes(leaves) /\ \A k \in 0..0 : k = 0
  OBVIOUS
<1>2. Tower(T, 0)
  BY <1>1, Leaves DEF Tower
<1>3. Built(T, 0)
  BY <1>1, <1>2 DEF Built
<1> HIDE DEF T
<1>4. \E n \in Nat : \E U : Built(U, n)
  BY <1>3
<1> QED BY <1>4 DEF TreeInv

\* An iteration of merkle_root adds a level.
LEMMA TowerGrows ==
    ASSUME TreeInv, RootStep
    PROVE  TreeInv'
<1> USE DEF RootStep
<1>h. PICK n \in Nat : \E T : Built(T, n)
  BY DEF TreeInv
<1>1. PICK T : Built(T, n)
  BY <1>h
<1>2. level = T[n] /\ Tower(T, n)
  BY <1>1 DEF Built
<1>3. IsList(T[n]) /\ Len(T[n]) > 1
  BY <1>2 DEF Tower
<1> DEFINE U == [k \in 0..(n + 1) |-> IF k <= n THEN T[k] ELSE Parents(Padded(T[n]))]
<1>4. /\ \A k \in 0..n : U[k] = T[k]
      /\ U[n + 1] = Parents(Padded(T[n]))
  OBVIOUS
<1> HIDE DEF U
<1>5. IsList(U[n + 1]) /\ Len(U[n + 1]) >= 1
  BY <1>3, <1>4, ParentsLevel, ListProperties
<1>6. Tower(U, n + 1)'
  <2>1. U[0] = Hashes(leaves)'
    BY <1>2, <1>4 DEF Tower, Hashes
  <2>2. \A k \in 0..(n + 1) : IsList(U[k]) /\ Len(U[k]) >= 1
    <3> TAKE k \in 0..(n + 1)
    <3>1. CASE k = n + 1
      BY <3>1, <1>5
    <3>2. CASE k # n + 1
      <4>1. k \in 0..n
        BY <3>2
      <4> QED BY <4>1, <1>2, <1>4 DEF Tower
    <3> QED BY <3>1, <3>2
  <2>3. \A k \in 0..n : Len(U[k]) > 1 /\ U[k + 1] = Parents(Padded(U[k]))
    <3> TAKE k \in 0..n
    <3>1. CASE k = n
      BY <3>1, <1>3, <1>4
    <3>2. CASE k # n
      <4>1. k \in 0..(n - 1) /\ k + 1 \in 0..n
        BY <3>2
      <4> QED BY <4>1, <1>2, <1>4 DEF Tower
    <3> QED BY <3>1, <3>2
  <2> QED BY <2>1, <2>2, <2>3 DEF Tower
<1>7. Built(U, n + 1)'
  BY <1>2, <1>4, <1>6 DEF Built
<1>8. n + 1 \in Nat
  OBVIOUS
<1>9. (\E m \in Nat : \E V : Built(V, m))'
  BY <1>7, <1>8
<1> QED BY <1>9 DEF TreeInv

\* Whatever leaves the batch alone leaves its tower alone.
LEMMA TowerKept ==
    ASSUME NEW T, NEW n, Tower(T, n), UNCHANGED leaves
    PROVE  Tower(T, n)'
BY DEF Tower, Hashes

LEMMA RootStored ==
    ASSUME TreeInv, RootReturn
    PROVE  TreeInv'
<1> USE DEF RootReturn
<1>h. PICK n \in Nat : \E T : Built(T, n)
  BY DEF TreeInv
<1>1. PICK T : Built(T, n)
  BY <1>h
<1>2. level = T[n] /\ Tower(T, n)
  BY <1>1 DEF Built
<1>3. Tower(T, n)'
  BY <1>2, TowerKept
<1>4. Built(T, n)'
  BY <1>2, <1>3 DEF Built, Intact
<1>5. (\E m \in Nat : \E V : Built(V, m))'
  BY <1>4
<1> QED BY <1>5 DEF TreeInv

LEMMA PathBegins ==
    ASSUME TreeInv, NEW j \in Ranks, Request(j)
    PROVE  TreeInv'
<1> USE DEF Request
<1>h. PICK n \in Nat : \E T : Built(T, n)
  BY DEF TreeInv
<1>1. PICK T : Built(T, n)
  BY <1>h
<1>2. Tower(T, n) /\ Len(T[n]) = 1 /\ root = T[n][1]
  BY <1>1 DEF Built
<1>3. Tower(T, n)'
  BY <1>2, TowerKept
<1>4. T[0] = Hashes(leaves) /\ j \in 1..Len(T[0]) /\ Len(T[0]) \in Nat
  BY <1>2, Leaves DEF TreeInv, Tower
<1> DEFINE I == [k \in {0} |-> j - 1]
<1>5. I[0] = j - 1 /\ Len(proof') = 0 /\ IsList(proof')
  BY EmptySeq DEF IsList
<1> HIDE DEF I
<1>6. \A k \in 0..Len(proof') : I[k] \in 0..(Len(T[k]) - 1)
  <2> TAKE k \in 0..Len(proof')
  <2>1. k = 0
    BY <1>5
  <2> QED BY <2>1, <1>4, <1>5
<1>7. 0..(Len(proof') - 1) = {}
  BY <1>5
<1>8. Path(T, I, Len(proof))'
  BY <1>5, <1>6, <1>7 DEF Path
<1>9. OnPath(T, I, n)'
  BY <1>4, <1>5, <1>8 DEF OnPath
<1>10. Intact(T, n)'
  BY <1>5, <1>9 DEF Intact
<1>11. Built(T, n)'
  BY <1>2, <1>3, <1>10 DEF Built
<1>12. (\E m \in Nat : \E V : Built(V, m))'
  BY <1>11
<1> QED BY <1>12 DEF TreeInv

\* An iteration of merkle_proof goes up a level.
LEMMA PathGrows ==
    ASSUME TreeInv, ProofStep
    PROVE  TreeInv'
<1> USE DEF ProofStep
<1>h. PICK n \in Nat : \E T : Built(T, n)
  BY DEF TreeInv
<1>1. PICK T : Built(T, n)
  BY <1>h
<1>2. Tower(T, n) /\ Len(T[n]) = 1 /\ root = T[n][1] /\ Intact(T, n)
  BY <1>1 DEF Built
<1>3. Tower(T, n)'
  BY <1>2, TowerKept
<1>4. IsList(proof) /\ Len(proof) <= n /\ \E I : OnPath(T, I, n)
  BY <1>2 DEF Intact, TreeInv
<1>5. PICK I : OnPath(T, I, n)
  BY <1>4
<1>0. PICK m \in Nat : m = Len(proof)
  BY <1>4, ListProperties
<1>6. Path(T, I, m) /\ level = T[m] /\ index = I[m]
  BY <1>0, <1>5 DEF OnPath
<1>7. m \in 0..(n - 1) /\ m \in 0..n
  <2>1. m # n
    <3> SUFFICES ASSUME m = n PROVE FALSE
      OBVIOUS
    <3>1. Len(level) = 1 /\ Len(level) > 1
      BY <1>2, <1>6
    <3> QED BY <3>1
  <2> QED BY <1>0, <1>4, <2>1
<1>8. T[m + 1] = Parents(Padded(T[m])) /\ IsList(T[m]) /\ Len(T[m]) >= 1
  BY <1>2, <1>7 DEF Tower
<1>9. I[m] \in 0..(Len(T[m]) - 1)
  BY <1>6, <1>7 DEF Path
<1>10. I[m] \div 2 \in 0..(Len(T[m + 1]) - 1)
  BY <1>8, <1>9, SiblingFold
<1>11. /\ IsList(proof') /\ Len(proof') = m + 1
       /\ proof'[m + 1] = Sibling(Padded(T[m]), I[m])
       /\ \A k \in 1..m : proof'[k] = proof[k]
  BY <1>0, <1>4, <1>6, ListProperties
<1> DEFINE J == [k \in 0..(m + 1) |-> IF k <= m THEN I[k] ELSE I[m] \div 2]
<1>12. (\A k \in 0..m : J[k] = I[k]) /\ J[m + 1] = I[m] \div 2
  BY <1>7
<1> HIDE DEF J
<1>13. Path(T, J, Len(proof))'
  <2>1. J[0] = target' - 1
    BY <1>6, <1>7, <1>12 DEF Path
  <2>2. ASSUME NEW k \in 0..(m + 1) PROVE J[k] \in 0..(Len(T[k]) - 1)
    <3>1. CASE k = m + 1
      BY <3>1, <1>10, <1>12
    <3>2. CASE k # m + 1
      <4>1. k \in 0..m
        BY <3>2, <1>7
      <4> QED BY <4>1, <1>6, <1>12 DEF Path
    <3> QED BY <3>1, <3>2
  <2>3. ASSUME NEW k \in 0..m
        PROVE  proof'[k + 1] = Sibling(Padded(T[k]), J[k]) /\ J[k + 1] = J[k] \div 2
    <3>1. CASE k = m
      BY <3>1, <1>7, <1>11, <1>12
    <3>2. CASE k # m
      <4>1. k \in 0..(m - 1) /\ k + 1 \in 0..m /\ k + 1 \in 1..m
        BY <3>2, <1>7
      <4> QED BY <4>1, <1>6, <1>11, <1>12 DEF Path
    <3> QED BY <3>1, <3>2
  <2>4. 0..((m + 1) - 1) = 0..m
    BY <1>7
  <2> QED BY <1>11, <2>1, <2>2, <2>3, <2>4 DEF Path
<1>14. OnPath(T, J, n)'
  BY <1>6, <1>7, <1>8, <1>11, <1>12, <1>13 DEF OnPath
<1>15. Intact(T, n)'
  BY <1>7, <1>11, <1>14 DEF Intact
<1>16. Built(T, n)'
  BY <1>2, <1>3, <1>15 DEF Built
<1>17. (\E h \in Nat : \E V : Built(V, h))'
  BY <1>16
<1> QED BY <1>17 DEF TreeInv

\* merkle_proof returns at the top of the tower.
LEMMA PathServed ==
    ASSUME TreeInv, ProofReturn
    PROVE  TreeInv'
<1> USE DEF ProofReturn
<1>h. PICK n \in Nat : \E T : Built(T, n)
  BY DEF TreeInv
<1>1. PICK T : Built(T, n)
  BY <1>h
<1>2. Tower(T, n) /\ Len(T[n]) = 1 /\ root = T[n][1] /\ Intact(T, n)
  BY <1>1 DEF Built
<1>3. Tower(T, n)'
  BY <1>2, TowerKept
<1>4. IsList(proof) /\ Len(proof) <= n /\ \E I : OnPath(T, I, n)
  BY <1>2 DEF Intact, TreeInv
<1>5. PICK I : OnPath(T, I, n)
  BY <1>4
<1>6. Path(T, I, Len(proof)) /\ level = T[Len(proof)]
  BY <1>5 DEF OnPath
<1>7. Len(proof) = n
  <2>1. Len(proof) \in Nat
    BY <1>4, ListProperties
  <2>2. SUFFICES ASSUME Len(proof) # n PROVE FALSE
    OBVIOUS
  <2>3. Len(proof) \in 0..(n - 1)
    BY <1>4, <2>1, <2>2
  <2>4. Len(T[Len(proof)]) > 1 /\ Len(T[Len(proof)]) = 1
    BY <1>2, <1>6, <2>3 DEF Tower
  <2> QED BY <2>4
<1>8. Path(T, I, Len(proof))'
  BY <1>6 DEF Path
<1>9. OnPath(T, I, n)'
  BY <1>7, <1>8 DEF OnPath
<1>10. Intact(T, n)'
  BY <1>4, <1>9 DEF Intact
<1>11. Built(T, n)'
  BY <1>2, <1>3, <1>10 DEF Built
<1>12. (\E m \in Nat : \E V : Built(V, m))'
  BY <1>11
<1> QED BY <1>12 DEF TreeInv

--------------------------------------------------------------------------
(* The verifier on the path. *)

\* A step that leaves the evidence alone and neither begins a fold nor makes
\* one of its iterations.
LEMMA PathKept ==
    ASSUME TreeInv, UNCHANGED <<leaves, root, proof, target>>,
           pc \notin {"root", "stored", "proof"},
           pc' \notin {"root", "stored", "proof", "fold"}
    PROVE  TreeInv'
<1>h. PICK n \in Nat : \E T : Built(T, n)
  BY DEF TreeInv
<1>1. PICK T : Built(T, n)
  BY <1>h
<1>2. Tower(T, n) /\ Len(T[n]) = 1 /\ root = T[n][1] /\ Intact(T, n)
  BY <1>1 DEF Built
<1>3. Tower(T, n)'
  BY <1>2, TowerKept
<1>4. Intact(T, n)'
  <2>1. PICK I : IsList(proof) /\ Len(proof) <= n /\ OnPath(T, I, n)
    BY <1>2 DEF Intact
  <2>2. OnPath(T, I, n)'
    BY <2>1 DEF OnPath, Path
  <2> QED BY <2>1, <2>2 DEF Intact, IsList
<1>5. Built(T, n)'
  BY <1>2, <1>3, <1>4 DEF Built
<1>6. (\E m \in Nat : \E V : Built(V, m))'
  BY <1>5
<1> QED BY <1>6 DEF TreeInv

\* The fold begins with the leaf.
LEMMA FoldBegins ==
    ASSUME TreeInv, CheckSignature, pc' = "fold"
    PROVE  TreeInv'
<1>0. /\ pc = "signature" /\ current' = file.hash /\ pos' = 0
      /\ UNCHANGED <<leaves, root, proof, target, file>>
  BY DEF CheckSignature, Failed, inputs
<1>h. PICK n \in Nat : \E T : Built(T, n)
  BY DEF TreeInv
<1>1. PICK T : Built(T, n)
  BY <1>h
<1>2. Tower(T, n) /\ Len(T[n]) = 1 /\ root = T[n][1] /\ Intact(T, n)
  BY <1>0, <1>1 DEF Built
<1>3. Tower(T, n)'
  BY <1>0, <1>2, TowerKept
<1>4. Intact(T, n)'
  <2>1. PICK I : IsList(proof) /\ Len(proof) <= n /\ OnPath(T, I, n)
    BY <1>0, <1>2 DEF Intact
  <2>2. Path(T, I, Len(proof)) /\ Len(proof) = n
    BY <1>0, <2>1 DEF OnPath
  <2>3. target \in DOMAIN leaves /\ DOMAIN leaves = 1..Len(leaves) /\ Len(leaves) \in Nat
    BY <1>0, Leaves DEF TreeInv
  <2>4. file = Served => current' = T[0][I[0] + 1]
    <3>1. I[0] + 1 = target
      BY <2>2, <2>3 DEF Path
    <3>2. file = Served => current' = LeafHash(leaves[target])
      BY <1>0 DEF Served
    <3> QED BY <1>2, <2>3, <3>1, <3>2, Leaves DEF TreeInv, Tower
  <2>5. file' = Served' => file = Served
    BY <1>0 DEF Served
  <2>6. OnPath(T, I, n)'
    BY <1>0, <2>2, <2>4, <2>5 DEF OnPath, Path
  <2> QED BY <1>0, <2>1, <2>6 DEF Intact, IsList
<1>5. Built(T, n)'
  BY <1>0, <1>2, <1>3, <1>4 DEF Built
<1>6. (\E m \in Nat : \E V : Built(V, m))'
  BY <1>5
<1> QED BY <1>0, <1>6 DEF TreeInv

\* An iteration of the fold climbs a level.
LEMMA FoldClimbs ==
    ASSUME TreeInv, FoldStep
    PROVE  TreeInv'
<1> USE DEF FoldStep, inputs
<1>h. PICK n \in Nat : \E T : Built(T, n)
  BY DEF TreeInv
<1>1. PICK T : Built(T, n)
  BY <1>h
<1>2. Tower(T, n) /\ Len(T[n]) = 1 /\ root = T[n][1] /\ Intact(T, n)
  BY <1>1 DEF Built
<1>3. Tower(T, n)'
  BY <1>2, TowerKept
<1>4. Intact(T, n)'
  <2>1. PICK I : IsList(proof) /\ Len(proof) <= n /\ OnPath(T, I, n)
    BY <1>2 DEF Intact
  <2>2. Path(T, I, n) /\ Len(proof) = n
    BY <2>1 DEF OnPath
  <2>3. file' = Served' <=> file = Served
    BY DEF Served
  <2>4. ASSUME file = Served
        PROVE  pos' \in 0..n /\ current' = T[pos'][I[pos'] + 1]
    <3>1. pos \in 0..n /\ current = T[pos][I[pos] + 1]
      BY <2>1, <2>4 DEF OnPath
    <3>2. file.steps = proof
      BY <2>4 DEF Served
    <3>3. pos \in 0..(n - 1) /\ pos + 1 \in 0..n
      BY <2>2, <3>1, <3>2
    <3>4. /\ IsList(T[pos]) /\ Len(T[pos]) >= 1 /\ T[pos + 1] = Parents(Padded(T[pos]))
          /\ I[pos] \in 0..(Len(T[pos]) - 1)
          /\ proof[pos + 1] = Sibling(Padded(T[pos]), I[pos]) /\ I[pos + 1] = I[pos] \div 2
      BY <1>2, <2>2, <3>3 DEF Tower, Path
    <3>5. current' = Folded(current, proof[pos + 1])
      BY <3>2 DEF Folded
    <3>6. current' = T[pos + 1][I[pos + 1] + 1]
      BY <3>1, <3>4, <3>5, SiblingFold
    <3> QED BY <3>3, <3>6
  <2>5. OnPath(T, I, n)'
    BY <2>2, <2>3, <2>4 DEF OnPath, Path
  <2> QED BY <2>1, <2>5 DEF Intact, IsList
<1>5. Built(T, n)'
  BY <1>2, <1>3, <1>4 DEF Built
<1>6. (\E m \in Nat : \E V : Built(V, m))'
  BY <1>5
<1> QED BY <1>6 DEF TreeInv

\* Folding the proof that was served ends at the root of the batch.
LEMMA FoldEnds ==
    ASSUME TreeInv, pc = "fold", file = Served, pos = Len(file.steps)
    PROVE  current = file.root
<1>h. PICK n \in Nat : \E T : Built(T, n)
  BY DEF TreeInv
<1>1. PICK T : Built(T, n)
  BY <1>h
<1>2. Tower(T, n) /\ Len(T[n]) = 1 /\ root = T[n][1] /\ Intact(T, n)
  BY <1>1 DEF Built
<1>3. PICK I : OnPath(T, I, n)
  BY <1>2 DEF Intact
<1>0. file.steps = proof /\ file.root = root
  BY DEF Served
<1>4. Path(T, I, n) /\ pos = n /\ current = T[n][I[n] + 1]
  BY <1>0, <1>3 DEF OnPath
<1>5. I[n] \in 0..(Len(T[n]) - 1)
  BY <1>4 DEF Path
<1>6. I[n] = 0
  BY <1>2, <1>5
<1> QED BY <1>0, <1>2, <1>4, <1>6

--------------------------------------------------------------------------
(* The invariant. *)

LEMMA EvidenceBegins == Init => EvidenceInv
<1> SUFFICES ASSUME Init PROVE EvidenceInv
  OBVIOUS
<1>1. TreeInv
  BY TowerBuilt
<1>2. pc = "root"
  BY DEF Init, TreeInit
<1> QED BY <1>1, <1>2 DEF EvidenceInv, ChecksInv, Verifying, BlameIsRight

\* Until the verifier is asked there is nothing to say of its checks.
LEMMA NotYet ==
    ASSUME pc' \in {"root", "stored", "proof", "served"}
    PROVE  ChecksInv' /\ BlameIsRight'
BY DEF ChecksInv, Verifying, BlameIsRight

\* The evidence and the request, chosen by the client.
Asking(e, f, a) == pc = "served" /\ (Verify(e, f, a) \/ VerifyFetching(e, f, a))

LEMMA Asked ==
    ASSUME EvidenceInv, NEW e \in Events \cup {Wrapper}, NEW f, NEW a \in AnchorRecords,
           Asking(e, f, a)
    PROVE  EvidenceInv'
<1>1. /\ pc = "served" /\ pc' = "hash"
      /\ UNCHANGED <<leaves, root, proof, target>>
      /\ event' \in {e, Resolved(e)} /\ file' = f /\ anchor' \in {a, Enriched(a, f)}
  BY DEF Asking, Verify, VerifyFetching
<1>2. TreeInv'
  BY <1>1, PathKept DEF EvidenceInv
<1>3. event'.rank \in 0..Outsider
  <2>1. N \in Nat
    BY MerkleAssumption
  <2>2. leaves[target] \in Ranks
    BY <1>1, Leaves DEF EvidenceInv, TreeInv
  <2>3. e.rank \in 0..Outsider
    BY <2>1 DEF Events, Wrapper, Outsider
  <2>4. Resolved(e).rank \in 0..Outsider
    BY <2>1, <2>2, <2>3 DEF Resolved, Ranks, Outsider
  <2> QED BY <1>1, <2>3, <2>4
<1>4. PICK b \in {"this", "other"} :
        a \in [batch : {b}, root : {RootOf(b), None}, complete : BOOLEAN, filled : {FALSE}]
  BY DEF AnchorRecords
<1>5. /\ a.batch = b /\ a.root \in {None, RootOf(b)} /\ a.filled = FALSE
      /\ Enriched(a, f).batch = b
      /\ a.root = None => Enriched(a, f).root = f.root /\ Enriched(a, f).filled = TRUE
      /\ a.root # None => Enriched(a, f) = a
  BY <1>4 DEF Enriched
<1>6. RootOf(b)' = RootOf(b)
  BY <1>1 DEF RootOf
<1>7. /\ anchor'.batch = b
      /\ anchor'.root \in {None, IF anchor'.filled THEN f.root ELSE RootOf(b)}
  <2>1. CASE anchor' = a
    BY <1>5, <2>1
  <2>2. CASE anchor' = Enriched(a, f) /\ a.root = None
    BY <1>5, <2>2
  <2>3. CASE anchor' = Enriched(a, f) /\ a.root # None
    BY <1>5, <2>3
  <2> QED BY <1>1, <2>1, <2>2, <2>3
<1>8. ChecksInv'
  BY <1>1, <1>3, <1>6, <1>7 DEF ChecksInv, Verifying, RootOf
<1>9. BlameIsRight'
  BY <1>1 DEF BlameIsRight
<1> QED BY <1>2, <1>8, <1>9 DEF EvidenceInv

\* A check leaves the evidence alone, and what was found out about it.
LEMMA ChecksKept ==
    ASSUME ChecksInv, Verifying, UNCHANGED <<leaves, root, proof, target, event, file, anchor>>,
           pc' \notin {"root", "stored", "proof", "served", "hash"},
           pc' \in {"signature", "fold", "anchor"} => LeafHash(event.rank) = file.hash,
           pc' \in {"fold", "anchor"} => event.signed
    PROVE  ChecksInv' /\ Served' = Served
BY DEF ChecksInv, Verifying, RootOf, Served

\* Of the proof that was served, the hash is that of one event only.
LEMMA ServedEvent ==
    ASSUME TreeInv, target \in DOMAIN leaves, event.rank \in 0..Outsider, file = Served
    PROVE  LeafHash(event.rank) = file.hash <=> event.rank = leaves[target]
<1>1. N \in Nat /\ leaves[target] \in 1..N
  BY Leaves, MerkleAssumption DEF TreeInv, Ranks
<1>2. leaves[target] \in 0..(N + 1) /\ event.rank \in 0..(N + 1)
  BY <1>1 DEF Outsider
<1>3. file.hash = LeafHash(leaves[target])
  BY DEF Served
<1> QED BY <1>2, <1>3, MerkleAssumption

LEMMA HashChecked ==
    ASSUME EvidenceInv, CheckHash
    PROVE  EvidenceInv'
<1>1. /\ pc = "hash" /\ pc' \in {"signature", "done"}
      /\ UNCHANGED <<leaves, root, proof, target, anchored, event, file, anchor>>
  BY DEF CheckHash, Failed, inputs
<1>2. TreeInv'
  BY <1>1, PathKept DEF EvidenceInv
<1>3. pc' = "signature" => LeafHash(event.rank) = file.hash
  BY DEF CheckHash, Failed
<1>4. ChecksInv' /\ Served' = Served
  BY <1>1, <1>3, ChecksKept DEF EvidenceInv, Verifying
<1>5. /\ event.rank \in 0..Outsider /\ target \in DOMAIN leaves
  BY <1>1 DEF EvidenceInv, TreeInv, ChecksInv, Verifying
<1>6. BlameIsRight'
  <2>1. CASE pc' = "signature"
    BY <2>1 DEF BlameIsRight
  <2>2. CASE Failed("input_validation") /\ file.malformed = "field"
    BY <1>1, <2>2 DEF BlameIsRight, Failed
  <2>3. CASE Failed("proof_event_hash_match") /\ LeafHash(event.rank) # file.hash
    <3>1. event.rank # leaves[target] \/ file # Served
      BY <1>5, <2>3, ServedEvent DEF EvidenceInv
    <3> QED BY <1>1, <1>4, <2>3, <3>1 DEF BlameIsRight, Failed
  <2> QED BY <2>1, <2>2, <2>3 DEF CheckHash
<1> QED BY <1>2, <1>4, <1>6 DEF EvidenceInv

LEMMA SignatureChecked ==
    ASSUME EvidenceInv, CheckSignature
    PROVE  EvidenceInv'
<1>1. /\ pc = "signature" /\ pc' \in {"fold", "done"}
      /\ UNCHANGED <<leaves, root, proof, target, anchored, event, file, anchor>>
      /\ pc' = "fold" => event.signed
  BY DEF CheckSignature, Failed, inputs
<1>2. TreeInv'
  <2>1. CASE pc' = "fold"
    BY <2>1, FoldBegins DEF EvidenceInv
  <2>2. CASE pc' = "done"
    BY <1>1, <2>2, PathKept DEF EvidenceInv
  <2> QED BY <1>1, <2>1, <2>2
<1>3. /\ event.rank \in 0..Outsider /\ target \in DOMAIN leaves
      /\ LeafHash(event.rank) = file.hash
  BY <1>1 DEF EvidenceInv, TreeInv, ChecksInv, Verifying
<1>4. ChecksInv' /\ Served' = Served
  BY <1>1, <1>3, ChecksKept DEF EvidenceInv, Verifying
<1>5. BlameIsRight'
  <2>1. CASE pc' = "fold"
    BY <2>1 DEF BlameIsRight
  <2>2. CASE Failed("ed25519_signature") /\ ~event.signed
    <3>1. file = Served => event.rank = leaves[target]
      BY <1>3, ServedEvent DEF EvidenceInv
    <3> QED BY <1>1, <1>4, <2>2, <3>1 DEF BlameIsRight, Failed
  <2>3. CASE Failed("input_validation") /\ file.malformed = "step"
    BY <1>1, <2>3 DEF BlameIsRight, Failed
  <2> QED BY <2>1, <2>2, <2>3 DEF CheckSignature
<1> QED BY <1>2, <1>4, <1>5 DEF EvidenceInv

LEMMA FoldStepped ==
    ASSUME EvidenceInv, FoldStep
    PROVE  EvidenceInv'
<1>1. TreeInv'
  BY FoldClimbs DEF EvidenceInv
<1>2. /\ pc = "fold" /\ pc' = "fold"
      /\ UNCHANGED <<leaves, root, proof, target, event, file, anchor>>
  BY DEF FoldStep, inputs
<1>3. LeafHash(event.rank) = file.hash /\ event.signed
  BY <1>2 DEF EvidenceInv, ChecksInv
<1>4. ChecksInv'
  BY <1>2, <1>3, ChecksKept DEF EvidenceInv, Verifying
<1>5. BlameIsRight'
  BY <1>2 DEF BlameIsRight
<1> QED BY <1>1, <1>4, <1>5 DEF EvidenceInv

LEMMA FoldReturned ==
    ASSUME EvidenceInv, FoldReturn
    PROVE  EvidenceInv'
<1>1. /\ pc = "fold" /\ pc' \in {"anchor", "done"} /\ pos = Len(file.steps)
      /\ UNCHANGED <<leaves, root, proof, target, anchored, event, file, anchor>>
  BY DEF FoldReturn, Failed, inputs
<1>2. TreeInv'
  BY <1>1, PathKept DEF EvidenceInv
<1>3. LeafHash(event.rank) = file.hash /\ event.signed
  BY <1>1 DEF EvidenceInv, ChecksInv
<1>4. ChecksInv' /\ Served' = Served
  BY <1>1, <1>3, ChecksKept DEF EvidenceInv, Verifying
<1>5. BlameIsRight'
  <2>1. CASE pc' = "anchor"
    BY <2>1 DEF BlameIsRight
  <2>2. CASE current # file.root /\ Failed("merkle_inclusion_proof")
    <3>1. file # Served
      BY <1>1, <2>2, FoldEnds DEF EvidenceInv
    <3> QED BY <1>1, <1>4, <2>2, <3>1 DEF BlameIsRight, Failed
  <2> QED BY <2>1, <2>2 DEF FoldReturn
<1> QED BY <1>2, <1>4, <1>5 DEF EvidenceInv

\* The four ends of CheckAnchor.
LEMMA AnchorEnds ==
    ASSUME CheckAnchor
    PROVE  /\ pc = "anchor" /\ pc' = "done"
           /\ UNCHANGED <<leaves, root, proof, target, anchored, event, file, anchor>>
           /\ \/ /\ ~anchor.complete \/ anchor.root = None
                 /\ result' = [status |-> "FAIL", step |-> "input_validation"]
              \/ /\ anchor.root \notin {None, file.root}
                 /\ result' = [status |-> "FAIL", step |-> "anchor_merkle_root_match"]
              \/ /\ anchor.root = file.root /\ file.batch # anchor.batch
                 /\ result' = [status |-> "FAIL", step |-> "batch_id_match"]
              \/ /\ anchor.root # None
                 /\ anchor.root = file.root /\ file.batch = anchor.batch
                 /\ result' = [status |-> "PASS", step |-> "all"]
BY DEF CheckAnchor, Failed, inputs

LEMMA AnchorChecked ==
    ASSUME EvidenceInv, CheckAnchor
    PROVE  EvidenceInv'
<1>1. /\ pc = "anchor" /\ pc' = "done"
      /\ UNCHANGED <<leaves, root, proof, target, anchored, event, file, anchor>>
  BY AnchorEnds
<1>2. TreeInv'
  BY <1>1, PathKept DEF EvidenceInv
<1>3. /\ anchor.batch \in {"this", "other"}
      /\ anchor.root \in {None, IF anchor.filled THEN file.root ELSE RootOf(anchor.batch)}
  BY <1>1 DEF EvidenceInv, ChecksInv, Verifying
<1>4. ChecksInv' /\ Served' = Served
  BY <1>1, ChecksKept DEF EvidenceInv, Verifying
<1>5. BlameIsRight'
  <2>1. CASE result'.status = "PASS"
    BY <2>1 DEF BlameIsRight
  <2>2. CASE /\ ~anchor.complete \/ anchor.root = None
             /\ result' = [status |-> "FAIL", step |-> "input_validation"]
    BY <1>1, <2>2 DEF BlameIsRight
  <2>3. CASE /\ anchor.root \notin {None, file.root}
             /\ result' = [status |-> "FAIL", step |-> "anchor_merkle_root_match"]
    <3>1. file # Served \/ anchor.batch = "other"
      BY <1>3, <2>3 DEF Served, RootOf
    <3> QED BY <1>1, <1>4, <2>3, <3>1 DEF BlameIsRight
  <2>4. CASE /\ file.batch # anchor.batch
             /\ result' = [status |-> "FAIL", step |-> "batch_id_match"]
    <3>1. file # Served \/ anchor.batch = "other"
      BY <1>3, <2>4 DEF Served
    <3> QED BY <1>1, <1>4, <2>4, <3>1 DEF BlameIsRight
  <2>5. result'.status = "PASS" \/ result'.status = "FAIL"
    BY AnchorEnds
  <2> QED BY <2>1, <2>2, <2>3, <2>4, AnchorEnds
<1> QED BY <1>2, <1>4, <1>5 DEF EvidenceInv

LEMMA EvidenceStep ==
    ASSUME EvidenceInv, [Next]_vars
    PROVE  EvidenceInv'
<1>1. CASE Serve
  <2>1. TreeInv /\ TreeNext
    BY <1>1 DEF EvidenceInv, Serve
  <2>2. CASE RootStep
    BY <2>1, <2>2, TowerGrows, NotYet DEF RootStep, EvidenceInv
  <2>3. CASE RootReturn
    BY <2>1, <2>3, RootStored, NotYet DEF RootReturn, EvidenceInv
  <2>4. CASE \E k \in Ranks : Request(k)
    <3>1. PICK k \in Ranks : Request(k)
      BY <2>4
    <3>2. pc' = "proof"
      BY <3>1 DEF Request
    <3> QED BY <2>1, <3>1, <3>2, PathBegins, NotYet DEF EvidenceInv
  <2>5. CASE ProofStep
    BY <2>1, <2>5, PathGrows, NotYet DEF ProofStep, EvidenceInv
  <2>6. CASE ProofReturn
    BY <2>1, <2>6, PathServed, NotYet DEF ProofReturn, EvidenceInv
  <2> QED BY <2>1, <2>2, <2>3, <2>4, <2>5, <2>6 DEF TreeNext
<1>2. CASE Anchor
  <2>1. TreeInv'
    BY <1>2, PathKept DEF Anchor, treeVars, EvidenceInv
  <2>2. pc' = "served"
    BY <1>2 DEF Anchor, treeVars
  <2> QED BY <2>1, <2>2, NotYet DEF EvidenceInv
<1>3. CASE FetchFails
  <2>1. TreeInv'
    BY <1>3, PathKept DEF FetchFails, Failed, inputs, EvidenceInv
  <2>2. ChecksInv' /\ BlameIsRight'
    BY <1>3 DEF FetchFails, Failed, inputs, ChecksInv, Verifying, BlameIsRight
  <2> QED BY <2>1, <2>2 DEF EvidenceInv
<1>4. CASE /\ pc = "served"
           /\ \E f \in Files, a \in AnchorRecords, e \in Events \cup {Wrapper} :
                Verify(e, f, a) \/ VerifyFetching(e, f, a)
  BY <1>4, Asked DEF Asking
<1>5. CASE CheckHash
  BY <1>5, HashChecked
<1>6. CASE CheckSignature
  BY <1>6, SignatureChecked
<1>7. CASE FoldStep
  BY <1>7, FoldStepped
<1>8. CASE FoldReturn
  BY <1>8, FoldReturned
<1>9. CASE CheckAnchor
  BY <1>9, AnchorChecked
<1>10. CASE UNCHANGED vars
  <2> USE <1>10 DEF vars, treeVars
  <2>1. TreeInv'
    <3>h. PICK n \in Nat : \E T : Built(T, n)
      BY DEF EvidenceInv, TreeInv
    <3>1. PICK T : Built(T, n)
      BY <3>h
    <3>2. Tower(T, n) => Tower(T, n)'
      BY TowerKept
    <3>3. \A I : OnPath(T, I, n) => OnPath(T, I, n)'
      BY DEF OnPath, Path, Served
    <3>4. Intact(T, n) => Intact(T, n)'
      BY <3>3 DEF Intact, IsList
    <3>5. Built(T, n)'
      BY <3>1, <3>2, <3>4 DEF Built
    <3>6. (\E m \in Nat : \E V : Built(V, m))'
      BY <3>5
    <3> QED BY <3>6 DEF EvidenceInv, TreeInv
  <2>2. ChecksInv' /\ BlameIsRight'
    BY DEF EvidenceInv, ChecksInv, Verifying, BlameIsRight, RootOf, Served
  <2> QED BY <2>1, <2>2 DEF EvidenceInv
<1> QED BY <1>1, <1>2, <1>3, <1>4, <1>5, <1>6, <1>7, <1>8, <1>9, <1>10 DEF Next

LEMMA EvidenceAlways == Spec => []EvidenceInv
<1>1. EvidenceInv /\ [Next]_vars => EvidenceInv'
  BY EvidenceStep
<1> QED BY <1>1, EvidenceBegins, PTL DEF Spec

\* A check that fails is about an input that is at fault.  Above all a proof
\* from merkle_proof that is as it was served always folds to the root
\* merkle_root stored (verify_inclusion_proof).
THEOREM BlameFallsRight == Spec => []BlameIsRight
<1>1. EvidenceInv => BlameIsRight
  BY DEF EvidenceInv
<1> QED BY <1>1, EvidenceAlways, PTL

--------------------------------------------------------------------------
(* What a PASS says.  This is where it matters that hashes do not collide. *)

\* Different pairs of nodes, and a pair and an event, have different hashes.
CollisionFree ==
    /\ \A a, b, c, d : HashPair(a, b) = HashPair(c, d) => a = c /\ b = d
    /\ \A k \in 0..Outsider : \A a, b : LeafHash(k) # HashPair(a, b)

\* A hash that is no node of the batch's tree.
Outside(x) ==
    \A n \in Nat : \A T : Tower(T, n) =>
        \A k \in 0..n : \A i \in 1..Len(T[k]) : T[k][i] # x

\* Where the fold is, and what it has shown when it is done.
MemberInv ==
    /\ pc = "fold" =>
        /\ event.rank \notin EventsOf("this") => Outside(current)
        /\ current = LeafHash(event.rank) \/ \E l, r : current = HashPair(l, r)
    /\ pc = "anchor" =>
        \A b \in {"this", "other"} : file.root = RootOf(b) => event.rank \in EventsOf(b)
    /\ PassIsEvidence

\* A hash of two nodes of one level of a tower.
IsPair(T, n, node) ==
    \E k \in 0..n : \E x, y \in 1..Len(T[k]) : node = HashPair(T[k][x], T[k][y])

\* Each node above the leaves is one.
LEMMA NodeIsPair ==
    ASSUME leaves \in SortedLists, NEW n \in Nat, NEW T, Tower(T, n),
           NEW h \in 0..n, h # 0, NEW i \in 1..Len(T[h])
    PROVE  IsPair(T, n, T[h][i])
<1>0. PICK k \in 0..(n - 1) : h = k + 1 /\ k \in 0..n
  <2>1. h - 1 \in 0..(n - 1) /\ h - 1 \in 0..n /\ h = (h - 1) + 1
    OBVIOUS
  <2> QED BY <2>1
<1>1. /\ IsList(T[k]) /\ Len(T[k]) > 1 /\ Len(T[k]) >= 1
      /\ T[k + 1] = Parents(Padded(T[k]))
  BY DEF Tower
<1>2. PICK w \in Nat : w = Len(T[k])
  BY <1>1, ListProperties
<1>3. Len(T[k + 1]) = (w + 1) \div 2
  BY <1>1, <1>2, ParentsLevel
<1>4. i \in 1..((w + 1) \div 2)
  BY <1>0, <1>3
<1>5. T[h][i] = HashPair(Padded(T[k])[2 * i - 1], Padded(T[k])[2 * i])
  BY <1>0, <1>1, <1>2, <1>4, ParentsLevel
<1>6. 2 * i - 1 \in 1..w /\ (2 * i \in 1..w \/ (w % 2 = 1 /\ 2 * i = w + 1)) /\ w \in 1..w
  <2>1. i \in Nat /\ i >= 1 /\ i <= (w + 1) \div 2
    BY <1>4
  <2>2. w > 1
    BY <1>1, <1>2
  <2>3. CASE w % 2 = 0
    <3>1. 2 * i <= w
      BY <2>1, <2>3
    <3> QED BY <2>1, <2>2, <3>1
  <2>4. CASE w % 2 = 1
    <3>1. 2 * i <= w + 1
      BY <2>1, <2>4
    <3> QED BY <2>1, <2>2, <2>4, <3>1
  <2>5. w % 2 \in {0, 1}
    OBVIOUS
  <2> QED BY <2>3, <2>4, <2>5
<1>7. \A j \in 1..w : Padded(T[k])[j] = T[k][j]
  BY <1>1, <1>2, PaddedLevel
<1>8. CASE 2 * i \in 1..w
  BY <1>0, <1>2, <1>5, <1>6, <1>7, <1>8 DEF IsPair
<1>9. CASE w % 2 = 1 /\ 2 * i = w + 1
  <2>1. Padded(T[k]) = Append(T[k], T[k][w])
    BY <1>2, <1>9 DEF Padded
  <2>2. Padded(T[k])[2 * i] = T[k][w]
    BY <1>1, <1>2, <1>9, <2>1, ListProperties
  <2> QED BY <1>0, <1>2, <1>5, <1>6, <1>7, <2>2 DEF IsPair
<1> QED BY <1>6, <1>8, <1>9

\* The nodes of the lowest level are the hashes of the batch's events.
LEMMA NodeIsLeaf ==
    ASSUME leaves \in SortedLists, NEW n \in Nat, NEW T, Tower(T, n),
           NEW i \in 1..Len(T[0])
    PROVE  i \in DOMAIN leaves /\ T[0][i] = LeafHash(leaves[i]) /\ leaves[i] \in 0..Outsider
<1>1. T[0] = Hashes(leaves)
  BY DEF Tower
<1>2. i \in DOMAIN leaves /\ leaves[i] \in Ranks
  BY <1>1, Leaves
<1>3. leaves[i] \in 0..Outsider
  BY <1>2, MerkleAssumption DEF Ranks, Outsider
<1> QED BY <1>1, <1>2, <1>3, Leaves

\* An event of another batch, or of none, is not in the tree.
LEMMA LeafOutside ==
    ASSUME CollisionFree, leaves \in SortedLists, NEW e \in 0..Outsider,
           e \notin EventsOf("this")
    PROVE  Outside(LeafHash(e))
<1> SUFFICES ASSUME NEW n \in Nat, NEW T, Tower(T, n), NEW k \in 0..n,
                    NEW i \in 1..Len(T[k])
             PROVE  T[k][i] # LeafHash(e)
  BY DEF Outside
<1>1. CASE k = 0
  <2>1. /\ i \in DOMAIN leaves /\ T[0][i] = LeafHash(leaves[i])
        /\ leaves[i] \in 0..(N + 1) /\ e \in 0..(N + 1)
    BY <1>1, NodeIsLeaf DEF Outsider
  <2>2. leaves[i] # e
    BY <2>1 DEF EventsOf
  <2> QED BY <1>1, <2>1, <2>2, MerkleAssumption
<1>2. CASE k # 0
  <2>1. IsPair(T, n, T[k][i])
    BY <1>2, NodeIsPair
  <2>2. \E x, y : T[k][i] = HashPair(x, y)
    BY <2>1 DEF IsPair
  <2> QED BY <2>2 DEF CollisionFree
<1> QED BY <1>1, <1>2

\* Folding leads from outside the tree to outside, whatever the sibling.
LEMMA FoldOutside ==
    ASSUME CollisionFree, leaves \in SortedLists, NEW c, Outside(c), NEW s
    PROVE  Outside(HashPair(s, c)) /\ Outside(HashPair(c, s))
<1> SUFFICES ASSUME NEW n \in Nat, NEW T, Tower(T, n), NEW k \in 0..n,
                    NEW i \in 1..Len(T[k])
             PROVE  T[k][i] # HashPair(s, c) /\ T[k][i] # HashPair(c, s)
  BY DEF Outside
<1>1. CASE k = 0
  <2>1. T[0][i] = LeafHash(leaves[i]) /\ leaves[i] \in 0..Outsider
    BY <1>1, NodeIsLeaf
  <2> QED BY <1>1, <2>1 DEF CollisionFree
<1>2. CASE k # 0
  <2>0. IsPair(T, n, T[k][i])
    BY <1>2, NodeIsPair
  <2>1. PICK m \in 0..n : \E x, y \in 1..Len(T[m]) : T[k][i] = HashPair(T[m][x], T[m][y])
    BY <2>0 DEF IsPair
  <2>2. PICK x \in 1..Len(T[m]), y \in 1..Len(T[m]) : T[k][i] = HashPair(T[m][x], T[m][y])
    BY <2>1
  <2>3. T[m][x] # c /\ T[m][y] # c
    BY DEF Outside
  <2> QED BY <2>2, <2>3 DEF CollisionFree
<1> QED BY <1>1, <1>2

\* The root is in the tree.
LEMMA RootInside ==
    ASSUME TreeInv, pc # "root"
    PROVE  ~Outside(root)
<1>h. PICK n \in Nat : \E T : Built(T, n)
  BY DEF TreeInv
<1>1. PICK T : Built(T, n)
  BY <1>h
<1>2. Tower(T, n) /\ Len(T[n]) = 1 /\ root = T[n][1]
  BY <1>1 DEF Built
<1>3. n \in 0..n /\ 1 \in 1..Len(T[n])
  BY <1>2
<1> QED BY <1>2, <1>3 DEF Outside

LEMMA MemberStep ==
    ASSUME CollisionFree, EvidenceInv, MemberInv, [Next]_vars
    PROVE  MemberInv'
<1>l. leaves \in SortedLists
  BY DEF EvidenceInv, TreeInv
<1>1. CASE CheckSignature
  <2>1. /\ pc = "signature" /\ UNCHANGED <<leaves, root, event, file>>
        /\ \/ pc' = "done" /\ result'.status = "FAIL"
           \/ pc' = "fold" /\ current' = file.hash
    BY <1>1 DEF CheckSignature, Failed, inputs
  <2>2. event.rank \in 0..Outsider /\ LeafHash(event.rank) = file.hash
    BY <2>1 DEF EvidenceInv, ChecksInv, Verifying
  <2>3. pc' = "fold" /\ event.rank \notin EventsOf("this") => Outside(current')
    BY <1>l, <2>1, <2>2, LeafOutside
  <2>4. Outside(current)' = Outside(current') /\ EventsOf("this")' = EventsOf("this")
    BY <2>1 DEF Outside, Tower, Hashes, EventsOf
  <2> QED BY <2>1, <2>2, <2>3, <2>4 DEF MemberInv, PassIsEvidence
<1>2. CASE FoldStep
  <2>1. /\ pc = "fold" /\ pc' = "fold" /\ UNCHANGED <<leaves, root, event, file>>
        /\ \E s : current' = HashPair(s, current) \/ current' = HashPair(current, s)
    BY <1>2 DEF FoldStep, inputs
  <2>2. event.rank \notin EventsOf("this") => Outside(current')
    BY <1>l, <2>1, FoldOutside DEF MemberInv
  <2>3. Outside(current)' = Outside(current') /\ EventsOf("this")' = EventsOf("this")
    BY <2>1 DEF Outside, Tower, Hashes, EventsOf
  <2> QED BY <2>1, <2>2, <2>3 DEF MemberInv, PassIsEvidence
<1>3. CASE FoldReturn
  <2>1. /\ pc = "fold" /\ UNCHANGED <<leaves, root, event, file>>
        /\ \/ pc' = "done" /\ result'.status = "FAIL"
           \/ pc' = "anchor" /\ current = file.root
    BY <1>3 DEF FoldReturn, Failed, inputs
  <2>2. event.rank \in 0..Outsider
    BY <2>1 DEF EvidenceInv, ChecksInv, Verifying
  <2>3. current = root => event.rank \in EventsOf("this")
    BY <2>1, RootInside DEF EvidenceInv, MemberInv
  <2>4. current = LeafHash(Outsider) => event.rank \in EventsOf("other")
    <3>1. N \in Nat /\ Outsider = N + 1 /\ Outsider \in 0..Outsider
      BY MerkleAssumption DEF Outsider
    <3>2. current = LeafHash(Outsider) => current = LeafHash(event.rank)
      BY <2>1, <3>1 DEF MemberInv, CollisionFree
    <3>3. LeafHash(event.rank) = LeafHash(Outsider) => event.rank = Outsider
      BY <2>2, <3>1, MerkleAssumption
    <3> QED BY <3>2, <3>3 DEF EventsOf
  <2>5. \A b \in {"this", "other"} : RootOf(b)' = RootOf(b) /\ EventsOf(b)' = EventsOf(b)
    BY <2>1 DEF RootOf, EventsOf
  <2>6. \A b \in {"this", "other"} : current = RootOf(b) => event.rank \in EventsOf(b)
    BY <2>3, <2>4 DEF RootOf
  <2> QED BY <2>1, <2>5, <2>6 DEF MemberInv, PassIsEvidence
<1>4. CASE CheckAnchor
  <2>1. /\ pc = "anchor" /\ pc' = "done"
        /\ UNCHANGED <<leaves, root, proof, target, event, file, anchor>>
    BY <1>4, AnchorEnds
  <2>2. /\ event.signed /\ event.rank \in 0..Outsider /\ target \in DOMAIN leaves
        /\ LeafHash(event.rank) = file.hash
        /\ anchor.batch \in {"this", "other"}
        /\ anchor.root \in {None, IF anchor.filled THEN file.root ELSE RootOf(anchor.batch)}
    BY <2>1 DEF EvidenceInv, TreeInv, ChecksInv, Verifying
  <2>3. Served' = Served /\ EventsOf(anchor.batch)' = EventsOf(anchor.batch)
    BY <2>1 DEF Served, EventsOf
  <2>4. ASSUME result'.status = "PASS", ~anchor.filled \/ file = Served
        PROVE  event.rank \in EventsOf(anchor.batch)
    <3>1. anchor.root # None /\ anchor.root = file.root /\ file.batch = anchor.batch
      BY <1>4, <2>4, AnchorEnds
    <3>2. CASE ~anchor.filled
      <4>1. file.root = RootOf(anchor.batch)
        BY <2>2, <3>1, <3>2
      <4> QED BY <2>1, <2>2, <4>1 DEF MemberInv
    <3>3. CASE file = Served
      <4>1. anchor.batch = "this"
        BY <3>1, <3>3 DEF Served
      <4>2. event.rank = leaves[target]
        BY <2>2, <3>3, ServedEvent DEF EvidenceInv
      <4> QED BY <2>2, <4>1, <4>2 DEF EventsOf
    <3> QED BY <2>4, <3>2, <3>3
  <2>5. PassIsEvidence'
    BY <2>1, <2>2, <2>3, <2>4 DEF PassIsEvidence
  <2> QED BY <2>1, <2>5 DEF MemberInv
<1>5. CASE UNCHANGED vars
  BY <1>5 DEF vars, treeVars, MemberInv, PassIsEvidence, Outside, Tower, Hashes, EventsOf, RootOf,
              Served
<1>6. CASE pc' \notin {"fold", "anchor", "done"} \/ (pc' = "done" /\ result'.status = "FAIL")
  BY <1>6 DEF MemberInv, PassIsEvidence
<1> QED
  BY <1>1, <1>2, <1>3, <1>4, <1>5, <1>6
     DEF Next, Serve, TreeNext, RootStep, RootReturn, Request, ProofStep, ProofReturn, Anchor,
         FetchFails, Failed, Verify, VerifyFetching, CheckHash, treeVars

\* A PASS is evidence, for any size of batch and any proof file, where hashes
\* do not collide: the event is signed and it is in the batch that the anchor
\* record is of, or that record had no root of its own (verify_audit_evidence).
THEOREM PassesAreEvidence ==
    ASSUME CollisionFree
    PROVE  Spec => []PassIsEvidence
<1>1. Init => MemberInv
  BY DEF Init, TreeInit, MemberInv, PassIsEvidence
<1>2. EvidenceInv /\ MemberInv /\ [Next]_vars => MemberInv'
  BY MemberStep
<1>3. MemberInv => PassIsEvidence
  BY DEF MemberInv
<1> QED BY <1>1, <1>2, <1>3, EvidenceAlways, PTL DEF Spec

--------------------------------------------------------------------------
(* The depth of a proof. *)

\* Powers of two count subsets, which is all the provers know of them.
LEMMA PowerDoubles ==
    ASSUME NEW n \in Nat
    PROVE  2 ^ n \in Nat /\ 2 ^ (n + 1) = 2 * 2 ^ n
<1> DEFINE S == 1..n
           A == SUBSET S
           B == {T \cup {n + 1} : T \in A}
<1>1. IsFiniteSet(S) /\ Cardinality(S) = n
  BY FS_Interval
<1>2. IsFiniteSet(A) /\ Cardinality(A) = 2 ^ n /\ 2 ^ n \in Nat
  BY <1>1, FS_SUBSET, FS_CardinalityType
<1>3. IsFiniteSet(1..(n + 1)) /\ Cardinality(1..(n + 1)) = n + 1
  BY FS_Interval
<1>4. Cardinality(SUBSET (1..(n + 1))) = 2 ^ (n + 1)
  BY <1>3, FS_SUBSET
<1>5. IsFiniteSet(B) /\ Cardinality(B) = Cardinality(A)
  <2> DEFINE f == [T \in A |-> T \cup {n + 1}]
  <2>1. f \in [A -> B]
    OBVIOUS
  <2>2. ASSUME NEW T \in A, NEW U \in A, f[T] = f[U]
        PROVE  T = U
    <3>1. n + 1 \notin T /\ n + 1 \notin U
      OBVIOUS
    <3>2. T = f[T] \ {n + 1} /\ U = f[U] \ {n + 1}
      BY <3>1
    <3> QED BY <2>2, <3>2
  <2>3. \A b \in B : \E T \in A : f[T] = b
    OBVIOUS
  <2>4. f \in Bijection(A, B)
    BY <2>1, <2>2, <2>3 DEF Bijection, Injection, IsInjective, Surjection
  <2>5. ExistsBijection(A, B)
    BY <2>4 DEF ExistsBijection
  <2> QED BY <1>2, <2>5, FS_Bijection
<1>6. A \cap B = {}
  <2>1. \A T \in A : n + 1 \notin T
    OBVIOUS
  <2>2. \A T \in B : n + 1 \in T
    OBVIOUS
  <2> QED BY <2>1, <2>2
<1>7. SUBSET (1..(n + 1)) = A \cup B
  <2>1. ASSUME NEW U \in SUBSET (1..(n + 1)) PROVE U \in A \cup B
    <3>1. CASE n + 1 \in U
      <4>1. U \ {n + 1} \in A /\ U = (U \ {n + 1}) \cup {n + 1}
        BY <3>1
      <4> QED BY <4>1
    <3>2. CASE n + 1 \notin U
      BY <3>2
    <3> QED BY <3>1, <3>2
  <2>2. ASSUME NEW U \in A \cup B PROVE U \in SUBSET (1..(n + 1))
    OBVIOUS
  <2> QED BY <2>1, <2>2
<1>8. Cardinality({}) = 0
  BY FS_EmptySet
<1> HIDE DEF A, B
<1>9. Cardinality(A \cup B) = Cardinality(A) + Cardinality(B)
  <2>1. Cardinality(A \cup B) = Cardinality(A) + Cardinality(B) - Cardinality(A \cap B)
    BY <1>2, <1>5, FS_Union
  <2>2. Cardinality(A) \in Nat /\ Cardinality(B) \in Nat /\ Cardinality(A \cap B) = 0
    BY <1>2, <1>5, <1>6, <1>8
  <2> QED BY <2>1, <2>2
<1>10. 2 ^ (n + 1) = 2 ^ n + 2 ^ n
  BY <1>2, <1>4, <1>5, <1>7, <1>9
<1> QED BY <1>2, <1>10

\* A level of l nodes that is m above the leaves covers all of them, with its
\* last node too.
Covers(l, m) ==
    /\ (l - 1) * 2 ^ m < Len(leaves)
    /\ Len(leaves) <= l * 2 ^ m

DepthInv ==
    pc = "proof" =>
        /\ IsList(level) /\ Len(level) >= 1 /\ IsList(proof)
        /\ Covers(Len(level), Len(proof))
        /\ Len(proof) > 0 => 2 ^ (Len(proof) - 1) < Len(leaves)

\* A level half as long covers as much.
LEMMA HalfCovers ==
    ASSUME NEW l \in Nat, NEW m \in Nat, NEW w \in Nat, l > 1,
           (l - 1) * 2 ^ m < w, w <= l * 2 ^ m
    PROVE  /\ (((l + 1) \div 2) - 1) * 2 ^ (m + 1) < w
           /\ w <= ((l + 1) \div 2) * 2 ^ (m + 1)
           /\ 2 ^ m < w
<1> DEFINE h == (l + 1) \div 2
<1>1. PICK p \in Nat : p = 2 ^ m /\ 2 ^ (m + 1) = 2 * p
  BY PowerDoubles
<1>2. h \in Nat /\ l <= 2 * h /\ 2 * (h - 1) <= l - 1 /\ h - 1 \in Nat
  OBVIOUS
<1> HIDE DEF h
<1>3. \A a, b \in Nat : a <= b => a * p <= b * p
  BY <1>1
<1>4. l * p <= (2 * h) * p
  BY <1>2, <1>3
<1>5. (2 * (h - 1)) * p <= (l - 1) * p
  BY <1>2, <1>3
<1>6. 1 * p <= (l - 1) * p
  BY <1>3
<1>7. (2 * h) * p = h * (2 * p) /\ (2 * (h - 1)) * p = (h - 1) * (2 * p) /\ 1 * p = p
  BY <1>1, <1>2
<1>8. /\ l * p \in Nat /\ h * (2 * p) \in Nat
      /\ (l - 1) * p \in Nat /\ (h - 1) * (2 * p) \in Nat
  BY <1>1, <1>2
<1>9. (h - 1) * (2 * p) < w /\ w <= h * (2 * p) /\ p < w
  BY <1>1, <1>4, <1>5, <1>6, <1>7, <1>8
<1> QED BY <1>1, <1>9 DEF h

LEMMA DepthStep ==
    ASSUME EvidenceInv, DepthInv, [Next]_vars
    PROVE  DepthInv'
<1> SUFFICES ASSUME pc' = "proof" PROVE DepthInv'
  BY DEF DepthInv
<1>1. CASE \E k \in Ranks : Request(k)
  <2>1. level' = Hashes(leaves) /\ proof' = <<>> /\ leaves' = leaves
    BY <1>1 DEF Request
  <2>2. /\ IsList(level') /\ Len(level') = Len(leaves)
        /\ Len(leaves) \in Nat /\ Len(leaves) >= 1
    BY <2>1, Leaves DEF EvidenceInv, TreeInv
  <2>3. IsList(proof') /\ Len(proof') = 0 /\ 2 ^ 0 = 1
    BY <2>1, EmptySeq DEF IsList
  <2> QED BY <2>1, <2>2, <2>3 DEF DepthInv, Covers
<1>2. CASE ProofStep
  <2>1. /\ pc = "proof" /\ Len(level) > 1 /\ leaves' = leaves
        /\ level' = Parents(Padded(level))
        /\ proof' = Append(proof, Sibling(Padded(level), index))
    BY <1>2 DEF ProofStep
  <2>2. /\ IsList(level) /\ Len(level) >= 1 /\ IsList(proof)
        /\ Covers(Len(level), Len(proof))
    BY <2>1 DEF DepthInv
  <2>3. Len(level) \in Nat /\ Len(proof) \in Nat /\ Len(leaves) \in Nat
    BY <2>2, ListProperties, Leaves DEF EvidenceInv, TreeInv
  <2>4. IsList(level') /\ Len(level') = (Len(level) + 1) \div 2 /\ Len(level') >= 1
    BY <2>1, <2>2, ParentsLevel
  <2>5. IsList(proof') /\ Len(proof') = Len(proof) + 1
    BY <2>1, <2>2, ListProperties
  <2>6. /\ (((Len(level) + 1) \div 2) - 1) * 2 ^ (Len(proof) + 1) < Len(leaves)
        /\ Len(leaves) <= ((Len(level) + 1) \div 2) * 2 ^ (Len(proof) + 1)
        /\ 2 ^ Len(proof) < Len(leaves)
    BY <2>1, <2>2, <2>3, HalfCovers DEF Covers
  <2>7. Len(proof') - 1 = Len(proof)
    BY <2>3, <2>5
  <2> QED BY <2>1, <2>4, <2>5, <2>6, <2>7 DEF DepthInv, Covers
<1>3. CASE UNCHANGED <<pc, leaves, level, proof>>
  BY <1>3 DEF DepthInv, Covers, IsList
<1> QED
  BY <1>1, <1>2, <1>3
     DEF Next, Serve, TreeNext, RootStep, RootReturn, ProofReturn, Anchor, FetchFails, Failed,
         Verify, VerifyFetching, CheckHash, CheckSignature, FoldStep, FoldReturn, CheckAnchor,
         inputs, vars, treeVars

LEMMA DepthReached ==
    ASSUME EvidenceInv, DepthInv
    PROVE  ProofDepth
<1> SUFFICES ASSUME pc = "proof", Len(level) = 1
             PROVE  /\ Len(leaves) <= 2 ^ Len(proof)
                    /\ Len(proof) > 0 => 2 ^ (Len(proof) - 1) < Len(leaves)
  BY DEF ProofDepth
<1>1. /\ Len(leaves) <= 1 * 2 ^ Len(proof) /\ IsList(proof)
      /\ Len(proof) > 0 => 2 ^ (Len(proof) - 1) < Len(leaves)
  BY DEF DepthInv, Covers
<1>2. 2 ^ Len(proof) \in Nat
  BY <1>1, ListProperties, PowerDoubles
<1> QED BY <1>1, <1>2

\* merkle_proof, for any number of leaves: the proof it returns has as many
\* steps as the leaves must be halved, rounding up, to reach one.
THEOREM ProofsAreLogarithmic == Spec => []ProofDepth
<1>1. Init => DepthInv
  BY DEF Init, TreeInit, DepthInv
<1>2. EvidenceInv /\ EvidenceInv' /\ DepthInv /\ [Next]_vars => DepthInv'
  BY DepthStep
<1>3. EvidenceInv /\ DepthInv => ProofDepth
  BY DepthReached
<1> QED BY <1>1, <1>2, <1>3, EvidenceAlways, PTL DEF Spec

==========================================================================
