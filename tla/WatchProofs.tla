---------------------------- MODULE WatchProofs ----------------------------
(***************************************************************************)
(* Where the watcher can go blind and what becomes of a change it was told *)
(* of, for any directories, names, channel and queue.                      *)
(***************************************************************************)
EXTENDS Watch, TLAPS, FiniteSetTheorems, WellFoundedInduction

-----------------------------------------------------------------------------
(* 1. The inductive invariant.                                             *)

(* A directory that does not exist holds nothing and is not watched, and   *)
(* no directory holds two of one name.                                     *)
Placed ==
    /\ \A d \in Dirs :
          parent[d] \in Dirs => parent[parent[d]] \notin {Nowhere, Removed}
    /\ \A d \in watched \cap Dirs : parent[d] \notin {Nowhere, Removed}

NoTwins ==
    \A d, e \in Dirs :
        parent[d] = parent[e] /\ parent[d] \in Watchable /\ name[d] = name[e]
        => d = e

(* addTree will come to the directory: the kernel reported it to the       *)
(* watch above it, or its path is to be visited, or is being visited.      *)
Queued(u) ==
    /\ u \in Dirs /\ parent[u] \in watched
    /\ Ev(parent[u], "made", name[u]) \in ToSet(queue)
ToVisit(u)  == \E p \in todo : u \in At(p)
Visiting(u) == reading # None /\ u \in At(reading.path)

(* ... or it is one of the blind spots.                                    *)
Excused(u)  == BlindSpot(u)

(* Whatever is not watched has such a directory at or above it.            *)
Sighted ==
    ~overflowed =>
        \A x \in Watchable :
            InTree(x) /\ x \notin watched /\ ~NamedIgnored(x) =>
                \E u \in Above(x) :
                    Queued(u) \/ ToVisit(u) \/ Visiting(u) \/ Excused(u)

(* So has what appeared in a watched directory since addTree read its      *)
(* names: the visit will not come to it, and does not excuse it.           *)
ReadBehind ==
    ~overflowed /\ reading # None =>
        \A x \in Dirs :
            /\ parent[x] \in At(reading.path) \cap watched
            /\ name[x] \notin reading.names /\ ~NamedIgnored(x)
            => \E u \in Above(x) :
                  \/ Queued(u) \/ ToVisit(u)
                  \/ u \in Dirs /\ u \in raced
                  \/ /\ u \in Dirs /\ Lost(parent[u])
                     /\ parent[u] \notin At(reading.path)
                  \/ u \in refused /\ u \notin At(reading.path)

BlindInv == Placed /\ NoTwins /\ Sighted /\ ReadBehind

-----------------------------------------------------------------------------
(* 2. Sets of directories above a directory, and paths.                    *)

(* Above and At, for any tree.                                             *)
UpFrom(par, d) ==
    {x \in Watchable : \A S \in SUBSET Watchable :
        /\ d \in S
        /\ \A y \in S \cap Dirs : par[y] \in Watchable => par[y] \in S
        => x \in S}

Chain(par, nam, path, d, down) ==
    /\ down \in [0 .. Len(path) -> Watchable]
    /\ down[0] = Root /\ down[Len(path)] = d
    /\ \A i \in 1 .. Len(path) :
          down[i] \in Dirs /\ par[down[i]] = down[i-1] /\ nam[down[i]] = path[i]

Reached(par, nam, path) ==
    {d \in Watchable : \E down : Chain(par, nam, path, d, down)}

LEMMA AboveIsUp ==
    \A d : Above(d) = UpFrom(parent, d) /\ Above(d)' = UpFrom(parent', d)
BY DEF Above, UpFrom

LEMMA AtIsReached ==
    \A p : At(p) = Reached(parent, name, p) /\ At(p)' = Reached(parent', name', p)
BY DEF At, Descent, Reached, Chain

LEMMA Disjoint ==
    /\ Root \notin Dirs /\ Outside \notin Watchable
    /\ Nowhere \notin Watchable /\ Removed \notin Watchable
    /\ Outside # Nowhere /\ Outside # Removed /\ Nowhere # Removed
BY PlacesAssumption DEF Watchable

(* A set of naturals has a least element.                                  *)
LEMMA Least ==
    ASSUME NEW S \in SUBSET Nat, S # {}
    PROVE  \E n \in S : \A m \in S : n <= m
<1> DEFINE R == {ss \in Nat \X Nat : ss[1] < ss[2]}
<1>1. IsWellFoundedOn(R, Nat)
  BY NatLessThanWellFounded DEF OpToRel
<1>2. \E n \in S : \A m \in S : <<m, n>> \notin R
  <2> HIDE DEF R
  <2> QED  BY <1>1, WFMin, Zenon
<1>3. \A m, n \in Nat : m < n => <<m, n>> \in R
  OBVIOUS
<1>4. PICK n \in S : \A m \in S : <<m, n>> \notin R
  BY <1>2
<1>5. ASSUME NEW m \in S  PROVE n <= m
  <2>1. ~(m < n)
    <3> HIDE DEF R
    <3> QED  BY <1>3, <1>4
  <2> QED  BY <2>1
<1> QED  BY <1>5

(* The set above a directory is closed upwards, and is the least such set. *)
LEMMA UpSelf ==
    ASSUME NEW par, NEW d \in Watchable
    PROVE  d \in UpFrom(par, d)
BY DEF UpFrom

LEMMA UpClosed ==
    ASSUME NEW par, NEW d, NEW y \in UpFrom(par, d) \cap Dirs,
           par[y] \in Watchable
    PROVE  par[y] \in UpFrom(par, d)
BY DEF UpFrom

LEMMA UpLeast ==
    ASSUME NEW par, NEW d, NEW S \in SUBSET Watchable, d \in S,
           \A y \in S \cap Dirs : par[y] \in Watchable => par[y] \in S
    PROVE  UpFrom(par, d) \subseteq S
BY DEF UpFrom

LEMMA UpInside ==
    ASSUME NEW par, NEW d
    PROVE  UpFrom(par, d) \subseteq Watchable
BY DEF UpFrom

LEMMA UpTransitive ==
    ASSUME NEW par, NEW d, NEW y \in UpFrom(par, d)
    PROVE  UpFrom(par, y) \subseteq UpFrom(par, d)
BY UpClosed, UpLeast, UpInside

(* Whatever is above a directory, and not itself, is above its parent, and *)
(* is the parent of something at or above it.                              *)
LEMMA UpParent ==
    ASSUME NEW par, NEW x \in Dirs, NEW u \in UpFrom(par, x), u # x
    PROVE  par[x] \in Watchable /\ u \in UpFrom(par, par[x])
<1> DEFINE S == {x} \cup
                (IF par[x] \in Watchable THEN UpFrom(par, par[x]) ELSE {})
<1>1. S \in SUBSET Watchable /\ x \in S
  BY UpInside DEF Watchable
<1>2. \A y \in S \cap Dirs : par[y] \in Watchable => par[y] \in S
  BY UpClosed, UpSelf
<1>3. UpFrom(par, x) \subseteq S
  <2> HIDE DEF S
  <2> QED  BY <1>1, <1>2, UpLeast
<1> QED  BY <1>3

LEMMA UpChild ==
    ASSUME NEW par, NEW x \in Watchable, NEW u \in UpFrom(par, x), u # x
    PROVE  \E z \in UpFrom(par, x) \cap Dirs : par[z] = u
<1> SUFFICES ASSUME \A z \in UpFrom(par, x) \cap Dirs : par[z] # u
             PROVE  FALSE
  OBVIOUS
<1> DEFINE S == UpFrom(par, x) \ {u}
<1>1. S \in SUBSET Watchable /\ x \in S
  BY UpInside, UpSelf
<1>2. \A y \in S \cap Dirs : par[y] \in Watchable => par[y] \in S
  BY UpClosed
<1>3. UpFrom(par, x) \subseteq S
  <2> HIDE DEF S
  <2> QED  BY <1>1, <1>2, UpLeast
<1> QED  BY <1>3

LEMMA UpRoot ==
    ASSUME NEW par
    PROVE  UpFrom(par, Root) = {Root}
<1>1. UpFrom(par, Root) \subseteq {Root}
  <2> DEFINE S == {Root}
  <2>1. S \in SUBSET Watchable /\ Root \in S /\ S \cap Dirs = {}
    BY Disjoint DEF Watchable
  <2>2. UpFrom(par, Root) \subseteq S
    <3> HIDE DEF S
    <3> QED  BY <2>1, UpLeast
  <2> QED  BY <2>2
<1> QED  BY <1>1, UpSelf DEF Watchable

(* What is above a directory depends on nothing else.                      *)
LEMMA UpSame ==
    ASSUME NEW par, NEW par2, NEW x \in Watchable,
           \A y \in UpFrom(par, x) \cap Dirs : par2[y] = par[y]
    PROVE  UpFrom(par2, x) = UpFrom(par, x)
<1>1. UpFrom(par2, x) \subseteq UpFrom(par, x)
  <2>1. \A y \in UpFrom(par, x) \cap Dirs :
           par2[y] \in Watchable => par2[y] \in UpFrom(par, x)
    BY UpClosed
  <2> QED  BY <2>1, UpSelf, UpInside, UpLeast
<1>2. UpFrom(par, x) \subseteq UpFrom(par2, x)
  <2>1. \A y \in UpFrom(par2, x) \cap Dirs :
           par[y] \in Watchable => par[y] \in UpFrom(par2, x)
    BY <1>1, UpClosed
  <2> QED  BY <2>1, UpSelf, UpInside, UpLeast
<1> QED  BY <1>1, <1>2

(* Paths: the folder itself, a directory in another, and no other.         *)
LEMMA ReachedRoot ==
    ASSUME NEW par, NEW nam
    PROVE  Reached(par, nam, <<>>) = {Root}
<1>1. Len(<<>>) = 0 /\ 1 .. 0 = {}
  OBVIOUS
<1>2. Chain(par, nam, <<>>, Root, [i \in 0 .. 0 |-> Root])
  BY <1>1 DEF Chain, Watchable
<1>3. \A d, down : Chain(par, nam, <<>>, d, down) => d = Root
  BY <1>1 DEF Chain
<1> QED  BY <1>2, <1>3 DEF Reached, Watchable

LEMMA ReachedChild ==
    ASSUME NEW par, NEW nam, NEW p \in Seq(Names), NEW x \in Dirs,
           par[x] \in Reached(par, nam, p), nam[x] \in Names
    PROVE  x \in Reached(par, nam, Append(p, nam[x]))
<1>1. PICK down : Chain(par, nam, p, par[x], down)
  BY DEF Reached
<1> DEFINE more == [i \in 0 .. Len(p) + 1 |-> IF i <= Len(p) THEN down[i] ELSE x]
           q    == Append(p, nam[x])
<1>2. q \in Seq(Names) /\ Len(q) = Len(p) + 1 /\ Len(p) \in Nat
      /\ q[Len(p) + 1] = nam[x] /\ \A i \in 1 .. Len(p) : q[i] = p[i]
  OBVIOUS
<1>3. Chain(par, nam, q, x, more)
  <2>1. more \in [0 .. Len(q) -> Watchable] /\ more[0] = Root /\ more[Len(q)] = x
    BY <1>1, <1>2 DEF Chain, Watchable
  <2>2. ASSUME NEW i \in 1 .. Len(q)
        PROVE  more[i] \in Dirs /\ par[more[i]] = more[i-1] /\ nam[more[i]] = q[i]
    <3>1. CASE i <= Len(p)
      BY <3>1, <1>1, <1>2 DEF Chain
    <3>2. CASE i = Len(p) + 1
      BY <3>2, <1>1, <1>2 DEF Chain
    <3> QED  BY <3>1, <3>2, <1>2
  <2> HIDE DEF more, q
  <2> QED  BY <2>1, <2>2 DEF Chain
<1> QED  BY <1>3 DEF Reached, Watchable

LEMMA ReachedParent ==
    ASSUME NEW par, NEW nam, NEW p \in Seq(Names),
           NEW x \in Dirs \cap Reached(par, nam, p)
    PROVE  par[x] \in Watchable
<1>1. PICK down : Chain(par, nam, p, x, down)
  BY DEF Reached
<1>2. Len(p) \in Nat /\ Len(p) # 0
  BY <1>1, Disjoint DEF Chain
<1> QED  BY <1>1, <1>2 DEF Chain

(* Every directory that a chain passes is above the one it leads to.       *)
LEMMA ChainAbove ==
    ASSUME NEW par, NEW nam, NEW p \in Seq(Names), NEW x \in Watchable, NEW down,
           Chain(par, nam, p, x, down), NEW i \in 0 .. Len(p)
    PROVE  down[i] \in UpFrom(par, x)
<1> DEFINE Off == {k \in 0 .. Len(p) : down[Len(p) - k] \notin UpFrom(par, x)}
<1>1. Len(p) \in Nat /\ Off \in SUBSET Nat
  OBVIOUS
<1>2. SUFFICES ASSUME Off # {}  PROVE FALSE
  <2>1. Len(p) - i \in 0 .. Len(p) /\ Len(p) - (Len(p) - i) = i
    BY <1>1
  <2> QED  BY <2>1
<1>3. PICK k \in Off : \A m \in Off : k <= m
  BY <1>1, <1>2, Least
<1>4. k \in 1 .. Len(p)
  <2>1. k # 0
    BY <1>3, UpSelf DEF Chain
  <2> QED  BY <1>1, <1>3, <2>1
<1>5. PICK j \in 1 .. Len(p) : j = Len(p) - (k - 1)
  <2>1. Len(p) - (k - 1) \in 1 .. Len(p)
    BY <1>1, <1>4
  <2> QED  BY <2>1
<1>6. down[j] \in UpFrom(par, x)
  BY <1>1, <1>3, <1>4, <1>5
<1>7. j - 1 = Len(p) - k /\ j - 1 \in 0 .. Len(p)
  BY <1>1, <1>3, <1>5
<1>8. down[j] \in Dirs /\ par[down[j]] = down[j-1] /\ down[j-1] \in Watchable
  BY <1>7 DEF Chain
<1> QED  BY <1>3, <1>6, <1>7, <1>8, UpClosed

(* A path leads to a directory or not according to what is above it.       *)
LEMMA ReachedSame ==
    ASSUME NEW par, NEW nam, NEW par2, NEW nam2, NEW x \in Watchable,
           NEW p \in Seq(Names), x \in Reached(par, nam, p),
           \A y \in UpFrom(par, x) \cap Dirs : par2[y] = par[y] /\ nam2[y] = nam[y]
    PROVE  x \in Reached(par2, nam2, p)
<1>1. PICK down : Chain(par, nam, p, x, down)
  BY DEF Reached
<1>2. ASSUME NEW i \in 1 .. Len(p)  PROVE down[i] \in UpFrom(par, x)
  <2>1. i \in 0 .. Len(p)
    OBVIOUS
  <2> QED  BY <1>1, <2>1, ChainAbove
<1>3. Chain(par2, nam2, p, x, down)
  BY <1>1, <1>2 DEF Chain
<1> QED  BY <1>3 DEF Reached

(* Where no two siblings share a name, a path leads to one directory.      *)
LEMMA ReachedOnce ==
    ASSUME NEW par, NEW nam, NEW p \in Seq(Names),
           NEW x \in Reached(par, nam, p), NEW y \in Reached(par, nam, p),
           \A d, e \in Dirs :
              par[d] = par[e] /\ par[d] \in Watchable /\ nam[d] = nam[e] => d = e
    PROVE  x = y
<1>1. PICK f : Chain(par, nam, p, x, f)
  BY DEF Reached
<1>2. PICK g : Chain(par, nam, p, y, g)
  BY DEF Reached
<1> DEFINE Off == {k \in 0 .. Len(p) : f[k] # g[k]}
<1>3. Len(p) \in Nat /\ Off \in SUBSET Nat
  OBVIOUS
<1>4. SUFFICES ASSUME Off # {}  PROVE FALSE
  BY <1>1, <1>2, <1>3 DEF Chain
<1>5. PICK k \in Off : \A m \in Off : k <= m
  BY <1>3, <1>4, Least
<1>6. k # 0
  BY <1>1, <1>2, <1>5 DEF Chain
<1>7. f[k-1] = g[k-1]
  BY <1>3, <1>5, <1>6
<1> QED  BY <1>1, <1>2, <1>3, <1>5, <1>6, <1>7 DEF Chain

(* A directory that is not above another may change without changing what  *)
(* is above that one, or where it is.                                      *)
LEMMA Elsewhere ==
    ASSUME NEW par, NEW nam, NEW par2, NEW nam2, NEW d,
           \A y \in Dirs \ {d} : par2[y] = par[y] /\ nam2[y] = nam[y],
           NEW x \in Watchable, d \notin UpFrom(par, x)
    PROVE  /\ UpFrom(par2, x) = UpFrom(par, x)
           /\ \A u \in UpFrom(par, x) : \A p \in Seq(Names) :
                 u \in Reached(par2, nam2, p) <=> u \in Reached(par, nam, p)
<1>1. \A y \in UpFrom(par, x) \cap Dirs : par2[y] = par[y] /\ nam2[y] = nam[y]
  OBVIOUS
<1>2. UpFrom(par2, x) = UpFrom(par, x)
  BY <1>1, UpSame
<1>3. ASSUME NEW u \in UpFrom(par, x), NEW p \in Seq(Names)
      PROVE  u \in Reached(par2, nam2, p) <=> u \in Reached(par, nam, p)
  <2>1. u \in Watchable /\ UpFrom(par, u) \subseteq UpFrom(par, x)
    BY UpInside, UpTransitive
  <2>2. UpFrom(par2, u) = UpFrom(par, u)
    BY <1>1, <2>1, UpSame
  <2> QED  BY <1>1, <2>1, <2>2, ReachedSame
<1> QED  BY <1>2, <1>3

-----------------------------------------------------------------------------
(* 3. Sequences: the kernel's queue and the channel.                       *)

LEMMA Appended ==
    ASSUME NEW T, NEW q \in Seq(T), NEW e \in T
    PROVE  /\ Append(q, e) \in Seq(T)
           /\ ToSet(Append(q, e)) = ToSet(q) \cup {e}
<1> DEFINE r == Append(q, e)
<1>1. /\ r \in Seq(T) /\ Len(q) \in Nat /\ DOMAIN q = 1 .. Len(q)
      /\ DOMAIN r = 1 .. Len(q) + 1 /\ r[Len(q) + 1] = e
      /\ \A i \in 1 .. Len(q) : r[i] = q[i]
  OBVIOUS
<1> HIDE DEF r
<1>2. ToSet(r) = ToSet(q) \cup {e}
  BY <1>1 DEF ToSet
<1> QED  BY <1>1, <1>2 DEF r

LEMMA Joined ==
    ASSUME NEW T, NEW q \in Seq(T), NEW r \in Seq(T)
    PROVE  /\ q \o r \in Seq(T)
           /\ ToSet(q \o r) = ToSet(q) \cup ToSet(r)
           /\ Len(q \o r) = Len(q) + Len(r)
<1> DEFINE t == q \o r
<1>1. /\ t \in Seq(T) /\ Len(q) \in Nat /\ Len(r) \in Nat
      /\ Len(t) = Len(q) + Len(r)
      /\ DOMAIN q = 1 .. Len(q) /\ DOMAIN r = 1 .. Len(r)
      /\ DOMAIN t = 1 .. Len(q) + Len(r)
      /\ \A i \in 1 .. Len(q) : t[i] = q[i]
      /\ \A i \in 1 .. Len(r) : t[Len(q) + i] = r[i]
  OBVIOUS
<1> HIDE DEF t
<1>2. ToSet(t) \subseteq ToSet(q) \cup ToSet(r)
  <2> SUFFICES ASSUME NEW i \in 1 .. Len(q) + Len(r)
               PROVE  t[i] \in ToSet(q) \cup ToSet(r)
    BY <1>1 DEF ToSet
  <2>1. CASE i <= Len(q)
    <3>1. i \in 1 .. Len(q)
      BY <1>1, <2>1
    <3> QED  BY <1>1, <3>1 DEF ToSet
  <2>2. CASE i > Len(q)
    <3>1. i - Len(q) \in 1 .. Len(r) /\ Len(q) + (i - Len(q)) = i
      BY <1>1, <2>2
    <3> QED  BY <1>1, <3>1 DEF ToSet
  <2> QED  BY <1>1, <2>1, <2>2
<1>3. ToSet(q) \subseteq ToSet(t)
  BY <1>1 DEF ToSet
<1>4. ToSet(r) \subseteq ToSet(t)
  <2> SUFFICES ASSUME NEW i \in 1 .. Len(r)  PROVE r[i] \in ToSet(t)
    BY <1>1 DEF ToSet
  <2>1. Len(q) + i \in DOMAIN t
    BY <1>1
  <2> QED  BY <1>1, <2>1 DEF ToSet
<1> QED  BY <1>1, <1>2, <1>3, <1>4 DEF t

LEMMA Taken ==
    ASSUME NEW T, NEW q \in Seq(T), q # <<>>
    PROVE  /\ Tail(q) \in Seq(T) /\ Head(q) \in T
           /\ ToSet(q) = {Head(q)} \cup ToSet(Tail(q))
<1> DEFINE r == Tail(q)
<1>1. /\ r \in Seq(T) /\ Len(q) \in Nat /\ Len(q) > 0
      /\ DOMAIN q = 1 .. Len(q) /\ DOMAIN r = 1 .. Len(q) - 1
      /\ \A i \in 1 .. Len(q) - 1 : r[i] = q[i + 1]
      /\ Head(q) = q[1]
  OBVIOUS
<1> HIDE DEF r
<1>2. ToSet(q) \subseteq {q[1]} \cup ToSet(r)
  <2> SUFFICES ASSUME NEW i \in 1 .. Len(q), i # 1  PROVE q[i] \in ToSet(r)
    BY <1>1 DEF ToSet
  <2>1. i - 1 \in 1 .. Len(q) - 1 /\ (i - 1) + 1 = i
    BY <1>1
  <2> QED  BY <1>1, <2>1 DEF ToSet
<1>3. ToSet(r) \subseteq ToSet(q)
  <2> SUFFICES ASSUME NEW i \in 1 .. Len(q) - 1  PROVE r[i] \in ToSet(q)
    BY <1>1 DEF ToSet
  <2>1. i + 1 \in DOMAIN q
    BY <1>1
  <2> QED  BY <1>1, <2>1 DEF ToSet
<1>4. q[1] \in ToSet(q) /\ q[1] \in T
  BY <1>1 DEF ToSet
<1> QED  BY <1>1, <1>2, <1>3, <1>4 DEF r

LEMMA Emptied ==
    /\ \A T : <<>> \in Seq(T)
    /\ ToSet(<<>>) = {} /\ Len(<<>>) = 0
BY DEF ToSet

LEMMA Singled ==
    ASSUME NEW T, NEW e \in T
    PROVE  <<e>> \in Seq(T) /\ ToSet(<<e>>) = {e} /\ Len(<<e>>) = 1
BY DEF ToSet

LEMMA LastOne ==
    ASSUME NEW T, NEW q \in Seq(T), q # <<>>
    PROVE  Last(q) \in ToSet(q) /\ Last(q) \in T
<1>1. Len(q) \in Nat /\ Len(q) > 0 /\ DOMAIN q = 1 .. Len(q) /\ q[Len(q)] \in T
  OBVIOUS
<1> QED  BY <1>1 DEF ToSet, Last

LEMMA ListedIn ==
    ASSUME NEW S, IsFiniteSet(S)
    PROVE  SetToSeq(S) \in Seq(S)
<1>1. PICK f : f \in Bijection(1 .. Cardinality(S), S)
  BY FS_CardinalityType DEF ExistsBijection
<1>2. f \in [1 .. Cardinality(S) -> S] /\ IsInjective(f)
  BY <1>1 DEF Bijection, Injection, IsInjective
<1>3. SetToSeq(S) \in [1 .. Cardinality(S) -> S]
  BY <1>2 DEF SetToSeq
<1>4. Cardinality(S) \in Nat
  BY FS_CardinalityType
<1> HIDE DEF SetToSeq
<1> QED  BY <1>3, <1>4

(* What a watch is told of is an event, and the queue takes all of it, or  *)
(* an overflow.                                                            *)
LEMMA ToldEvent ==
    ASSUME TypeOK, NEW wd, NEW k \in {"made", "gone", "change", "open"},
           NEW n \in Names \cup {None}, k = "made" => n \in Names
    PROVE  /\ wd \in watched => Ev(wd, k, n) \in Event
           /\ Told(Ev(wd, k, n)) \in Seq(Event)
           /\ ToSet(Told(Ev(wd, k, n))) =
                 IF wd \in watched THEN {Ev(wd, k, n)} ELSE {}
<1>1. Ev(wd, k, n).wd = wd /\ (wd \in watched => Ev(wd, k, n) \in Event)
  BY DEF Ev, Event, TypeOK
<1> HIDE DEF Ev
<1>2. CASE wd \in watched
  <2>1. Told(Ev(wd, k, n)) = <<Ev(wd, k, n)>>
    BY <1>1, <1>2 DEF Told
  <2> QED  BY <1>1, <1>2, <2>1, Singled
<1>3. CASE wd \notin watched
  <2>1. Told(Ev(wd, k, n)) = <<>>
    BY <1>1, <1>3 DEF Told
  <2> QED  BY <1>1, <1>3, <2>1, Emptied
<1> QED  BY <1>2, <1>3

LEMMA ReportGrows ==
    ASSUME queue \in Seq(Event), overflowed \in BOOLEAN,
           NEW told \in Seq(Event), Report(told)
    PROVE  /\ queue' \in Seq(Event) /\ overflowed' \in BOOLEAN
           /\ ToSet(queue) \subseteq ToSet(queue')
           /\ overflowed => overflowed'
           /\ ~overflowed' => ToSet(queue') = ToSet(queue) \cup ToSet(told)
           /\ \/ ToSet(told) \subseteq ToSet(queue')
              \/ \E e \in ToSet(queue') : e.kind = "overflow" /\ e.name = None
<1> DEFINE full == Ev(None, "overflow", None)
<1>1. full \in Event /\ full.kind = "overflow" /\ full.name = None
  BY DEF Ev, Event
<1>2. CASE Len(queue) + Len(told) <= MaxQueue
  <2>1. queue' = queue \o told /\ overflowed' = overflowed
    BY <1>2 DEF Report
  <2> QED  BY <2>1, Joined
<1>3. CASE /\ ~(Len(queue) + Len(told) <= MaxQueue)
           /\ overflowed /\ queue # <<>> /\ Last(queue).kind = "overflow"
  <2>1. queue' = queue /\ overflowed' = TRUE
    BY <1>3 DEF Report
  <2>2. Last(queue) \in ToSet(queue) /\ Last(queue) \in Event
    BY <1>3, LastOne
  <2>3. Last(queue).name = None
    BY <1>3, <2>2 DEF Event
  <2> QED  BY <1>3, <2>1, <2>2, <2>3
<1>4. CASE /\ ~(Len(queue) + Len(told) <= MaxQueue)
           /\ ~(overflowed /\ queue # <<>> /\ Last(queue).kind = "overflow")
  <2>1. queue' = Append(queue, full) /\ overflowed' = TRUE
    BY <1>4, Zenon DEF Report
  <2> HIDE DEF full
  <2>2. queue' \in Seq(Event) /\ ToSet(queue') = ToSet(queue) \cup {full}
    BY <1>1, <2>1, Appended
  <2> QED  BY <1>1, <2>1, <2>2
<1> QED  BY <1>2, <1>3, <1>4

-----------------------------------------------------------------------------
(* 4. The types.                                                           *)

LEMMA ReportTypes ==
    ASSUME queue \in Seq(Event), overflowed \in BOOLEAN,
           NEW told \in Seq(Event), Report(told)
    PROVE  queue' \in Seq(Event) /\ overflowed' \in BOOLEAN
BY ReportGrows

LEMMA PassReports ==
    LET opened == {Ev(d, "open", None) : d \in {x \in watched : InTree(x)}} IN
    TypeOK =>
        /\ SetToSeq(opened) \in Seq(Event)
        /\ \A e \in ToSet(SetToSeq(opened)) : e.kind = "open"
<1> DEFINE opened == {Ev(d, "open", None) : d \in {x \in watched : InTree(x)}}
<1> SUFFICES ASSUME TypeOK
             PROVE  /\ SetToSeq(opened) \in Seq(Event)
                    /\ \A e \in ToSet(SetToSeq(opened)) : e.kind = "open"
  OBVIOUS
<1>1. IsFiniteSet({x \in watched : InTree(x)})
  <2>1. IsFiniteSet(Watchable)
    BY PlacesAssumption, FS_AddElement DEF Watchable
  <2> QED  BY <2>1, FS_Subset DEF TypeOK
<1>2. IsFiniteSet(opened)
  <2> DEFINE D == {x \in watched : InTree(x)}
             f == [d \in D |-> Ev(d, "open", None)]
  <2>1. f \in Surjection(D, opened)
    BY DEF Surjection
  <2> HIDE DEF f, opened, D
  <2> QED  BY <1>1, <2>1, FS_Surjection DEF D
<1>3. \A e \in opened : e \in Event /\ e.kind = "open"
  <2>1. \A d \in watched : Ev(d, "open", None) \in Event
    BY ToldEvent DEF TypeOK
  <2>2. \A d : Ev(d, "open", None).kind = "open"
    BY DEF Ev
  <2> QED  BY <2>1, <2>2
<1> HIDE DEF opened
<1>4. SetToSeq(opened) \in Seq(opened)
  BY <1>2, ListedIn
<1> HIDE DEF SetToSeq
<1>5. PICK s : s = SetToSeq(opened)
  OBVIOUS
<1>6. s \in Seq(opened) /\ s \in Seq(Event) /\ \A i \in DOMAIN s : s[i] \in opened
  BY <1>3, <1>4, <1>5
<1> QED  BY <1>3, <1>5, <1>6 DEF ToSet

LEMMA SendTypes ==
    ASSUME chan \in Seq({"listing", "change"}),
           NEW ev \in {"listing", "change"}, Send(ev)
    PROVE  chan' \in Seq({"listing", "change"})
BY Appended DEF Send

(* The user's steps.                                                       *)
LEMMA UserTypes ==
    ASSUME TypeOK, Users
    PROVE  TypeOK'
<1> USE DEF tree, kernel, walk, loop, history
<1>1. steps' \in 0 .. MaxSteps
  BY RoomAssumption DEF TypeOK, Users, Mkdir, Rename, Rmdir, Write, List,
                        UserStep
<1>2. ASSUME NEW d \in Dirs, NEW n \in Names, NEW p \in Watchable \cup {Outside},
             Mkdir(d, p, n)
      PROVE  TypeOK'
  <2>1. Told(Ev(p, "made", n)) \in Seq(Event)
    BY ToldEvent
  <2>2. queue' \in Seq(Event) /\ overflowed' \in BOOLEAN
    BY <1>2, <2>1, ReportTypes DEF Mkdir, TypeOK
  <2>3. parent' \in [Dirs -> Place] /\ name' \in [Dirs -> Names]
    BY <1>2 DEF Mkdir, TypeOK, Place
  <2> QED  BY <1>1, <1>2, <2>2, <2>3 DEF Mkdir, TypeOK
<1>3. ASSUME NEW d \in Dirs, NEW n \in Names, NEW p \in Watchable \cup {Outside},
             Rename(d, p, n)
      PROVE  TypeOK'
  <2>1. /\ Told(Ev(parent[d], "change", name[d])) \in Seq(Event)
        /\ Told(Ev(p, "made", n)) \in Seq(Event)
        /\ Told(Ev(d, "gone", None)) \in Seq(Event)
    BY ToldEvent DEF TypeOK
  <2>2. queue' \in Seq(Event) /\ overflowed' \in BOOLEAN
    BY <1>3, <2>1, Joined, ReportTypes DEF Rename, TypeOK
  <2>3. parent' \in [Dirs -> Place] /\ name' \in [Dirs -> Names]
    BY <1>3 DEF Rename, TypeOK, Place
  <2> QED  BY <1>1, <1>3, <2>2, <2>3 DEF Rename, TypeOK
<1>4. ASSUME NEW d \in Dirs, Rmdir(d)
      PROVE  TypeOK'
  <2>1. /\ Told(Ev(parent[d], "change", name[d])) \in Seq(Event)
        /\ Told(Ev(d, "gone", None)) \in Seq(Event)
    BY ToldEvent DEF TypeOK
  <2>2. queue' \in Seq(Event) /\ overflowed' \in BOOLEAN
    BY <1>4, <2>1, Joined, ReportTypes DEF Rmdir, TypeOK
  <2>3. parent' \in [Dirs -> Place]
    BY <1>4 DEF Rmdir, TypeOK, Place
  <2> QED  BY <1>1, <1>4, <2>2, <2>3 DEF Rmdir, TypeOK
<1>5. ASSUME NEW d \in Watchable, Write(d) \/ List(d)
      PROVE  TypeOK'
  <2>1. /\ Told(Ev(d, "change", None)) \in Seq(Event)
        /\ Told(Ev(d, "open", None)) \in Seq(Event)
    BY ToldEvent
  <2>2. queue' \in Seq(Event) /\ overflowed' \in BOOLEAN
    BY <1>5, <2>1, ReportTypes DEF Write, List, TypeOK
  <2> QED  BY <1>1, <1>5, <2>2 DEF Write, List, TypeOK
<1> QED  BY <1>2, <1>3, <1>4, <1>5 DEF Users

LEMMA WalkTypes ==
    ASSUME TypeOK, Walk
    PROVE  TypeOK'
<1> USE DEF tree, kernel, walk, loop, history
<1>1. ASSUME NEW path \in todo, WalkRead(path)
      PROVE  TypeOK'
  <2>1. reading' \in Read \cup {None}
    BY <1>1 DEF WalkRead, TypeOK, Read, Children
  <2> QED  BY <1>1, <2>1 DEF WalkRead, TypeOK
<1>4. ASSUME NEW path \in todo, WalkUnread(path)
      PROVE  TypeOK'
  BY <1>4 DEF WalkUnread, TypeOK, At
<1>5. CASE WalkAddFails
  <2>1. reading.path \in Path /\ reading.names \subseteq Names
    BY <1>5 DEF WalkAddFails, TypeOK, Read
  <2>2. \A n \in reading.names : Append(reading.path, n) \in Seq(Names)
    BY <2>1, Appended DEF Path
  <2>3. todo' \subseteq Path /\ refused' \subseteq Watchable
    BY <1>5, <2>2 DEF WalkAddFails, TypeOK, Path, At
  <2> QED  BY <1>5, <2>3 DEF WalkAddFails, TypeOK
<1>2. CASE WalkAdd
  <2>1. reading.path \in Path /\ reading.names \subseteq Names
    BY <1>2 DEF WalkAdd, TypeOK, Read
  <2>2. todo' \subseteq Path
    <3>1. \A n \in reading.names : Append(reading.path, n) \in Seq(Names)
      BY <2>1, Appended DEF Path
    <3> QED  BY <1>2, <3>1 DEF WalkAdd, TypeOK, Path
  <2>3. watched' \subseteq Watchable /\ raced' \subseteq Dirs
        /\ refused' \subseteq Watchable
        /\ paths' \in [Watchable -> Path \cup {None}]
    BY <1>2, <2>1 DEF WalkAdd, TypeOK, At, Children
  <2> QED  BY <1>2, <2>2, <2>3 DEF WalkAdd, TypeOK
<1>3. CASE WalkEnds
  <2>1. chan' \in Seq({"listing", "change"})
    BY <1>3, SendTypes DEF WalkEnds, SendChange, TypeOK
  <2>2. flooded' \in BOOLEAN
    BY <1>3 DEF WalkEnds, SendChange, TypeOK, Floods
  <2> QED  BY <1>3, <2>1, <2>2 DEF WalkEnds, TypeOK
<1> QED  BY <1>1, <1>2, <1>3, <1>4, <1>5 DEF Walk

LEMMA HandleTypes ==
    ASSUME TypeOK, Handle
    PROVE  TypeOK'
<1> USE DEF tree, kernel, walk, loop, history
<1>1. Dequeue
  BY DEF Handle, HandleOpen, HandleGone, HandleIgnored, HandleMade, HandleChange
<1>2. queue' \in Seq(Event) /\ Head(queue) \in Event
  BY <1>1, Taken DEF Dequeue, TypeOK
<1>3. CASE HandleOpen
  <2>1. chan' \in Seq({"listing", "change"})
    BY <1>3, SendTypes DEF HandleOpen, TypeOK
  <2> QED  BY <1>2, <1>3, <2>1 DEF HandleOpen, TypeOK
<1>4. CASE HandleGone
  BY <1>2, <1>4 DEF HandleGone, TypeOK
<1>5. CASE HandleIgnored
  BY <1>2, <1>5 DEF HandleIgnored, TypeOK
<1>6. CASE HandleMade
  <2>1. Head(queue).wd \in Watchable /\ Head(queue).name \in Names
    BY <1>2, <1>6 DEF HandleMade, Event
  <2>2. \A p \in Path : Append(p, Head(queue).name) \in Path
    BY <2>1, Appended DEF Path
  <2>3. todo' \subseteq Path
    BY <1>6, <2>1, <2>2 DEF HandleMade, TypeOK
  <2> QED  BY <1>2, <1>6, <2>3 DEF HandleMade, TypeOK
<1>7. CASE HandleChange
  <2>1. chan' \in Seq({"listing", "change"})
    BY <1>7, SendTypes DEF HandleChange, SendChange, TypeOK
  <2>2. flooded' \in BOOLEAN
    BY <1>7 DEF HandleChange, SendChange, TypeOK, Floods
  <2> QED  BY <1>2, <1>7, <2>1, <2>2 DEF HandleChange, TypeOK
<1> QED  BY <1>3, <1>4, <1>5, <1>6, <1>7 DEF Handle

LEMMA RunTypes ==
    ASSUME TypeOK, Run \/ TimerFires \/ Pass
    PROVE  TypeOK'
<1> USE DEF tree, kernel, walk, loop, history
<1>1. CASE Run
  <2>1. chan' \in Seq({"listing", "change"})
    <3>1. chan \in Seq({"listing", "change"})
      BY DEF TypeOK
    <3>2. chan # <<>> /\ chan' = Tail(chan)
      BY <1>1 DEF Run, TakeListing, TakeChange
    <3> QED  BY <3>1, <3>2, Taken
  <2>2. CASE TakeListing
    BY <2>1, <2>2 DEF TakeListing, TypeOK
  <2>3. CASE TakeChange
    BY <2>1, <2>3 DEF TakeChange, TypeOK
  <2> QED  BY <1>1, <2>2, <2>3 DEF Run
<1>2. CASE TimerFires
  BY <1>2 DEF TimerFires, TypeOK
<1>3. CASE Pass
  <2>1. queue' \in Seq(Event) /\ overflowed' \in BOOLEAN
    BY <1>3, PassReports, ReportTypes DEF Pass, TypeOK
  <2> QED  BY <1>3, <2>1 DEF Pass, TypeOK
<1> QED  BY <1>1, <1>2, <1>3

LEMMA InitTypes == Init => TypeOK
<1> SUFFICES ASSUME Init  PROVE TypeOK
  OBVIOUS
<1>1. \E n \in Names : n \notin Ignored
  BY NamesAssumption
<1>2. (CHOOSE n \in Names : n \notin Ignored) \in Names
  BY <1>1
<1>3. /\ queue \in Seq(Event) /\ chan \in Seq({"listing", "change"})
      /\ todo \subseteq Path
  BY Emptied DEF Init, Path
<1>4. 0 \in 0 .. MaxSteps
  BY RoomAssumption
<1> QED  BY <1>2, <1>3, <1>4 DEF Init, TypeOK, Place, Watchable

LEMMA TypesKept == TypeOK /\ [Next]_vars => TypeOK'
<1> SUFFICES ASSUME TypeOK, [Next]_vars  PROVE TypeOK'
  OBVIOUS
<1>1. CASE UNCHANGED vars
  BY <1>1 DEF TypeOK, vars, tree, kernel, walk, loop, history
<1> QED  BY <1>1, UserTypes, WalkTypes, HandleTypes, RunTypes DEF Next

(* The state of the watcher, and of what it is told, keeps its types.      *)
THEOREM TypesHold == Spec => []TypeOK
BY InitTypes, TypesKept, PTL DEF Spec

-----------------------------------------------------------------------------
(* 5. Reported changes.                                                    *)

(* The two ways a step of the loops disposes of a change.                  *)
LEMMA ChangeSent ==
    ASSUME TypeOK, SendChange, ~flooded'
    PROVE  timer \/ "change" \in ToSet(chan')
<1>1. CASE Len(chan) < MaxChan
  <2>1. chan' = Append(chan, "change") /\ chan \in Seq({"listing", "change"})
    BY <1>1 DEF SendChange, Send, TypeOK
  <2> QED  BY <2>1, Appended
<1>2. CASE ~(Len(chan) < MaxChan)
  <2>1. Len(chan) \in Nat /\ MaxChan \in Nat
    BY RoomAssumption DEF TypeOK
  <2>2. chan' = chan /\ ~Floods
    BY <1>2 DEF SendChange, Send
  <2> QED  BY <1>2, <2>1, <2>2 DEF Floods
<1> QED  BY <1>1, <1>2

LEMMA ChangesAfterUser ==
    ASSUME TypeOK, ChangesOnTheirWay, Users
    PROVE  ChangesOnTheirWay'
<1> USE DEF walk, loop, history
<1>1. ASSUME NEW told \in Seq(Event), Report(told),
             UNCHANGED <<wake, timer, owed, chan, flooded, unseen>>
      PROVE  ChangesOnTheirWay'
  <2>1. ToSet(queue) \subseteq ToSet(queue')
    BY <1>1, ReportGrows DEF TypeOK
  <2> QED  BY <1>1, <2>1 DEF ChangesOnTheirWay
<1>2. ASSUME NEW d \in Dirs, NEW n \in Names, NEW p \in Watchable \cup {Outside},
             Mkdir(d, p, n)
      PROVE  ChangesOnTheirWay'
  <2>1. Told(Ev(p, "made", n)) \in Seq(Event)
    BY ToldEvent
  <2> QED  BY <1>1, <1>2, <2>1 DEF Mkdir
<1>3. ASSUME NEW d \in Dirs, NEW n \in Names, NEW p \in Watchable \cup {Outside},
             Rename(d, p, n)
      PROVE  ChangesOnTheirWay'
  <2>1. /\ Told(Ev(parent[d], "change", name[d])) \in Seq(Event)
        /\ Told(Ev(p, "made", n)) \in Seq(Event)
        /\ Told(Ev(d, "gone", None)) \in Seq(Event)
    BY ToldEvent DEF TypeOK
  <2> QED  BY <1>1, <1>3, <2>1, Joined DEF Rename
<1>4. ASSUME NEW d \in Dirs, Rmdir(d)
      PROVE  ChangesOnTheirWay'
  <2>1. /\ Told(Ev(parent[d], "change", name[d])) \in Seq(Event)
        /\ Told(Ev(d, "gone", None)) \in Seq(Event)
    BY ToldEvent DEF TypeOK
  <2> QED  BY <1>1, <1>4, <2>1, Joined DEF Rmdir
<1>5. ASSUME NEW d \in Watchable, List(d)
      PROVE  ChangesOnTheirWay'
  BY <1>1, <1>5, ToldEvent DEF List
<1>6. ASSUME NEW d \in Watchable, Write(d)
      PROVE  ChangesOnTheirWay'
  <2> DEFINE e == Ev(d, "change", None)
  <2>1. /\ Told(e) \in Seq(Event)
        /\ ToSet(Told(e)) = IF d \in watched THEN {e} ELSE {}
    BY ToldEvent
  <2>2. e.kind = "change" /\ e.name = None
    BY DEF Ev
  <2>3. None \notin Ignored
    BY NoneAssumption, NamesAssumption
  <2>4. Report(Told(e)) /\ unseen' = (unseen \/ d \in watched)
        /\ UNCHANGED <<wake, timer, owed, chan, flooded>>
    BY <1>6 DEF Write
  <2> HIDE DEF e
  <2>5. /\ ToSet(queue) \subseteq ToSet(queue')
        /\ \/ ToSet(Told(e)) \subseteq ToSet(queue')
           \/ \E o \in ToSet(queue') : o.kind = "overflow" /\ o.name = None
    BY <2>1, <2>4, ReportGrows DEF TypeOK
  <2>6. CASE d \in watched
    BY <2>1, <2>2, <2>3, <2>5, <2>6 DEF ChangesOnTheirWay
  <2>7. CASE d \notin watched
    BY <2>4, <2>5, <2>7 DEF ChangesOnTheirWay
  <2> QED  BY <2>6, <2>7
<1> QED  BY <1>2, <1>3, <1>4, <1>5, <1>6 DEF Users

LEMMA ChangesAfterReader ==
    ASSUME TypeOK, ChangesOnTheirWay, Walk \/ Handle
    PROVE  ChangesOnTheirWay'
<1> USE DEF kernel, walk, loop, history
<1>1. ASSUME NEW path \in todo, WalkRead(path) \/ WalkUnread(path)
      PROVE  ChangesOnTheirWay'
  BY <1>1 DEF WalkRead, WalkUnread, ChangesOnTheirWay
<1>2. CASE WalkAdd \/ WalkAddFails
  BY <1>2 DEF WalkAdd, WalkAddFails, ChangesOnTheirWay
<1>3. CASE WalkEnds
  BY <1>3, ChangeSent DEF WalkEnds, ChangesOnTheirWay
<1>4. ASSUME Handle  PROVE ChangesOnTheirWay'
  <2>1. Dequeue
    BY <1>4 DEF Handle, HandleOpen, HandleGone, HandleIgnored, HandleMade,
                HandleChange
  <2>2. ToSet(queue) = {Head(queue)} \cup ToSet(queue')
    BY <2>1, Taken DEF Dequeue, TypeOK
  <2>3. CASE HandleOpen
    <3>1. "change" \in ToSet(chan) => "change" \in ToSet(chan')
      <4>1. chan' = chan \/ chan' = Append(chan, "listing")
        BY <2>3 DEF HandleOpen, Send
      <4>2. ToSet(Append(chan, "listing")) = ToSet(chan) \cup {"listing"}
        <5>1. chan \in Seq({"listing", "change"})
          BY DEF TypeOK
        <5> QED  BY <5>1, Appended
      <4> QED  BY <4>1, <4>2
    <3> QED  BY <2>2, <2>3, <3>1 DEF HandleOpen, ChangesOnTheirWay
  <2>4. CASE HandleGone
    BY <2>2, <2>4 DEF HandleGone, ChangesOnTheirWay
  <2>5. CASE HandleIgnored
    BY <2>2, <2>5 DEF HandleIgnored, ChangesOnTheirWay
  <2>6. CASE HandleMade
    BY <2>6 DEF HandleMade, ChangesOnTheirWay
  <2>7. CASE HandleChange
    BY <2>7, ChangeSent DEF HandleChange, ChangesOnTheirWay
  <2> QED  BY <1>4, <2>3, <2>4, <2>5, <2>6, <2>7 DEF Handle
<1> QED  BY <1>1, <1>2, <1>3, <1>4 DEF Walk

LEMMA ChangesAfterRun ==
    ASSUME TypeOK, ChangesOnTheirWay, Run \/ TimerFires \/ Pass
    PROVE  ChangesOnTheirWay'
<1> USE DEF kernel, walk, loop, history
<1>1. CASE TakeListing
  <2>1. ToSet(chan) = {"listing"} \cup ToSet(chan')
    BY <1>1, Taken DEF TakeListing, TypeOK
  <2>2. wake => wake'
    BY <1>1 DEF TakeListing, TypeOK
  <2> QED  BY <1>1, <2>1, <2>2 DEF TakeListing, ChangesOnTheirWay
<1>2. CASE TakeChange \/ TimerFires \/ Pass
  BY <1>2 DEF TakeChange, TimerFires, Pass, ChangesOnTheirWay
<1> QED  BY <1>1, <1>2 DEF Run

(* A change that a watch reported is never lost on its way to a pass, for  *)
(* a channel and a queue of any size: it, an overflow, the timer or the    *)
(* trigger remains, unless it found the channel full of listings.          *)
THEOREM ChangesArrive == Spec => []ChangesOnTheirWay
<1>1. Init => ChangesOnTheirWay
  BY DEF Init, ChangesOnTheirWay
<1>2. TypeOK /\ ChangesOnTheirWay /\ [Next]_vars => ChangesOnTheirWay'
  <2> SUFFICES ASSUME TypeOK, ChangesOnTheirWay, [Next]_vars
               PROVE  ChangesOnTheirWay'
    OBVIOUS
  <2>1. CASE UNCHANGED vars
    BY <2>1 DEF vars, kernel, walk, loop, history, ChangesOnTheirWay
  <2> QED  BY <2>1, ChangesAfterUser, ChangesAfterReader, ChangesAfterRun
      DEF Next
<1> QED  BY <1>1, <1>2, TypesHold, PTL DEF Spec

-----------------------------------------------------------------------------
(* 6. Blind spots.                                                         *)

(* In the tree is whatever is at or above a directory of the tree, and     *)
(* whatever a path leads to.                                               *)
LEMMA UpInTree ==
    ASSUME NEW par, NEW x \in Watchable, Root \in UpFrom(par, x),
           NEW y \in UpFrom(par, x)
    PROVE  /\ Root \in UpFrom(par, y)
           /\ y \in Dirs => par[y] \in Watchable
<1> DEFINE S == {z \in Watchable : Root \in UpFrom(par, z)}
<1>1. \A z \in S \cap Dirs : par[z] \in Watchable /\ par[z] \in S
  BY UpParent, Disjoint
<1>2. S \in SUBSET Watchable /\ x \in S
  OBVIOUS
<1>3. UpFrom(par, x) \subseteq S
  <2> HIDE DEF S
  <2> QED  BY <1>1, <1>2, UpLeast
<1>4. y \in S
  BY <1>3
<1> QED  BY <1>1, <1>4

LEMMA ReachedInTree ==
    ASSUME NEW par, NEW nam, NEW p \in Seq(Names), NEW x \in Reached(par, nam, p)
    PROVE  Root \in UpFrom(par, x)
<1>1. PICK down : Chain(par, nam, p, x, down)
  BY DEF Reached
<1>2. 0 \in 0 .. Len(p) /\ x \in Watchable
  BY DEF Reached
<1>3. down[0] \in UpFrom(par, x)
  BY <1>1, <1>2, ChainAbove
<1> QED  BY <1>1, <1>3 DEF Chain

(* A step that moves, makes or removes one directory, and what it leaves.  *)
LEMMA FarFromStep ==
    ASSUME NEW d,
           \A y \in Dirs \ {d} : parent'[y] = parent[y] /\ name'[y] = name[y],
           NEW x \in Watchable, d \notin Above(x) \/ d \notin Above(x)'
    PROVE  /\ Above(x)' = Above(x) /\ d \notin Above(x)
           /\ \A u \in Above(x) : \A p \in Path : u \in At(p)' <=> u \in At(p)
<1>1. \A y \in Dirs \ {d} : parent[y] = parent'[y] /\ name[y] = name'[y]
  OBVIOUS
<1>2. CASE d \notin UpFrom(parent, x)
  BY <1>2, Elsewhere, AboveIsUp, AtIsReached DEF Path
<1>3. CASE d \notin UpFrom(parent', x)
  BY <1>1, <1>3, Elsewhere, AboveIsUp, AtIsReached DEF Path
<1> QED  BY <1>2, <1>3, AboveIsUp

LEMMA StillTree ==
    ASSUME UNCHANGED tree
    PROVE  /\ \A x : /\ Above(x)' = Above(x) /\ InTree(x)' = InTree(x)
                     /\ NamedIgnored(x)' = NamedIgnored(x)
                     /\ Children(x)' = Children(x)
           /\ \A p : At(p)' = At(p)
BY DEF tree, Above, InTree, NamedIgnored, At, Descent, Children

LEMMA OnePlace ==
    ASSUME NoTwins, NEW p \in Path, NEW x \in At(p), NEW y \in At(p)
    PROVE  x = y
BY ReachedOnce, AtIsReached DEF NoTwins, Path

LEMMA OnePlaceNext ==
    ASSUME NoTwins', NEW p \in Path, NEW x \in At(p)', NEW y \in At(p)'
    PROVE  x = y
BY ReachedOnce, AtIsReached DEF NoTwins, Path

LEMMA AtInside == \A p : At(p) \subseteq Watchable
BY DEF At

LEMMA AboveInside == \A x : Above(x) \subseteq Watchable
BY DEF Above

(* What a user does to one directory: nothing else moves, only that one    *)
(* may lose its watch, and what was queued stays queued.  Where it goes,   *)
(* if that is watched, the kernel says so.                                 *)
UserMoves(d, q) ==
    /\ parent'[d] = q
    /\ \A y \in Dirs \ {d} : parent'[y] = parent[y] /\ name'[y] = name[y]
    /\ UNCHANGED <<paths, todo, reading, raced, refused>>
    /\ watched' \subseteq watched /\ watched \subseteq watched' \cup {d}
    /\ ToSet(queue) \subseteq ToSet(queue')
    /\ overflowed => overflowed'
    /\ q \in Watchable => InTree(q) /\ d \notin Above(q)
    /\ q \in watched' /\ ~overflowed' => Queued(d)'

(* It leaves alone why a directory that it is not above will be seen.      *)
LEMMA ReasonsStay ==
    ASSUME TypeOK, TypeOK', NEW d \in Dirs, NEW q \in Place,
           UserMoves(d, q), NEW u \in Watchable, d \notin Above(u)
    PROVE  /\ Queued(u) => Queued(u)'
           /\ ToVisit(u) => ToVisit(u)'
           /\ Visiting(u) => Visiting(u)'
           /\ u \in Dirs /\ u \in raced => (u \in Dirs /\ u \in raced)'
           /\ u \in Dirs /\ Lost(parent[u]) =>
                 /\ (u \in Dirs /\ Lost(parent[u]))' /\ parent'[u] = parent[u]
                 /\ parent[u] \in Above(u)
           /\ u \in refused => u \in refused'
           /\ Excused(u) => Excused(u)'
<1>1. u # d
  BY UpSelf, AboveIsUp
<1>2. \A v \in Above(u) :
         v \in Watchable /\ \A p \in Path : v \in At(p)' <=> v \in At(p)
  BY FarFromStep, AboveInside DEF UserMoves
<1>3. u \in Above(u)
  BY UpSelf, AboveIsUp
<1>4. u \in Dirs => parent'[u] = parent[u] /\ name'[u] = name[u]
  BY <1>1 DEF UserMoves
<1>5. u \in Dirs /\ parent[u] \in watched =>
         parent[u] \in watched' /\ parent[u] \in Above(u)
  <2> SUFFICES ASSUME u \in Dirs, parent[u] \in watched
               PROVE  parent[u] \in watched' /\ parent[u] \in Above(u)
    OBVIOUS
  <2>1. parent[u] \in Watchable
    BY DEF TypeOK
  <2>2. parent[u] \in Above(u)
    BY <1>3, <2>1, UpClosed, AboveIsUp
  <2> QED  BY <2>2 DEF UserMoves
<1>6. Queued(u) => Queued(u)'
  BY <1>4, <1>5 DEF Queued, UserMoves, Ev
<1>7. ToVisit(u) => ToVisit(u)'
  BY <1>2, <1>3 DEF ToVisit, UserMoves, TypeOK
<1>8. Visiting(u) => Visiting(u)'
  BY <1>2, <1>3 DEF Visiting, UserMoves, TypeOK, Read
<1>9. u \in Dirs /\ Lost(parent[u]) =>
         (u \in Dirs /\ Lost(parent[u]))' /\ parent'[u] = parent[u]
         /\ parent[u] \in Above(u)
  <2> SUFFICES ASSUME u \in Dirs, Lost(parent[u])
               PROVE  /\ Lost(parent[u])' /\ parent'[u] = parent[u]
                      /\ parent[u] \in Above(u)
    OBVIOUS
  <2>1. parent[u] \in watched' /\ parent[u] \in Above(u) /\ parent'[u] = parent[u]
    BY <1>4, <1>5 DEF Lost
  <2>2. paths'[parent[u]] = paths[parent[u]]
        /\ paths[parent[u]] \in Path \cup {None}
    BY <1>2, <2>1 DEF UserMoves, TypeOK
  <2> QED  BY <1>2, <2>1, <2>2 DEF Lost
<1>10. /\ u \in Dirs /\ u \in raced => (u \in Dirs /\ u \in raced)'
       /\ u \in refused => u \in refused'
  BY DEF UserMoves
<1> QED  BY <1>6, <1>7, <1>8, <1>9, <1>10 DEF Excused, BlindSpot

(* Where the directory went, or above that, there is a reason to be seen.  *)
LEMMA SeenBelow ==
    ASSUME TypeOK, TypeOK', Sighted, ~overflowed',
           NEW d \in Dirs, NEW q \in Place, UserMoves(d, q),
           NEW x \in Watchable, InTree(x)', ~NamedIgnored(x)', d \in Above(x)'
    PROVE  \/ Queued(d)'
           \/ /\ q \in Watchable \ watched' /\ d \notin Above(q)
              /\ Above(q)' = Above(q)
              /\ \E u \in Above(q) :
                    /\ u \in Above(x)'
                    /\ Queued(u) \/ ToVisit(u) \/ Visiting(u) \/ Excused(u)
<1>1. q \in Watchable /\ q \in Above(x)'
  <2>1. parent'[d] \in Watchable
    BY UpInTree, AboveIsUp DEF InTree
  <2> QED  BY <2>1, UpClosed, AboveIsUp DEF UserMoves
<1>2. CASE q \in watched'
  BY <1>2 DEF UserMoves
<1>3. CASE q \notin watched'
  <2>1. InTree(q) /\ d \notin Above(q)
    BY <1>1 DEF UserMoves
  <2>2. Above(q)' = Above(q)
    BY <1>1, <2>1, FarFromStep DEF UserMoves
  <2>3. Above(q) \subseteq Above(x)'
    BY <1>1, <2>2, UpTransitive, AboveIsUp
  <2>4. q # d /\ q \notin watched
    <3>1. q \in Above(q)
      BY <1>1, UpSelf, AboveIsUp
    <3> QED  BY <1>3, <2>1, <3>1 DEF UserMoves
  <2>5. ~NamedIgnored(q)
    BY <2>1, <2>3 DEF NamedIgnored, UserMoves
  <2>6. ~overflowed
    BY DEF UserMoves
  <2>7. \E u \in Above(q) : Queued(u) \/ ToVisit(u) \/ Visiting(u) \/ Excused(u)
    BY <1>1, <2>1, <2>4, <2>5, <2>6 DEF Sighted
  <2> QED  BY <1>1, <1>3, <2>1, <2>2, <2>3, <2>7
<1> QED  BY <1>2, <1>3

LEMMA SightedAfterUser ==
    ASSUME TypeOK, TypeOK', Sighted,
           NEW d \in Dirs, NEW q \in Place, UserMoves(d, q)
    PROVE  Sighted'
<1> SUFFICES ASSUME ~overflowed', NEW x \in Watchable,
                    InTree(x)', x \notin watched', ~NamedIgnored(x)'
             PROVE  \E u \in Above(x)' :
                       Queued(u)' \/ ToVisit(u)' \/ Visiting(u)' \/ Excused(u)'
  BY DEF Sighted
<1>1. CASE d \in Above(x)'
  <2>1. CASE Queued(d)'
    BY <1>1, <2>1
  <2>2. CASE ~Queued(d)'
    <3>1. /\ q \in Watchable /\ d \notin Above(q)
          /\ \E u \in Above(q) :
                /\ u \in Above(x)'
                /\ Queued(u) \/ ToVisit(u) \/ Visiting(u) \/ Excused(u)
      BY <1>1, <2>2, SeenBelow
    <3> PICK u \in Above(q) :
           /\ u \in Above(x)'
           /\ Queued(u) \/ ToVisit(u) \/ Visiting(u) \/ Excused(u)
      BY <3>1
    <3>2. u \in Watchable /\ d \notin Above(u)
      BY <3>1, AboveInside, UpTransitive, AboveIsUp
    <3> QED  BY <3>1, <3>2, ReasonsStay
  <2> QED  BY <2>1, <2>2
<1>2. CASE d \notin Above(x)'
  <2>1. Above(x)' = Above(x) /\ d \notin Above(x)
    BY <1>2, FarFromStep DEF UserMoves
  <2>2. x # d /\ x \notin watched /\ ~overflowed
    <3>1. x \in Above(x)
      BY UpSelf, AboveIsUp
    <3> QED  BY <2>1, <3>1 DEF UserMoves
  <2>3. InTree(x) /\ ~NamedIgnored(x)
    BY <2>1 DEF InTree, NamedIgnored, UserMoves
  <2>4. PICK u \in Above(x) : Queued(u) \/ ToVisit(u) \/ Visiting(u) \/ Excused(u)
    BY <2>2, <2>3 DEF Sighted
  <2>5. u \in Watchable /\ d \notin Above(u)
    BY <2>1, AboveInside, UpTransitive, AboveIsUp
  <2> QED  BY <2>1, <2>4, <2>5, ReasonsStay
<1> QED  BY <1>1, <1>2

LEMMA ReadBehindAfterUser ==
    ASSUME TypeOK, TypeOK', Sighted, ReadBehind, NoTwins',
           NEW d \in Dirs, NEW q \in Place, UserMoves(d, q)
    PROVE  ReadBehind'
<1> SUFFICES ASSUME ~overflowed', reading' # None, NEW x \in Dirs,
                    (parent[x] \in At(reading.path) \cap watched)',
                    (name[x] \notin reading.names)', ~NamedIgnored(x)'
             PROVE  \E u \in Above(x)' :
                       \/ Queued(u)' \/ ToVisit(u)'
                       \/ (u \in Dirs /\ u \in raced)'
                       \/ /\ (u \in Dirs /\ Lost(parent[u]))'
                          /\ (parent[u] \notin At(reading.path))'
                       \/ (u \in refused /\ u \notin At(reading.path))'
  BY DEF ReadBehind, UserMoves
<1>1. PICK r : r = reading.path /\ reading' = reading
  BY DEF UserMoves
<1>2. r \in Path /\ reading # None
  BY <1>1 DEF TypeOK, Read
<1>3. PICK y \in Watchable : y = parent'[x] /\ y \in At(r)' /\ y \in watched'
  BY <1>1 DEF TypeOK
<1>4. x \in Watchable /\ x \in Above(x)' /\ y \in Above(x)'
  BY <1>3, UpSelf, UpClosed, AboveIsUp DEF Watchable
<1>5. CASE d \in Above(x)'
  <2>1. InTree(x)'
    <3>1. Root \in Above(y)'
      BY <1>2, <1>3, ReachedInTree, AtIsReached, AboveIsUp DEF Path
    <3> QED  BY <1>4, <3>1, UpTransitive, AboveIsUp DEF InTree
  <2>2. CASE Queued(d)'
    BY <1>5, <2>2
  <2>3. CASE ~Queued(d)'
    <3>1. /\ q \in Watchable \ watched' /\ d \notin Above(q)
          /\ Above(q)' = Above(q)
          /\ \E u \in Above(q) :
                /\ u \in Above(x)'
                /\ Queued(u) \/ ToVisit(u) \/ Visiting(u) \/ Excused(u)
      BY <1>4, <1>5, <2>1, <2>3, SeenBelow
    <3>2. PICK u \in Above(q) :
             /\ u \in Above(x)'
             /\ Queued(u) \/ ToVisit(u) \/ Visiting(u) \/ Excused(u)
      BY <3>1
    <3>3. u \in Watchable /\ d \notin Above(u)
      BY <3>1, <3>2, AboveInside, UpTransitive, AboveIsUp
    (* The directory that is read is below the one that moved.             *)
    <3>4. y \notin Above(q)
      <4>1. CASE d = x
        <5>1. y = q
          BY <1>3, <4>1 DEF UserMoves
        <5> QED  BY <1>3, <3>1, <5>1
      <4>2. CASE d # x
        <5>1. d \in Above(y)'
          BY <1>3, <1>5, <4>2, UpParent, AboveIsUp
        <5> QED  BY <3>1, <5>1, UpTransitive, AboveIsUp
      <4> QED  BY <4>1, <4>2
    <3>5. \A v \in Above(q) : v \notin At(r)'
      BY <1>2, <1>3, <3>4, OnePlaceNext
    <3>6. ~Visiting(u)
      <4>1. Visiting(u) => Visiting(u)'
        BY <3>3, ReasonsStay
      <4> QED  BY <1>1, <3>2, <3>5, <4>1 DEF Visiting
    <3>7. u \in Dirs /\ Lost(parent[u]) =>
             /\ (u \in Dirs /\ Lost(parent[u]))'
             /\ parent'[u] \notin At(r)'
      <4>1. u \in Dirs /\ Lost(parent[u]) =>
               /\ (u \in Dirs /\ Lost(parent[u]))' /\ parent'[u] = parent[u]
               /\ parent[u] \in Above(u)
        BY <3>3, ReasonsStay
      <4>2. Above(u) \subseteq Above(q)
        BY <3>2, UpTransitive, AboveIsUp
      <4> QED  BY <3>5, <4>1, <4>2
    <3>8. \/ Queued(u)' \/ ToVisit(u)' \/ (u \in Dirs /\ u \in raced)'
          \/ u \in Dirs /\ Lost(parent[u])
          \/ u \in refused' /\ u \notin At(r)'
      BY <3>2, <3>3, <3>5, <3>6, ReasonsStay DEF Excused, BlindSpot
    <3> QED  BY <1>1, <3>2, <3>7, <3>8
  <2> QED  BY <2>2, <2>3
<1>6. CASE d \notin Above(x)'
  <2>1. /\ Above(x)' = Above(x) /\ d \notin Above(x)
        /\ \A u \in Above(x) : \A p \in Path : u \in At(p)' <=> u \in At(p)
    BY <1>4, <1>6, FarFromStep DEF UserMoves
  <2>2. x # d /\ y = parent[x] /\ name'[x] = name[x]
    BY <1>3, <1>4, <2>1 DEF UserMoves
  <2>3. y \in At(r) /\ y \in watched /\ ~overflowed
    BY <1>2, <1>3, <1>4, <2>1 DEF UserMoves
  <2>4. ~NamedIgnored(x)
    BY <2>1 DEF NamedIgnored, UserMoves
  <2>5. PICK u \in Above(x) :
           \/ Queued(u) \/ ToVisit(u)
           \/ u \in Dirs /\ u \in raced
           \/ u \in Dirs /\ Lost(parent[u]) /\ parent[u] \notin At(r)
           \/ u \in refused /\ u \notin At(r)
    BY <1>1, <1>2, <2>2, <2>3, <2>4 DEF ReadBehind
  <2>6. u \in Watchable /\ d \notin Above(u)
    BY <2>1, AboveInside, UpTransitive, AboveIsUp
  <2>7. u \in Dirs /\ Lost(parent[u]) =>
           /\ (u \in Dirs /\ Lost(parent[u]))' /\ parent'[u] = parent[u]
           /\ parent[u] \in Above(x)
    <3>1. Above(u) \subseteq Above(x)
      BY UpTransitive, AboveIsUp
    <3> QED  BY <2>6, <3>1, ReasonsStay
  <2>8. u \in Dirs /\ Lost(parent[u]) /\ parent[u] \notin At(r) =>
           parent'[u] \notin At(r)'
    BY <1>2, <2>1, <2>7
  <2>9. u \in refused /\ u \notin At(r) => u \in refused' /\ u \notin At(r)'
    BY <1>2, <2>1, <2>6, ReasonsStay
  <2> QED  BY <1>1, <2>1, <2>5, <2>6, <2>7, <2>8, <2>9, ReasonsStay
<1> QED  BY <1>5, <1>6

(* What a report leaves in the queue, and what it adds there.              *)
LEMMA ReportedEvent ==
    ASSUME TypeOK, NEW told \in Seq(Event), Report(told)
    PROVE  /\ ToSet(queue) \subseteq ToSet(queue')
           /\ overflowed => overflowed'
           /\ \A e \in ToSet(told) : ~overflowed' => e \in ToSet(queue')
BY ReportGrows DEF TypeOK

LEMMA MkdirBlind ==
    ASSUME TypeOK, TypeOK', BlindInv,
           NEW d \in Dirs, NEW n \in Names, NEW p \in Watchable \cup {Outside},
           Mkdir(d, p, n)
    PROVE  BlindInv'
<1> DEFINE e == Ev(p, "made", n)
<1>1. Told(e) \in Seq(Event) /\ ToSet(Told(e)) = IF p \in watched THEN {e} ELSE {}
  BY ToldEvent
<1>2. /\ ToSet(queue) \subseteq ToSet(queue') /\ (overflowed => overflowed')
      /\ p \in watched /\ ~overflowed' => e \in ToSet(queue')
  <2> HIDE DEF e
  <2>1. Report(Told(e))
    BY DEF Mkdir, e
  <2> QED  BY <1>1, <2>1, ReportedEvent
<1>3. /\ parent'[d] = p /\ name'[d] = n /\ parent[d] = Nowhere
      /\ \A y \in Dirs \ {d} : parent'[y] = parent[y] /\ name'[y] = name[y]
      /\ watched' = watched
  BY DEF Mkdir, TypeOK
<1>4. p \in Watchable => InTree(p) /\ d \notin Above(p)
  <2> SUFFICES ASSUME p \in Watchable  PROVE InTree(p) /\ d \notin Above(p)
    OBVIOUS
  <2>1. InTree(p)
    BY Disjoint DEF Mkdir
  <2>2. d \in Above(p) => parent[d] \in Watchable
    BY <2>1, UpInTree, AboveIsUp DEF InTree
  <2> QED  BY <1>3, <2>1, <2>2, Disjoint
<1>5. UserMoves(d, p)
  BY <1>2, <1>3, <1>4 DEF UserMoves, Mkdir, walk, Queued
<1>6. Placed'
  <2>1. p \in Dirs => p # d /\ parent[p] \in Watchable
    <3> SUFFICES ASSUME p \in Dirs  PROVE p # d /\ parent[p] \in Watchable
      OBVIOUS
    <3>1. p \in Watchable /\ p \in Above(p)
      BY UpSelf, AboveIsUp DEF Watchable
    <3>2. parent[p] \in Watchable
      BY <1>4, <3>1, UpInTree, AboveIsUp DEF InTree
    <3> QED  BY <1>3, <3>2, Disjoint
  <2>2. p \notin {Nowhere, Removed}
    BY Disjoint
  <2> QED  BY <1>3, <2>1, <2>2, Disjoint DEF BlindInv, Placed
<1>7. NoTwins'
  <2>1. \A y \in Dirs : parent[y] = p => name[y] # n
    BY DEF Mkdir, Free, Children
  <2> QED  BY <1>3, <2>1 DEF BlindInv, NoTwins
<1>8. p \in Place
  BY DEF Place
<1> QED  BY <1>5, <1>6, <1>7, <1>8, SightedAfterUser, ReadBehindAfterUser
    DEF BlindInv

LEMMA RenameBlind ==
    ASSUME TypeOK, TypeOK', BlindInv,
           NEW d \in Dirs, NEW n \in Names, NEW p \in Watchable \cup {Outside},
           Rename(d, p, n)
    PROVE  BlindInv'
<1> DEFINE e1 == Ev(parent[d], "change", name[d])
           e2 == Ev(p, "made", n)
           e3 == Ev(d, "gone", None)
<1>1. /\ Told(e1) \in Seq(Event) /\ Told(e2) \in Seq(Event)
      /\ Told(e3) \in Seq(Event)
      /\ ToSet(Told(e2)) = IF p \in watched THEN {e2} ELSE {}
  BY ToldEvent DEF TypeOK
<1>2. /\ ToSet(queue) \subseteq ToSet(queue') /\ (overflowed => overflowed')
      /\ p \in watched /\ ~overflowed' => e2 \in ToSet(queue')
  <2>1. Report(Told(e1) \o Told(e2) \o Told(e3))
    BY DEF Rename
  <2> HIDE DEF e1, e2, e3
  <2>2. /\ Told(e1) \o Told(e2) \o Told(e3) \in Seq(Event)
        /\ ToSet(Told(e2)) \subseteq ToSet(Told(e1) \o Told(e2) \o Told(e3))
    <3> DEFINE t == Told(e1) \o Told(e2)
    <3>1. t \in Seq(Event) /\ ToSet(t) = ToSet(Told(e1)) \cup ToSet(Told(e2))
      BY <1>1, Joined
    <3> HIDE DEF t
    <3>2. /\ t \o Told(e3) \in Seq(Event)
          /\ ToSet(t \o Told(e3)) = ToSet(t) \cup ToSet(Told(e3))
      BY <1>1, <3>1, Joined
    <3> QED  BY <3>1, <3>2 DEF t
  <2> QED  BY <1>1, <2>1, <2>2, ReportedEvent
<1>3. /\ parent'[d] = p /\ name'[d] = n
      /\ \A y \in Dirs \ {d} : parent'[y] = parent[y] /\ name'[y] = name[y]
      /\ watched' = watched
  BY DEF Rename, TypeOK
<1>4. p \in Watchable => InTree(p) /\ d \notin Above(p)
  BY Disjoint DEF Rename
<1>5. UserMoves(d, p)
  BY <1>2, <1>3, <1>4 DEF UserMoves, Rename, walk, Queued
<1>6. Placed'
  <2>1. p \in Dirs => p # d /\ parent[p] \in Watchable
    <3> SUFFICES ASSUME p \in Dirs  PROVE p # d /\ parent[p] \in Watchable
      OBVIOUS
    <3>1. p \in Watchable /\ p \in Above(p)
      BY UpSelf, AboveIsUp DEF Watchable
    <3> QED  BY <1>4, <3>1, UpInTree, AboveIsUp DEF InTree
  <2>2. p \notin {Nowhere, Removed}
    BY Disjoint
  <2> QED  BY <1>3, <2>1, <2>2, Disjoint DEF BlindInv, Placed
<1>7. NoTwins'
  <2>1. \A y \in Dirs : parent[y] = p => name[y] # n
    BY DEF Rename, Free, Children
  <2> QED  BY <1>3, <2>1 DEF BlindInv, NoTwins
<1>8. p \in Place
  BY DEF Place
<1> QED  BY <1>5, <1>6, <1>7, <1>8, SightedAfterUser, ReadBehindAfterUser
    DEF BlindInv

LEMMA RmdirBlind ==
    ASSUME TypeOK, TypeOK', BlindInv, NEW d \in Dirs, Rmdir(d)
    PROVE  BlindInv'
<1>1. ToSet(queue) \subseteq ToSet(queue') /\ (overflowed => overflowed')
  <2> DEFINE told == Told(Ev(d, "gone", None))
                        \o Told(Ev(parent[d], "change", name[d]))
  <2>1. told \in Seq(Event)
    BY ToldEvent, Joined DEF TypeOK
  <2>2. Report(told)
    BY DEF Rmdir
  <2> HIDE DEF told
  <2> QED  BY <2>1, <2>2, ReportedEvent
<1>2. /\ parent'[d] = Removed /\ name' = name
      /\ \A y \in Dirs \ {d} : parent'[y] = parent[y]
      /\ \A y \in Dirs : parent[y] # d
      /\ watched' = watched \ {d}
  BY DEF Rmdir, TypeOK, Children
<1>3. UserMoves(d, Removed)
  BY <1>1, <1>2, Disjoint DEF UserMoves, Rmdir, walk, TypeOK
<1>4. Placed'
  BY <1>2, Disjoint DEF BlindInv, Placed, Watchable
<1>5. NoTwins'
  BY <1>2, Disjoint DEF BlindInv, NoTwins
<1>6. Removed \in Place
  BY DEF Place
<1> QED  BY <1>3, <1>4, <1>5, <1>6, SightedAfterUser, ReadBehindAfterUser
    DEF BlindInv

(* The steps that change no directory and nothing of addTree: they only    *)
(* queue more.                                                             *)
LEMMA StillBlind ==
    ASSUME BlindInv, UNCHANGED <<tree, watched, paths, todo, reading, raced,
                                  refused>>,
           overflowed => overflowed',
           ToSet(queue) \subseteq ToSet(queue')
    PROVE  BlindInv'
<1> USE StillTree
<1>1. Placed' /\ NoTwins'
  BY DEF BlindInv, Placed, NoTwins, tree
<1>2. \A u : /\ Queued(u) => Queued(u)'
             /\ ToVisit(u) => ToVisit(u)'
             /\ Visiting(u) => Visiting(u)'
             /\ Lost(u) => Lost(u)'
  BY DEF Queued, ToVisit, Visiting, Lost, tree
<1>3. \A u : Excused(u) => Excused(u)'
  BY <1>2 DEF Excused, BlindSpot, tree
<1>4. Sighted'
  BY <1>2, <1>3 DEF BlindInv, Sighted
<1>5. ReadBehind'
  BY <1>2 DEF BlindInv, ReadBehind, tree
<1> QED  BY <1>1, <1>4, <1>5 DEF BlindInv

LEMMA BlindAfterUser ==
    ASSUME TypeOK, TypeOK', BlindInv, Users
    PROVE  BlindInv'
<1>1. ASSUME NEW d \in Watchable, Write(d) \/ List(d)
      PROVE  BlindInv'
  <2>1. /\ Told(Ev(d, "change", None)) \in Seq(Event)
        /\ Told(Ev(d, "open", None)) \in Seq(Event)
    BY ToldEvent
  <2>2. ToSet(queue) \subseteq ToSet(queue') /\ (overflowed => overflowed')
    BY <1>1, <2>1, ReportedEvent DEF Write, List
  <2> QED  BY <1>1, <2>2, StillBlind DEF Write, List, walk
<1> QED  BY <1>1, MkdirBlind, RenameBlind, RmdirBlind DEF Users

LEMMA BlindAfterRun ==
    ASSUME TypeOK, BlindInv, Run \/ TimerFires \/ Pass
    PROVE  BlindInv'
<1>1. CASE Run \/ TimerFires
  <2>1. UNCHANGED <<tree, kernel, paths, walk>>
    BY <1>1 DEF Run, TakeListing, TakeChange, TimerFires
  <2> QED  BY <2>1, StillBlind DEF kernel, walk
<1>2. CASE Pass
  <2>1. ToSet(queue) \subseteq ToSet(queue') /\ (overflowed => overflowed')
    BY <1>2, PassReports, ReportedEvent DEF Pass
  <2> QED  BY <1>2, <2>1, StillBlind DEF Pass, walk
<1> QED  BY <1>1, <1>2

(* addTree reads a directory: the visit is under way, and it knows every   *)
(* name there.                                                             *)
LEMMA BlindAfterWalkRead ==
    ASSUME TypeOK, BlindInv, NEW path \in todo, WalkRead(path)
    PROVE  BlindInv'
<1> USE StillTree
<1>1. UNCHANGED tree /\ UNCHANGED <<watched, queue, overflowed, paths, raced,
                                    refused>>
  BY DEF WalkRead, kernel
<1>2. Placed' /\ NoTwins'
  BY <1>1 DEF BlindInv, Placed, NoTwins, tree
<1>3. path \in Path
  BY DEF TypeOK
<1>4. At(path) # {} =>
         /\ reading' # None /\ reading'.path = path
         /\ \A c \in Dirs : parent[c] \in At(path) => name[c] \in reading'.names
  <2> SUFFICES ASSUME At(path) # {}
               PROVE  /\ reading' # None /\ reading'.path = path
                      /\ \A c \in Dirs :
                            parent[c] \in At(path) => name[c] \in reading'.names
    OBVIOUS
  <2> DEFINE names == {name[c] : c \in UNION {Children(d) : d \in At(path)}}
  <2>1. reading' = [path |-> path, names |-> names]
    BY DEF WalkRead
  <2>2. names \subseteq Names
    BY DEF TypeOK, Children
  <2>3. \A c \in Dirs : parent[c] \in At(path) => name[c] \in names
    BY DEF Children
  <2> HIDE DEF names
  <2>4. [path |-> path, names |-> names] \in Read
    BY <1>3, <2>2 DEF Read
  <2> QED  BY <2>1, <2>3, <2>4, NoneAssumption
<1>5. \A u : ToVisit(u) => ToVisit(u)' \/ Visiting(u)'
  BY <1>1, <1>4 DEF ToVisit, Visiting, WalkRead
<1>6. \A u : ~Visiting(u)
  BY DEF Visiting, WalkRead
<1>7. \A u : /\ Queued(u) => Queued(u)'
             /\ Excused(u) => Excused(u)'
  BY <1>1 DEF Queued, Excused, BlindSpot, Lost, tree
<1>8. Sighted'
  BY <1>1, <1>5, <1>6, <1>7 DEF BlindInv, Sighted
<1>9. ReadBehind'
  <2>1. reading' # None => At(path) # {}
    BY DEF WalkRead
  <2> QED  BY <1>1, <1>4, <2>1 DEF ReadBehind, tree
<1> QED  BY <1>2, <1>8, <1>9 DEF BlindInv

(* addTree watches it: what it named will be visited, and the rest raced   *)
(* with it or was reported.                                                *)
LEMMA BlindAfterWalkAdd ==
    ASSUME TypeOK, BlindInv, WalkAdd
    PROVE  BlindInv'
<1> USE StillTree
<1>1. PICK r : r = reading.path
  OBVIOUS
<1>2. /\ r \in Path /\ reading # None /\ reading' = None
      /\ UNCHANGED tree /\ UNCHANGED <<queue, overflowed>>
      /\ watched' = watched \cup At(r)
      /\ \A d \in Watchable : paths'[d] = IF d \in At(r) THEN r ELSE paths[d]
      /\ raced \subseteq raced' /\ todo \subseteq todo'
      /\ \A n \in reading.names \ Ignored : Append(r, n) \in todo'
  BY <1>1 DEF WalkAdd, TypeOK, Read
<1>r. refused' = refused \ At(r)
  BY <1>1 DEF WalkAdd
<1>3. \A c \in Dirs : parent[c] \in At(r) \ watched /\ name[c] \notin reading.names
                         => c \in raced'
  BY <1>1 DEF WalkAdd, Children
<1>4. \A c \in Dirs :
         parent[c] \in At(r) /\ name[c] \in reading.names \ Ignored => ToVisit(c)'
  <2> SUFFICES ASSUME NEW c \in Dirs, parent[c] \in At(r),
                      name[c] \in reading.names \ Ignored
               PROVE  ToVisit(c)'
    OBVIOUS
  <2>1. PICK q \in Path : q = Append(r, name[c])
    BY <1>2, Appended DEF TypeOK, Path
  <2>2. c \in At(q)
    BY <1>2, <2>1, ReachedChild, AtIsReached DEF TypeOK, Path
  <2>3. q \in todo' /\ At(q)' = At(q)
    BY <1>2, <2>1
  <2> QED  BY <2>2, <2>3 DEF ToVisit
<1>5. Placed'
  <2>1. \A d \in At(r) \cap Dirs : parent[d] \in Watchable
    BY <1>2, ReachedParent, AtIsReached DEF Path
  <2> QED  BY <1>2, <2>1, Disjoint DEF BlindInv, Placed, tree
<1>6. NoTwins'
  BY <1>2 DEF BlindInv, NoTwins, tree
<1>7. \A u : /\ Queued(u) => Queued(u)'
             /\ ToVisit(u) => ToVisit(u)'
  BY <1>2 DEF Queued, ToVisit, tree
<1>8. \A u \in Dirs : Lost(parent[u]) /\ parent[u] \notin At(r) => Lost(parent[u])'
  BY <1>2 DEF Lost, tree, TypeOK
(* A child of the directory is to be visited, raced with it, or has a      *)
(* reason of its own.                                                      *)
<1>9. ASSUME ~overflowed, NEW c \in Dirs, parent[c] \in At(r), ~NamedIgnored(c)
      PROVE  \E u \in Above(c) : Queued(u)' \/ ToVisit(u)' \/ Excused(u)'
  <2>1. c \in Above(c) /\ name[c] \notin Ignored
    BY <1>9, UpSelf, AboveIsUp DEF NamedIgnored, Watchable
  <2>2. CASE name[c] \in reading.names
    BY <1>4, <1>9, <2>1, <2>2
  <2>3. CASE name[c] \notin reading.names /\ parent[c] \notin watched
    BY <1>2, <1>3, <1>9, <2>1, <2>3 DEF Excused, BlindSpot
  <2>4. CASE name[c] \notin reading.names /\ parent[c] \in watched
    <3>1. PICK u \in Above(c) :
             \/ Queued(u) \/ ToVisit(u)
             \/ u \in Dirs /\ u \in raced
             \/ u \in Dirs /\ Lost(parent[u]) /\ parent[u] \notin At(r)
             \/ u \in refused /\ u \notin At(r)
      BY <1>1, <1>2, <1>9, <2>4 DEF BlindInv, ReadBehind
    <3>2. u \in Dirs /\ Lost(parent[u])' => Excused(u)'
      BY <1>2 DEF Excused, BlindSpot, tree
    <3>3. /\ u \in Dirs /\ u \in raced => Excused(u)'
          /\ u \in refused /\ u \notin At(r) => Excused(u)'
      BY <1>2, <1>r DEF Excused, BlindSpot
    <3> QED  BY <1>7, <1>8, <3>1, <3>2, <3>3
  <2> QED  BY <2>2, <2>3, <2>4
<1>10. Sighted'
  <2> SUFFICES ASSUME ~overflowed, NEW x \in Watchable, InTree(x), x \notin watched',
                      ~NamedIgnored(x)
               PROVE  \E u \in Above(x) :
                         Queued(u)' \/ ToVisit(u)' \/ Visiting(u)' \/ Excused(u)'
    BY <1>2 DEF Sighted
  <2>1. PICK u \in Above(x) : Queued(u) \/ ToVisit(u) \/ Visiting(u) \/ Excused(u)
    BY <1>2 DEF BlindInv, Sighted
  <2>2. ASSUME NEW c \in Above(x) \cap Dirs, parent[c] \in At(r)
        PROVE  \E v \in Above(x) : Queued(v)' \/ ToVisit(v)' \/ Excused(v)'
    <3>1. Above(c) \subseteq Above(x) /\ ~NamedIgnored(c)
      BY UpTransitive, AboveIsUp DEF NamedIgnored
    <3> QED  BY <1>9, <2>2, <3>1
  <2>3. CASE Queued(u) \/ ToVisit(u)
    BY <1>7, <2>3
  <2>4. CASE u \in At(r)
    <3>1. u # x
      BY <1>2, <2>4
    <3>2. PICK c \in Above(x) \cap Dirs : parent[c] = u
      BY <3>1, UpChild, AboveIsUp
    <3> QED  BY <2>2, <2>4, <3>2
  <2>5. CASE Excused(u) /\ u \notin At(r)
    <3>1. CASE u \in refused
      BY <1>r, <2>5, <3>1 DEF Excused, BlindSpot
    <3>2. CASE u \notin refused /\ (u \in raced \/ parent[u] \notin At(r))
      BY <1>2, <1>8, <2>5, <3>2 DEF Excused, BlindSpot, tree
    <3>3. CASE u \notin refused /\ parent[u] \in At(r)
      BY <2>2, <2>5, <3>3 DEF Excused, BlindSpot
    <3> QED  BY <3>1, <3>2, <3>3
  <2> QED  BY <1>1, <2>1, <2>3, <2>4, <2>5 DEF Visiting
<1>11. ReadBehind'
  BY <1>2 DEF ReadBehind
<1> QED  BY <1>5, <1>6, <1>10, <1>11 DEF BlindInv

(* A directory that cannot be read or watched becomes a blind spot.        *)
LEMMA BlindAfterRefusal ==
    ASSUME TypeOK, BlindInv,
           WalkAddFails \/ \E path \in todo : WalkUnread(path)
    PROVE  BlindInv'
<1> USE StillTree
<1>1. /\ UNCHANGED tree /\ UNCHANGED <<watched, queue, overflowed, paths, raced>>
      /\ refused \subseteq refused' /\ reading' = None
      /\ \A u : Visiting(u) => u \in refused'
      /\ \A u : ToVisit(u) => ToVisit(u)' \/ u \in refused'
  <2>1. CASE WalkAddFails
    BY <2>1 DEF WalkAddFails, kernel, Visiting, ToVisit
  <2>2. ASSUME NEW path \in todo, WalkUnread(path)
        PROVE  /\ UNCHANGED tree
               /\ UNCHANGED <<watched, queue, overflowed, paths, raced>>
               /\ refused \subseteq refused' /\ reading' = None
               /\ \A u : Visiting(u) => u \in refused'
               /\ \A u : ToVisit(u) => ToVisit(u)' \/ u \in refused'
    BY <2>2 DEF WalkUnread, kernel, Visiting, ToVisit
  <2> QED  BY <2>1, <2>2
<1>2. Placed' /\ NoTwins' /\ ReadBehind'
  BY <1>1 DEF BlindInv, Placed, NoTwins, ReadBehind, tree
<1>3. \A u : /\ Queued(u) => Queued(u)'
             /\ Excused(u) => Excused(u)'
             /\ u \in refused' => Excused(u)'
  BY <1>1 DEF Queued, Excused, BlindSpot, Lost, tree
<1>4. Sighted'
  BY <1>1, <1>3 DEF BlindInv, Sighted
<1> QED  BY <1>2, <1>4 DEF BlindInv

LEMMA BlindAfterHandle ==
    ASSUME TypeOK, BlindInv, Handle
    PROVE  BlindInv'
<1> USE StillTree
<1>1. Dequeue /\ UNCHANGED <<tree, watched, overflowed, reading, raced, refused>>
  BY DEF Handle, HandleOpen, HandleGone, HandleIgnored, HandleMade,
         HandleChange,
         walk
<1>2. /\ ToSet(queue) = {Head(queue)} \cup ToSet(queue') /\ Head(queue) \in Event
      /\ todo = {} /\ reading = None
  BY <1>1, Taken DEF Dequeue, Reading, TypeOK
<1>3. Placed' /\ NoTwins' /\ ReadBehind'
  BY <1>1, <1>2 DEF BlindInv, Placed, NoTwins, ReadBehind, tree
<1>4. \A u : ~ToVisit(u) /\ ~Visiting(u)
  BY <1>2 DEF ToVisit, Visiting
<1>5. \A v \in Watchable : paths'[v] \in {paths[v], None}
  BY <1>1, <1>2 DEF Handle, HandleOpen, HandleGone, HandleIgnored, HandleMade,
                    HandleChange, Event, TypeOK
<1>6. \A v : Lost(v) => Lost(v)'
  BY <1>1, <1>5 DEF Lost, TypeOK
<1>7. \A u : Excused(u) => Excused(u)'
  BY <1>1, <1>6 DEF Excused, BlindSpot, tree
<1>8. ASSUME NEW u, Queued(u), name[u] \notin Ignored
      PROVE  Queued(u)' \/ ToVisit(u)' \/ Excused(u)'
  <2>1. u \in Dirs /\ parent[u] \in watched /\ parent[u] \in Watchable
    BY <1>8 DEF Queued, TypeOK
  <2>2. CASE Ev(parent[u], "made", name[u]) \in ToSet(queue')
    BY <1>1, <2>1, <2>2 DEF Queued, tree
  <2>3. CASE Ev(parent[u], "made", name[u]) = Head(queue)
    <3>1. /\ Head(queue).kind = "made" /\ Head(queue).wd = parent[u]
          /\ Head(queue).name = name[u]
      BY <2>3 DEF Ev
    <3>2. HandleMade
      BY <1>8, <3>1 DEF Handle, HandleOpen, HandleGone, HandleIgnored,
                        HandleChange
    <3>3. CASE Lost(parent[u])
      BY <1>1, <1>6, <2>1, <3>3 DEF Excused, BlindSpot, tree
    <3>4. CASE ~Lost(parent[u])
      <4>1. PICK p \in Path : p = paths[parent[u]] /\ parent[u] \in At(p)
        BY <2>1, <3>4 DEF Lost, TypeOK
      <4>2. PICK q \in Path : q = Append(p, name[u])
        BY <2>1, Appended DEF TypeOK, Path
      <4>3. u \in At(q)
        BY <2>1, <4>1, <4>2, ReachedChild, AtIsReached DEF TypeOK, Path
      <4>4. q \in todo'
        BY <2>1, <3>1, <3>2, <3>4, <4>1, <4>2 DEF HandleMade, Lost
      <4> QED  BY <1>1, <4>3, <4>4 DEF ToVisit
    <3> QED  BY <3>3, <3>4
  <2> QED  BY <1>2, <1>8, <2>2, <2>3 DEF Queued
<1>9. Sighted'
  <2> SUFFICES ASSUME ~overflowed, NEW x \in Watchable, InTree(x), x \notin watched,
                      ~NamedIgnored(x)
               PROVE  \E u \in Above(x) :
                         Queued(u)' \/ ToVisit(u)' \/ Visiting(u)' \/ Excused(u)'
    BY <1>1 DEF Sighted
  <2>1. PICK u \in Above(x) : Queued(u) \/ Excused(u)
    BY <1>4 DEF BlindInv, Sighted
  <2>2. Queued(u) => name[u] \notin Ignored
    BY DEF Queued, NamedIgnored
  <2> QED  BY <1>7, <1>8, <2>1, <2>2
<1> QED  BY <1>3, <1>9 DEF BlindInv

LEMMA BlindKept ==
    ASSUME TypeOK, TypeOK', BlindInv, [Next]_vars
    PROVE  BlindInv'
<1>1. CASE UNCHANGED vars
  BY <1>1, StillBlind DEF vars, tree, kernel, walk
<1>2. CASE Walk
  <2>1. CASE WalkEnds
    <3>1. UNCHANGED <<tree, kernel, paths, todo, reading, raced, refused>>
      BY <2>1 DEF WalkEnds
    <3> QED  BY <3>1, StillBlind DEF kernel
  <2> QED  BY <1>2, <2>1, BlindAfterWalkRead, BlindAfterWalkAdd,
              BlindAfterRefusal DEF Walk
<1> QED  BY <1>1, <1>2, BlindAfterUser, BlindAfterHandle, BlindAfterRun DEF Next

LEMMA BlindInit ==
    ASSUME TypeOK, Init
    PROVE  BlindInv
<1>1. Placed /\ NoTwins /\ ReadBehind
  <2>1. \A d \in Dirs : parent[d] = Nowhere
    BY DEF Init
  <2>2. Nowhere \notin Dirs /\ Nowhere \notin Watchable
    BY Disjoint, PlacesAssumption
  <2>3. watched = {} /\ reading = None
    BY DEF Init
  <2> QED  BY <2>1, <2>2, <2>3 DEF Placed, NoTwins, ReadBehind
<1>2. ASSUME NEW x \in Watchable, InTree(x)
      PROVE  \E u \in Above(x) : ToVisit(u)
  <2>1. Root \in Above(x) /\ <<>> \in todo
    BY <1>2 DEF InTree, Init
  <2>2. Root \in At(<<>>)
    BY ReachedRoot, AtIsReached
  <2> QED  BY <2>1, <2>2 DEF ToVisit
<1> QED  BY <1>1, <1>2 DEF BlindInv, Sighted

(* However directories are made, moved and removed while the watcher walks *)
(* and handles, an unwatched directory has, at or above it, one that could *)
(* not be read or watched, one that raced with a walk, or one whose        *)
(* parent's path was forgotten.                                            *)
THEOREM BlindSpotsKnown == Spec => []KnownBlindSpots
<1>1. Init => BlindInv
  BY InitTypes, BlindInit
<1>2. TypeOK /\ BlindInv /\ [Next]_vars => BlindInv'
  BY TypesKept, BlindKept
<1>3. TypeOK /\ BlindInv => KnownBlindSpots
  <2> SUFFICES ASSUME TypeOK, BlindInv, Settled, ~overflowed, NEW d \in Dirs,
                      InTree(d), d \notin watched, ~NamedIgnored(d)
               PROVE  \E x \in Above(d) : BlindSpot(x)
    BY DEF KnownBlindSpots
  <2>1. queue = <<>> /\ todo = {} /\ reading = None
    BY DEF Settled, Reading
  <2>2. \A u : ~Queued(u) /\ ~ToVisit(u) /\ ~Visiting(u)
    BY <2>1, Emptied DEF Queued, ToVisit, Visiting
  <2>3. PICK u \in Above(d) : Excused(u)
    BY <2>2 DEF BlindInv, Sighted, Watchable
  <2> QED  BY <2>3 DEF Excused
<1> QED  BY <1>1, <1>2, <1>3, TypesHold, PTL DEF Spec
=============================================================================
