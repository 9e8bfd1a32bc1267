----------------------------- MODULE ScannerProofs -----------------------------
(***************************************************************************)
(* The walk of Scanner on any filesystem, mount table and configuration,   *)
(* however the filesystem changes under it, and the rows it stores: they   *)
(* form a tree, keep what is protected, and hold exactly what was counted. *)
(***************************************************************************)
EXTENDS Scanner, SharedTheorems

--------------------------------------------------------------------------------
(* Completeness *)

\* Once the scan has missed something it is not COMPLETE.
Reported ==
  /\ phase \in {"prepare", "walk", "done"}
  /\ unseen # {} => hadFailure = TRUE
  /\ status = "complete" => phase = "done" /\ hadFailure # TRUE

\* No error, and no full table of hard links, is lost on the way to the status of
\* the result.
THEOREM ReportedInvariance == Spec => []Reported
<1>1. Init => Reported
  BY DEF Init, Reported
<1>2. Reported /\ [Next]_vars => Reported'
  <2>. SUFFICES ASSUME Reported, [Next]_vars
                PROVE  Reported'
    OBVIOUS
  <2>. USE DEF Reported
  <2>1. CASE UNCHANGED vars
    BY <2>1 DEF vars
  <2>2. CASE RootAccepted \/ RootRejected
    BY <2>2 DEF RootAccepted, RootRejected, ghosts
  <2>3. CASE ListDirectory \/ ListRootFails
    BY <2>3 DEF ListDirectory, ListRootFails, ghosts
  <2>4. ASSUME NEW missing \in BOOLEAN, ListFails(missing) \/ EntryFails(missing)
        PROVE  Reported'
    BY <2>4 DEF ListFails, EntryFails, AtEntry
  <2>5. ASSUME NEW n, ExcludedDirectory(n) \/ SkipDirectory(n) \/ CountFile(n)
        PROVE  Reported'
    BY <2>5 DEF ExcludedDirectory, SkipDirectory, CountFile, AtEntry
  <2>6. ASSUME NEW n, EnterDirectory(n) \/ HardlinkLimit(n)
        PROVE  Reported'
    BY <2>6 DEF EnterDirectory, HardlinkLimit, AtEntry, ghosts
  <2>7. CASE ExcludedOther
    BY <2>7 DEF ExcludedOther, AtEntry
  <2>8. CASE FinishFrame
    BY <2>8 DEF FinishFrame, ghosts
  <2>. QED
    BY <2>1, <2>2, <2>3, <2>4, <2>5, <2>6, <2>7, <2>8 DEF Next, Entry
<1>. QED
  BY <1>1, <1>2, PTL DEF Spec

\* A scan reported COMPLETE has looked at all it listed: no entry or listing whose
\* error is not its absence is left out.
THEOREM CompleteScans == Spec => []CompleteSawAll
<1>1. Reported => CompleteSawAll
  BY DEF Reported, CompleteSawAll
<1>. QED
  BY <1>1, ReportedInvariance, PTL

--------------------------------------------------------------------------------
(* Sequences and frames *)

IsSequence(s) == \E S : s \in Seq(S)

\* Dropping the last element.
LEMMA DropLast ==
  ASSUME NEW S, NEW s \in Seq(S), s # <<>>
  PROVE  /\ Front(s) \in Seq(S) /\ Len(Front(s)) = Len(s) - 1
         /\ Len(s) \in Nat \ {0} /\ DOMAIN s = 1 .. Len(s)
         /\ \A i \in 1 .. Len(s) - 1 : Front(s)[i] = s[i]
<1>1. Len(s) \in Nat \ {0} /\ DOMAIN s = 1 .. Len(s)
  BY EmptySeq, LenProperties
<1>2. \A i \in 1 .. Len(s) - 1 : s[i] \in S
  BY <1>1, ElementOfSeq
<1>. QED
  BY <1>1, <1>2, SubSeqProperties DEF Front

\* Replacing the last element (SetTop).
LEMMA ReplaceLast ==
  ASSUME NEW s, IsSequence(s), s # <<>>, NEW f
  PROVE  LET t == Append(Front(s), f)
         IN  /\ IsSequence(t) /\ Len(t) = Len(s) /\ Len(s) \in Nat \ {0}
             /\ DOMAIN t = 1 .. Len(s) /\ DOMAIN s = 1 .. Len(s)
             /\ \A i \in 1 .. Len(s) - 1 : t[i] = s[i]
             /\ t[Len(s)] = f
<1>1. PICK S : s \in Seq(S)
  BY DEF IsSequence
<1>. DEFINE T == S \union {f}
            u == Front(s)
<1>2. s \in Seq(T) /\ f \in T
  BY <1>1, SeqMonotonic
<1>. HIDE DEF T
<1>3. /\ u \in Seq(T) /\ Len(u) = Len(s) - 1
      /\ Len(s) \in Nat \ {0} /\ DOMAIN s = 1 .. Len(s)
      /\ \A i \in 1 .. Len(s) - 1 : u[i] = s[i]
  BY <1>2, DropLast
<1>. HIDE DEF u
<1>4. /\ Append(u, f) \in Seq(T) /\ Len(Append(u, f)) = Len(s)
      /\ \A i \in 1 .. Len(s) - 1 : Append(u, f)[i] = s[i]
      /\ Append(u, f)[Len(s)] = f
  BY <1>2, <1>3, AppendProperties
<1>5. DOMAIN Append(u, f) = 1 .. Len(s)
  BY <1>4, LenProperties
<1>. QED
  BY <1>3, <1>4, <1>5 DEF IsSequence, u

\* The same, with a name for the sequence that results.
SetsLast(s, f, t) == t = Append(Front(s), f)

\* What t is when it is s with the last element replaced.
LEMMA Replaced ==
  ASSUME NEW s, IsSequence(s), s # <<>>, NEW f, NEW t, SetsLast(s, f, t)
  PROVE  /\ IsSequence(t) /\ Len(t) = Len(s) /\ Len(s) \in Nat \ {0}
         /\ DOMAIN t = 1 .. Len(s) /\ DOMAIN s = 1 .. Len(s)
         /\ \A i \in 1 .. Len(s) - 1 : t[i] = s[i]
         /\ t[Len(s)] = f
BY ReplaceLast DEF SetsLast

\* Adding an element.
LEMMA AddLast ==
  ASSUME NEW s, IsSequence(s), NEW g
  PROVE  LET t == Append(s, g)
         IN  /\ IsSequence(t) /\ Len(s) \in Nat /\ DOMAIN t = 1 .. Len(s) + 1
             /\ \A i \in 1 .. Len(s) : t[i] = s[i]
             /\ t[Len(s) + 1] = g
<1>1. PICK S : s \in Seq(S)
  BY DEF IsSequence
<1>. DEFINE T == S \union {g}
<1>2. s \in Seq(T) /\ g \in T
  BY <1>1, SeqMonotonic
<1>. HIDE DEF T
<1>3. /\ Append(s, g) \in Seq(T) /\ Len(Append(s, g)) = Len(s) + 1
      /\ \A i \in 1 .. Len(s) : Append(s, g)[i] = s[i]
      /\ Append(s, g)[Len(s) + 1] = g
  BY <1>2, AppendProperties
<1>4. DOMAIN Append(s, g) = 1 .. Len(s) + 1 /\ Len(s) \in Nat
  BY <1>2, <1>3, LenProperties
<1>. QED
  BY <1>3, <1>4 DEF IsSequence

\* A prefix, element by element.
LEMMA PrefixElements ==
  ASSUME NEW S, NEW s \in Seq(S), NEW t \in Seq(S)
  PROVE  IsPrefix(s, t) <=> Len(s) <= Len(t) /\ \A k \in 1 .. Len(s) : s[k] = t[k]
BY DEF IsPrefix

\* A frame has the fields of NewFrame.
FrameFields == {"path", "node", "mount", "ready", "listed", "left", "usage", "rowStart",
                "collapse", "children", "error", "evidence", "top", "topDisk"}
Shape(f) == f = [x \in FrameFields |-> f[x]]

\* g is the frame f with other figures.
SamePlace(f, g) ==
  /\ Shape(g)
  /\ g.path = f.path /\ g.node = f.node /\ g.ready = f.ready /\ g.listed = f.listed

\* The helpers of the walk move a frame to no other place.
LEMMA FiguresOnly ==
  ASSUME NEW f, Shape(f)
  PROVE  /\ SamePlace(f, Advance(f)) /\ Advance(f).left = Tail(f.left)
         /\ SamePlace(f, Noticed(f)) /\ Noticed(f).left = f.left
         /\ SamePlace(f, CountChild(f)) /\ CountChild(f).left = f.left
<1>. USE DEF SamePlace, Shape, FrameFields
<1>1. SamePlace(f, Advance(f)) /\ Advance(f).left = Tail(f.left)
  BY DEF Advance
<1>2. SamePlace(f, Noticed(f)) /\ Noticed(f).left = f.left
  BY DEF Noticed
<1>3. SamePlace(f, CountChild(f)) /\ CountChild(f).left = f.left
  BY DEF CountChild
<1>. QED
  BY <1>1, <1>2, <1>3

\* Nor does merging a child.
LEMMA MergesOnly ==
  ASSUME NEW f, Shape(f), NEW row, NEW evidence
  PROVE  /\ SamePlace(f, MergeChild(f, row, evidence))
         /\ MergeChild(f, row, evidence).left = f.left
BY DEF SamePlace, Shape, FrameFields, MergeChild

\* A new frame has still to be listed.
LEMMA NewFrameFields ==
  ASSUME NEW path, NEW node, NEW mount, NEW f, f = NewFrame(path, node, mount)
  PROVE  /\ Shape(f) /\ f.path = path /\ f.node = node /\ f.listed = node
         /\ f.left = <<>> /\ ~f.ready
BY DEF NewFrame, Shape, FrameFields

--------------------------------------------------------------------------------
(* The inductive invariant of the walk *)

NameSet == UNION {DOMAIN Lookup[n] : n \in Nodes}
IsDirectory(n) == n \in Nodes /\ Attr[n].kind = "dir"

FrameOK(f) ==
  /\ Shape(f)
  /\ f.path \in Seq(NameSet)
  /\ IsDirectory(f.node) /\ IsDirectory(f.listed)
  /\ f.left \in Seq(DOMAIN Lookup[f.listed])
  /\ \A k, l \in 1 .. Len(f.left) : f.left[k] = f.left[l] => k = l
  /\ f.ready \/ f.left = <<>>

\* Frame g is below frame f on the stack: another directory, on a path that
\* continues with a name f has already dealt with.
Above(f, g) ==
  /\ f.ready /\ f.node # g.node
  /\ Len(f.path) < Len(g.path)
  /\ \A k \in 1 .. Len(f.path) : g.path[k] = f.path[k]
  /\ \A k \in 1 .. Len(f.left) : f.left[k] # g.path[Len(f.path) + 1]

\* What has been entered at the path of f is f's own directory, and nothing has
\* been entered yet where f still has to go.
Clear(f, items) ==
  \A c \in items : c.entered =>
    /\ c.path = f.path => c.node = f.node
    /\ ~f.ready => ~IsPrefix(f.path, c.path)
    /\ \A k \in 1 .. Len(f.left) : ~IsPrefix(Append(f.path, f.left[k]), c.path)

NoneInside(items) ==
  \A c, d \in items :
    c.entered /\ d.entered /\ IsStrictPrefix(c.path, d.path) => c.node # d.node

WalkInv ==
  /\ IsSequence(stack)
  /\ \A i \in DOMAIN stack : FrameOK(stack[i]) /\ Len(stack[i].path) = i - 1
  /\ \A i, j \in DOMAIN stack : i < j => Above(stack[i], stack[j])
  /\ \A i \in DOMAIN stack : Clear(stack[i], charges)
  /\ \A c \in charges : c.path \in Seq(NameSet)
  /\ NoneInside(charges)
  /\ phase = "walk" => stack # <<>>
  /\ phase = "prepare" => charges = {}

\* The top of the stack.
LEMMA TopFacts ==
  ASSUME WalkInv, stack # <<>>
  PROVE  \E n \in Nat \ {0} :
           /\ n = Len(stack) /\ DOMAIN stack = 1 .. n
           /\ Frame = stack[n] /\ FrameOK(Frame)
           /\ Len(Frame.path) = n - 1 /\ Clear(Frame, charges)
<1>0. IsSequence(stack)
  BY DEF WalkInv
<1>1. Len(stack) \in Nat \ {0} /\ DOMAIN stack = 1 .. Len(stack)
  BY <1>0, ReplaceLast
<1>2. Frame = stack[Len(stack)] /\ Len(stack) \in DOMAIN stack
  BY <1>1 DEF Frame, Last
<1>3. \A i \in DOMAIN stack :
        FrameOK(stack[i]) /\ Len(stack[i].path) = i - 1 /\ Clear(stack[i], charges)
  BY DEF WalkInv
<1>. QED
  BY <1>1, <1>2, <1>3

\* The path of the entry that is next.
LEMMA EntryFacts ==
  ASSUME NEW f, FrameOK(f), f.left # <<>>
  PROVE  LET path == Append(f.path, Head(f.left))
         IN  /\ path \in Seq(NameSet) /\ Len(path) = Len(f.path) + 1
             /\ \A k \in 1 .. Len(f.path) : path[k] = f.path[k]
             /\ path[Len(f.path) + 1] = Head(f.left)
             /\ Head(f.left) \in DOMAIN Lookup[f.listed]
             /\ Head(f.left) = f.left[1] /\ Len(f.left) \in Nat \ {0}
<1>1. /\ Head(f.left) \in DOMAIN Lookup[f.listed]
      /\ Head(f.left) = f.left[1] /\ Len(f.left) \in Nat \ {0}
  BY EmptySeq, HeadTailProperties DEF FrameOK
<1>2. Head(f.left) \in NameSet
  BY <1>1 DEF FrameOK, IsDirectory, NameSet
<1>. QED
  BY <1>1, <1>2, AppendProperties DEF FrameOK

\* A frame that moves on, or gives up the rest, and changes only its figures.
LEMMA MovedOn ==
  ASSUME NEW f, FrameOK(f), NEW g, SamePlace(f, g),
         \/ g.left = f.left
         \/ f.left # <<>> /\ g.left \in {Tail(f.left), <<>>}
  PROVE  /\ FrameOK(g)
         /\ \A k \in 1 .. Len(g.left) : \E l \in 1 .. Len(f.left) : g.left[k] = f.left[l]
         /\ \A items : Clear(f, items) => Clear(g, items)
         /\ \A h : Above(f, h) => Above(g, h)
         /\ \A h : Above(h, f) => Above(h, g)
<1>1. /\ g.left \in Seq(DOMAIN Lookup[f.listed])
      /\ \A k, l \in 1 .. Len(g.left) : g.left[k] = g.left[l] => k = l
      /\ \A k \in 1 .. Len(g.left) : \E l \in 1 .. Len(f.left) : g.left[k] = f.left[l]
      /\ g.ready \/ g.left = <<>>
  <2>1. CASE g.left = f.left
    BY <2>1 DEF FrameOK, SamePlace
  <2>2. CASE g.left = <<>>
    BY <2>2
  <2>3. CASE f.left # <<>> /\ g.left = Tail(f.left)
    <3>0. f.left \in Seq(DOMAIN Lookup[f.listed])
      BY DEF FrameOK
    <3>1. /\ Len(f.left) \in Nat \ {0} /\ g.left \in Seq(DOMAIN Lookup[f.listed])
          /\ Len(g.left) = Len(f.left) - 1
          /\ \A k \in 1 .. Len(g.left) : g.left[k] = f.left[k + 1]
      <4>1. PICK s \in Seq(DOMAIN Lookup[f.listed]) : s = f.left /\ s # <<>>
        BY <2>3, <3>0
      <4>2. Len(s) \in Nat \ {0}
        BY <4>1, EmptySeq
      <4>3. /\ Tail(s) \in Seq(DOMAIN Lookup[f.listed])
            /\ Len(Tail(s)) = Len(s) - 1
            /\ \A k \in 1 .. Len(Tail(s)) : Tail(s)[k] = s[k + 1]
        BY <4>1, HeadTailProperties
      <4>4. g.left = Tail(s)
        BY <2>3, <4>1
      <4>. QED
        BY <4>1, <4>2, <4>3, <4>4
    <3>2. \A k \in 1 .. Len(g.left) : k + 1 \in 1 .. Len(f.left)
      BY <3>1
    <3>3. \A k, l \in 1 .. Len(g.left) : g.left[k] = g.left[l] => k + 1 = l + 1
      BY <3>1, <3>2 DEF FrameOK
    <3>4. \A k, l \in 1 .. Len(g.left) : g.left[k] = g.left[l] => k = l
      BY <3>1, <3>3
    <3>. QED
      BY <2>3, <3>1, <3>2, <3>4 DEF FrameOK, SamePlace
  <2>. QED
    BY <2>1, <2>2, <2>3
<1>2. FrameOK(g)
  BY <1>1 DEF FrameOK, SamePlace
<1>3. \A items : Clear(f, items) => Clear(g, items)
  BY <1>1 DEF Clear, SamePlace
<1>4. \A h : Above(f, h) => Above(g, h)
  BY <1>1 DEF Above, SamePlace
<1>5. \A h : Above(h, f) => Above(h, g)
  BY DEF Above, SamePlace
<1>. QED
  BY <1>1, <1>2, <1>3, <1>4, <1>5

--------------------------------------------------------------------------------
(* The steps of the walk *)

\* Charges of what is not entered disturb nothing.
LEMMA ChargeOther ==
  ASSUME NEW items, NEW more,
         \A c \in more : c \in items \/ ~c.entered
  PROVE  /\ \A f : Clear(f, items) => Clear(f, more)
         /\ NoneInside(items) => NoneInside(more)
BY DEF Clear, NoneInside

\* An entry of the directory on top that is not entered.
LEMMA EntryStep ==
  ASSUME WalkInv, phase = "walk", Frame.left # <<>>,
         NEW g, SamePlace(Frame, g), g.left \in {Tail(Frame.left), <<>>},
         stack' = Append(Outer, g), phase' = phase,
         \A c \in charges' : c \in charges \/ (~c.entered /\ c.path \in Seq(NameSet))
  PROVE  WalkInv'
<1>1. stack # <<>> /\ IsSequence(stack)
  BY DEF WalkInv
<1>2. PICK n \in Nat \ {0} :
        /\ n = Len(stack) /\ DOMAIN stack = 1 .. n /\ Frame = stack[n] /\ FrameOK(Frame)
        /\ Len(Frame.path) = n - 1 /\ Clear(Frame, charges)
  BY <1>1, TopFacts
<1>3. /\ IsSequence(stack') /\ DOMAIN stack' = 1 .. n
      /\ \A i \in 1 .. n - 1 : stack'[i] = stack[i]
      /\ stack'[n] = g
  BY <1>1, <1>2, ReplaceLast DEF Outer
<1>4. /\ FrameOK(g) /\ Clear(g, charges) /\ Len(g.path) = n - 1
      /\ \A h : Above(h, Frame) => Above(h, g)
  BY <1>2, MovedOn DEF SamePlace
<1>5. ASSUME NEW i \in 1 .. n
      PROVE  FrameOK(stack'[i]) /\ Len(stack'[i].path) = i - 1 /\ Clear(stack'[i], charges)
  <2>1. CASE i = n
    BY <2>1, <1>3, <1>4
  <2>2. CASE i # n
    <3>1. i \in 1 .. n - 1 /\ i \in DOMAIN stack
      BY <2>2, <1>2
    <3>2. FrameOK(stack[i]) /\ Len(stack[i].path) = i - 1 /\ Clear(stack[i], charges)
      BY <3>1 DEF WalkInv
    <3>. QED
      BY <3>1, <3>2, <1>3
  <2>. QED
    BY <2>1, <2>2
<1>6. ASSUME NEW i \in 1 .. n, NEW j \in 1 .. n, i < j
      PROVE  Above(stack'[i], stack'[j])
  <2>1. Above(stack[i], stack[j])
    BY <1>2, <1>6 DEF WalkInv
  <2>2. i \in 1 .. n - 1 /\ (j = n \/ j \in 1 .. n - 1)
    BY <1>6
  <2>. QED
    BY <1>2, <1>3, <1>4, <2>1, <2>2
<1>7. NoneInside(charges) /\ \A c \in charges : c.path \in Seq(NameSet)
  BY DEF WalkInv
<1>8. /\ \A f : Clear(f, charges) => Clear(f, charges')
      /\ NoneInside(charges')
      /\ \A c \in charges' : c.path \in Seq(NameSet)
  BY <1>7, ChargeOther
<1>9. stack' # <<>>
  <2>1. 1 \in DOMAIN stack'
    BY <1>3
  <2>. QED
    BY <2>1
<1>. QED
  BY <1>3, <1>5, <1>6, <1>8, <1>9 DEF WalkInv

\* The directory on top is charged as it is listed, or as listing it fails.
LEMMA ChargeTop ==
  ASSUME WalkInv, stack # <<>>, ~Frame.ready,
         NEW d, d.path = Frame.path, d.node = Frame.node
  PROVE  /\ \A i \in 1 .. Len(stack) - 1 : Clear(stack[i], charges \union {d})
         /\ NoneInside(charges \union {d})
<1>1. PICK n \in Nat \ {0} :
        /\ n = Len(stack) /\ DOMAIN stack = 1 .. n /\ Frame = stack[n] /\ FrameOK(Frame)
        /\ Len(Frame.path) = n - 1 /\ Clear(Frame, charges)
  BY TopFacts
<1>2. \A c \in charges : c.path \in Seq(NameSet)
  BY DEF WalkInv
<1>3. d.path \in Seq(NameSet) /\ Len(d.path) = n - 1
  BY <1>1 DEF FrameOK
<1>4. ASSUME NEW i \in 1 .. n - 1
      PROVE  /\ FrameOK(stack[i]) /\ Len(stack[i].path) = i - 1
             /\ Clear(stack[i], charges) /\ Above(stack[i], Frame)
  <2>1. i \in DOMAIN stack /\ n \in DOMAIN stack /\ i < n
    BY <1>1
  <2>. QED
    BY <2>1, <1>1 DEF WalkInv
<1>5. ASSUME NEW i \in 1 .. n - 1
      PROVE  Clear(stack[i], charges \union {d})
  <2>1. /\ FrameOK(stack[i]) /\ Len(stack[i].path) = i - 1
        /\ Clear(stack[i], charges) /\ Above(stack[i], Frame)
    BY <1>4
  <2>2. d.path # stack[i].path /\ stack[i].ready
    <3>1. Len(d.path) # Len(stack[i].path)
      BY <1>3, <2>1
    <3>. QED
      BY <3>1, <2>1 DEF Above
  <2>3. ASSUME NEW k \in 1 .. Len(stack[i].left)
        PROVE  ~IsPrefix(Append(stack[i].path, stack[i].left[k]), d.path)
    <3>. DEFINE x == stack[i].left[k]
                q == Append(stack[i].path, x)
    <3>1. stack[i].path \in Seq(NameSet) /\ x \in NameSet
      <4>1. /\ stack[i].path \in Seq(NameSet) /\ stack[i].listed \in Nodes
            /\ stack[i].left \in Seq(DOMAIN Lookup[stack[i].listed])
        BY <2>1 DEF FrameOK, IsDirectory
      <4>2. x \in DOMAIN Lookup[stack[i].listed]
        BY <4>1, ElementOfSeq
      <4>. QED
        BY <4>1, <4>2 DEF NameSet
    <3>2. q \in Seq(NameSet) /\ Len(q) = i /\ q[i] = x
      BY <3>1, <2>1, AppendProperties
    <3>3. x # d.path[i]
      BY <2>1 DEF Above
    <3>. HIDE DEF x, q
    <3>4. ~IsPrefix(q, d.path)
      BY <3>2, <3>3, <1>3, PrefixElements
    <3>. QED
      BY <3>4 DEF x, q
  <2>. QED
    BY <2>1, <2>2, <2>3 DEF Clear
<1>6. ASSUME NEW c \in charges, c.entered, IsStrictPrefix(c.path, d.path)
      PROVE  c.node # d.node
  <2>1. PICK m \in Nat : c.path \in Seq(NameSet) /\ m = Len(c.path)
    BY <1>2, LenProperties
  <2>2. m <= n - 1 /\ \A k \in 1 .. m : c.path[k] = d.path[k]
    BY <1>3, <1>6, <2>1, PrefixElements DEF IsStrictPrefix
  <2>3. m # n - 1
    BY <1>3, <1>6, <2>1, <2>2, SeqEqual DEF IsStrictPrefix
  <2>4. m + 1 \in 1 .. n - 1
    BY <2>2, <2>3
  <2>. DEFINE f == stack[m + 1]
  <2>5. FrameOK(f) /\ Len(f.path) = m /\ Clear(f, charges) /\ Above(f, Frame)
    BY <1>4, <2>4
  <2>6. \A k \in 1 .. m : c.path[k] = f.path[k]
    BY <2>2, <2>5 DEF Above
  <2>7. c.path = f.path
    BY <2>1, <2>5, <2>6, SeqEqual DEF FrameOK
  <2>. QED
    BY <1>6, <2>5, <2>7 DEF Clear, Above
<1>7. ASSUME NEW c \in charges, c.entered
      PROVE  ~IsStrictPrefix(d.path, c.path)
  BY <1>1, <1>7 DEF Clear, IsStrictPrefix
<1>8. NoneInside(charges)
  BY DEF WalkInv
<1>9. ~IsStrictPrefix(d.path, d.path)
  BY DEF IsStrictPrefix
<1>. QED
  BY <1>1, <1>5, <1>6, <1>7, <1>8, <1>9 DEF NoneInside

\* The directory on top is listed.
LEMMA ListStep ==
  ASSUME WalkInv, ListDirectory
  PROVE  WalkInv'
<1>1. stack # <<>> /\ IsSequence(stack) /\ phase' = "walk" /\ ~Frame.ready
  BY DEF WalkInv, ListDirectory
<1>2. PICK n \in Nat \ {0} :
        /\ n = Len(stack) /\ DOMAIN stack = 1 .. n /\ Frame = stack[n] /\ FrameOK(Frame)
        /\ Len(Frame.path) = n - 1 /\ Clear(Frame, charges)
  BY <1>1, TopFacts
<1>. DEFINE ReadAs(e, names) ==
              [Frame EXCEPT !.ready = TRUE, !.listed = e, !.left = names,
                            !.usage = DirUsage(Frame.node), !.rowStart = Len(rows),
                            !.collapse = InitialCollapse(Frame.path)]
<1>3a. PICK e \in Reached :
         \E names \in Listings(e) : stack' = Append(Outer, ReadAs(e, names))
  BY DEF ListDirectory, SetTop
<1>3. PICK names \in Listings(e) : stack' = Append(Outer, ReadAs(e, names))
  BY <1>3a
<1>4. PICK g : g = ReadAs(e, names)
  OBVIOUS
<1>5. /\ Shape(g) /\ g.path = Frame.path /\ g.node = Frame.node
      /\ g.ready = TRUE /\ g.listed = e /\ g.left = names
  <2>1. Shape(Frame)
    BY <1>2 DEF FrameOK
  <2>. QED
    BY <1>4, <2>1 DEF Shape, FrameFields
<1>6. IsDirectory(e)
  BY <1>2, FilesystemAssumption DEF Reached, FrameOK, IsDirectory
<1>7. names \in Seq(DOMAIN Lookup[e]) /\ Len(names) \in Nat /\ DOMAIN names = 1 .. Len(names)
  BY DEF Listings, SeqOf
<1>8. ASSUME NEW k \in 1 .. Len(names), NEW l \in 1 .. Len(names), names[k] = names[l]
      PROVE  k = l
  <2>1. ASSUME NEW i \in 1 .. Len(names), NEW j \in 1 .. Len(names), i < j
        PROVE  names[i] # names[j]
    <3>1. \E a, b \in DOMAIN Names : a < b /\ Names[a] = names[i] /\ Names[b] = names[j]
      BY <1>7, <2>1 DEF Listings
    <3>2. PICK a \in DOMAIN Names, b \in DOMAIN Names :
            a < b /\ Names[a] = names[i] /\ Names[b] = names[j]
      BY <3>1
    <3>3. Names[a] = Names[b] => a = b
      BY FilesystemAssumption
    <3>4. DOMAIN Names \subseteq Int
      BY FilesystemAssumption
    <3>. QED
      BY <3>2, <3>3, <3>4
  <2>. QED
    BY <1>7, <1>8, <2>1
<1>9. FrameOK(g)
  BY <1>2, <1>5, <1>6, <1>7, <1>8 DEF FrameOK
<1>10. PICK d : /\ charges' = charges \union {d}
                /\ d.path = Frame.path /\ d.node = Frame.node
  <2>1. PICK d : d = [path |-> Frame.path, node |-> Frame.node,
                      usage |-> AsDirectory(DirUsage(Frame.node)), entered |-> TRUE]
    OBVIOUS
  <2>2. charges' = charges \union {d}
    BY <2>1 DEF ListDirectory, Charge
  <2>3. d.path = Frame.path /\ d.node = Frame.node
    BY <2>1
  <2>. QED
    BY <2>2, <2>3
<1>11. Frame.path \in Seq(NameSet) /\ \A c \in charges' : c.path \in Seq(NameSet)
  BY <1>2, <1>10 DEF WalkInv, FrameOK
<1>12. Clear(g, charges')
  <2>1. ASSUME NEW k \in 1 .. Len(names), NEW c \in charges', c.entered
        PROVE  ~IsPrefix(Append(g.path, names[k]), c.path)
    <3>. DEFINE q == Append(Frame.path, names[k])
    <3>1. names[k] \in NameSet
      BY <1>6, <1>7, ElementOfSeq DEF IsDirectory, NameSet
    <3>2. /\ q \in Seq(NameSet) /\ Len(q) = n
          /\ \A l \in 1 .. n - 1 : q[l] = Frame.path[l]
      BY <3>1, <1>2, <1>11, AppendProperties
    <3>. HIDE DEF q
    <3>3. c \in charges => ~IsPrefix(Frame.path, c.path)
      BY <1>1, <1>2, <2>1 DEF Clear
    <3>4. ASSUME c = d PROVE ~IsPrefix(q, c.path)
      <4>1. c.path = Frame.path /\ ~(n <= n - 1)
        BY <3>4, <1>10
      <4>. QED
        BY <4>1, <3>2, <1>2, <1>11, PrefixElements
    <3>5. ASSUME c \in charges PROVE ~IsPrefix(q, c.path)
      <4>1. PICK m \in Nat : m = Len(c.path) /\ c.path \in Seq(NameSet)
        BY <1>11, LenProperties
      <4>2. ~(n - 1 <= m /\ \A l \in 1 .. n - 1 : Frame.path[l] = c.path[l])
        BY <3>3, <3>5, <4>1, <1>2, <1>11, PrefixElements
      <4>3. ~(n <= m /\ \A l \in 1 .. n : q[l] = c.path[l])
        BY <4>2, <3>2
      <4>. QED
        BY <4>1, <4>3, <3>2, PrefixElements
    <3>. QED
      BY <3>4, <3>5, <1>5, <1>10 DEF q
  <2>2. ASSUME NEW c \in charges', c.entered, c.path = g.path
        PROVE  c.node = g.node
    BY <2>2, <1>2, <1>5, <1>10 DEF Clear
  <2>. QED
    BY <2>1, <2>2, <1>5 DEF Clear
<1>13. (\A i \in 1 .. n - 1 : Clear(stack[i], charges')) /\ NoneInside(charges')
  BY <1>1, <1>2, <1>10, ChargeTop
<1>14. /\ IsSequence(stack') /\ DOMAIN stack' = 1 .. n
       /\ \A i \in 1 .. n - 1 : stack'[i] = stack[i]
       /\ stack'[n] = g
  BY <1>1, <1>2, <1>3, <1>4, ReplaceLast DEF Outer
<1>15. ASSUME NEW i \in 1 .. n
       PROVE  FrameOK(stack'[i]) /\ Len(stack'[i].path) = i - 1 /\ Clear(stack'[i], charges')
  <2>1. CASE i = n
    BY <2>1, <1>2, <1>5, <1>9, <1>12, <1>14
  <2>2. CASE i # n
    <3>1. i \in 1 .. n - 1 /\ i \in DOMAIN stack
      BY <2>2, <1>2
    <3>2. FrameOK(stack[i]) /\ Len(stack[i].path) = i - 1
      BY <3>1 DEF WalkInv
    <3>. QED
      BY <3>1, <3>2, <1>13, <1>14
  <2>. QED
    BY <2>1, <2>2
<1>16. ASSUME NEW i \in 1 .. n, NEW j \in 1 .. n, i < j
       PROVE  Above(stack'[i], stack'[j])
  <2>1. Above(stack[i], stack[j])
    BY <1>2, <1>16 DEF WalkInv
  <2>2. i \in 1 .. n - 1 /\ (j = n \/ j \in 1 .. n - 1)
    BY <1>16
  <2>3. Above(stack[i], Frame) => Above(stack[i], g)
    BY <1>5 DEF Above
  <2>. QED
    BY <1>2, <1>14, <2>1, <2>2, <2>3
<1>17. stack' # <<>>
  <2>1. 1 \in DOMAIN stack'
    BY <1>14
  <2>. QED
    BY <2>1
<1>. QED
  BY <1>1, <1>11, <1>13, <1>14, <1>15, <1>16, <1>17 DEF WalkInv

\* The directory on top is left, and the one above it goes on.
LEMMA LeaveStep ==
  ASSUME WalkInv, phase = "walk", Outer # <<>>,
         NEW g, SamePlace(Last(Outer), g), g.left = Last(Outer).left,
         stack' = Append(Front(Outer), g), phase' = phase,
         \A c \in charges' : c.path \in Seq(NameSet),
         \A i \in 1 .. Len(stack) - 1 : Clear(stack[i], charges'),
         NoneInside(charges')
  PROVE  WalkInv'
<1>1. stack # <<>> /\ IsSequence(stack)
  BY DEF WalkInv
<1>2. PICK n \in Nat \ {0} : n = Len(stack) /\ DOMAIN stack = 1 .. n
  BY <1>1, TopFacts
<1>3. /\ IsSequence(Outer) /\ Len(Outer) = n - 1
      /\ \A i \in 1 .. n - 1 : Outer[i] = stack[i]
  <2>1. PICK S : stack \in Seq(S)
    BY <1>1 DEF IsSequence
  <2>. QED
    BY <2>1, <1>1, <1>2, DropLast DEF Outer, IsSequence
<1>4. PICK m \in Nat \ {0} : m = n - 1 /\ m = Len(Outer)
  BY <1>3, ReplaceLast
<1>5. /\ IsSequence(stack') /\ DOMAIN stack' = 1 .. m
      /\ \A i \in 1 .. m - 1 : stack'[i] = Outer[i]
      /\ stack'[m] = g
  <2>1. PICK s : s = Outer
    OBVIOUS
  <2>2. IsSequence(s) /\ s # <<>> /\ Len(s) = m /\ stack' = Append(Front(s), g)
    BY <2>1, <1>3, <1>4
  <2>3. /\ IsSequence(Append(Front(s), g)) /\ DOMAIN Append(Front(s), g) = 1 .. m
        /\ \A i \in 1 .. m - 1 : Append(Front(s), g)[i] = s[i]
        /\ Append(Front(s), g)[m] = g
    <3>1. PICK t : t = Append(Front(s), g)
      OBVIOUS
    <3>2. /\ IsSequence(t) /\ DOMAIN t = 1 .. Len(s)
          /\ \A i \in 1 .. Len(s) - 1 : t[i] = s[i]
          /\ t[Len(s)] = g
      <4>1. IsSequence(s) /\ s # <<>>
        BY <2>2
      <4>2. SetsLast(s, g, t)
        BY <3>1 DEF SetsLast
      <4>. QED
        BY <4>1, <4>2, Replaced
    <3>. QED
      BY <2>2, <3>1, <3>2
  <2>. QED
    BY <2>1, <2>2, <2>3
<1>6. /\ DOMAIN stack' = 1 .. m /\ stack'[m] = g /\ Last(Outer) = stack[m]
      /\ \A i \in 1 .. m - 1 : stack'[i] = stack[i]
      /\ \A i \in 1 .. m : i \in DOMAIN stack /\ Clear(stack[i], charges')
  BY <1>2, <1>3, <1>4, <1>5 DEF Last
<1>7. /\ FrameOK(stack[m]) /\ Len(stack[m].path) = m - 1 /\ Clear(stack[m], charges')
  BY <1>6 DEF WalkInv
<1>8. /\ FrameOK(g) /\ Clear(g, charges') /\ Len(g.path) = m - 1
      /\ \A h : Above(h, stack[m]) => Above(h, g)
  BY <1>6, <1>7, MovedOn DEF SamePlace
<1>9. ASSUME NEW i \in 1 .. m
      PROVE  FrameOK(stack'[i]) /\ Len(stack'[i].path) = i - 1 /\ Clear(stack'[i], charges')
  <2>1. CASE i = m
    BY <2>1, <1>6, <1>8
  <2>2. CASE i # m
    <3>1. i \in 1 .. m - 1
      BY <2>2
    <3>2. FrameOK(stack[i]) /\ Len(stack[i].path) = i - 1 /\ Clear(stack[i], charges')
      BY <1>6 DEF WalkInv
    <3>. QED
      BY <3>1, <3>2, <1>6
  <2>. QED
    BY <2>1, <2>2
<1>10. ASSUME NEW i \in 1 .. m, NEW j \in 1 .. m, i < j
       PROVE  Above(stack'[i], stack'[j])
  <2>1. Above(stack[i], stack[j])
    BY <1>6, <1>10 DEF WalkInv
  <2>2. i \in 1 .. m - 1 /\ (j = m \/ j \in 1 .. m - 1)
    BY <1>10
  <2>. QED
    BY <1>6, <1>8, <2>1, <2>2
<1>11. stack' # <<>>
  <2>1. m \in DOMAIN stack'
    BY <1>6
  <2>. QED
    BY <2>1
<1>. QED
  BY <1>5, <1>6, <1>9, <1>10, <1>11 DEF WalkInv

\* A directory is entered: it is none of those on the stack.
LEMMA EnterStep ==
  ASSUME WalkInv, NEW x \in Found, EnterDirectory(x)
  PROVE  WalkInv'
<1>1. /\ stack # <<>> /\ IsSequence(stack) /\ phase = "walk" /\ phase' = phase
      /\ Frame.ready /\ Frame.left # <<>> /\ Attr[x].kind = "dir" /\ charges' = charges
  BY DEF WalkInv, EnterDirectory, AtEntry, ghosts
<1>2. PICK n \in Nat \ {0} :
        /\ n = Len(stack) /\ DOMAIN stack = 1 .. n /\ Frame = stack[n] /\ FrameOK(Frame)
        /\ Len(Frame.path) = n - 1 /\ Clear(Frame, charges)
  BY <1>1, TopFacts
<1>3. PICK f : f = CountChild(Advance(Frame))
  OBVIOUS
<1>4. PICK path, mount, g : /\ path = EntryPath /\ g = NewFrame(path, x, mount)
                            /\ stack' = Append(Append(Outer, f), g)
  BY <1>3 DEF EnterDirectory
<1>5. SamePlace(Frame, f) /\ f.left = Tail(Frame.left)
  <2>1. Shape(Frame)
    BY <1>2 DEF FrameOK
  <2>2. SamePlace(Frame, Advance(Frame)) /\ Advance(Frame).left = Tail(Frame.left)
    BY <2>1, FiguresOnly
  <2>3. SamePlace(Advance(Frame), f) /\ f.left = Advance(Frame).left
    BY <1>3, <2>2, FiguresOnly DEF SamePlace
  <2>. QED
    BY <2>2, <2>3 DEF SamePlace
<1>6. /\ FrameOK(f) /\ Clear(f, charges) /\ Len(f.path) = n - 1
      /\ \A h : Above(h, Frame) => Above(h, f)
  BY <1>1, <1>2, <1>5, MovedOn DEF SamePlace
<1>7. /\ Shape(g) /\ g.path = EntryPath /\ g.node = x /\ g.listed = x
      /\ g.left = <<>> /\ ~g.ready
  BY <1>4, NewFrameFields
<1>8. /\ g.path \in Seq(NameSet) /\ Len(g.path) = n
      /\ \A k \in 1 .. n - 1 : g.path[k] = Frame.path[k]
      /\ g.path[n] = Head(Frame.left)
      /\ Head(Frame.left) \in DOMAIN Lookup[Frame.listed]
      /\ Head(Frame.left) = Frame.left[1] /\ Len(Frame.left) \in Nat \ {0}
  BY <1>1, <1>2, <1>7, EntryFacts DEF EntryPath
<1>9. IsDirectory(x)
  BY <1>1, <1>2, <1>8, FilesystemAssumption DEF Found, FrameOK, IsDirectory
<1>10. FrameOK(g)
  BY <1>7, <1>8, <1>9 DEF FrameOK
<1>11. Clear(g, charges)
  <2>1. ASSUME NEW c \in charges, c.entered
        PROVE  ~IsPrefix(g.path, c.path)
    <3>1. 1 \in 1 .. Len(Frame.left)
      BY <1>8
    <3>2. ~IsPrefix(Append(Frame.path, Frame.left[1]), c.path)
      BY <1>2, <2>1, <3>1 DEF Clear
    <3>. QED
      BY <3>2, <1>7, <1>8 DEF EntryPath
  <2>2. IsPrefix(g.path, g.path)
    BY <1>8, PrefixElements
  <2>. QED
    BY <2>1, <2>2, <1>7 DEF Clear
<1>12. \A i \in 1 .. n : stack[i].node # x
  BY <1>2 DEF EnterDirectory, MayEnter, ShouldDescend, DirectoryCycle
<1>13. Above(f, g)
  <2>1. \A k \in 1 .. Len(f.left) : f.left[k] # Head(Frame.left)
    <3>1. /\ Len(f.left) = Len(Frame.left) - 1
          /\ \A k \in 1 .. Len(f.left) : f.left[k] = Frame.left[k + 1]
      BY <1>1, <1>2, <1>5, HeadTailProperties DEF FrameOK
    <3>2. ASSUME NEW k \in 1 .. Len(f.left) PROVE f.left[k] # Frame.left[1]
      <4>1. k + 1 \in 1 .. Len(Frame.left) /\ 1 \in 1 .. Len(Frame.left) /\ k + 1 # 1
        BY <3>1, <1>8
      <4>. QED
        BY <4>1, <3>1, <1>2 DEF FrameOK
    <3>. QED
      BY <3>2, <1>8
  <2>2. f.ready /\ f.node # g.node /\ f.path = Frame.path
    BY <1>1, <1>2, <1>5, <1>7, <1>12 DEF SamePlace
  <2>3. Len(f.path) < Len(g.path) /\ Len(f.path) + 1 = n
    BY <1>6, <1>8
  <2>. QED
    BY <2>1, <2>2, <2>3, <1>6, <1>8 DEF Above
<1>14. ASSUME NEW i \in 1 .. n - 1
       PROVE  /\ FrameOK(stack[i]) /\ Len(stack[i].path) = i - 1
              /\ Clear(stack[i], charges)
              /\ Above(stack[i], f) /\ Above(stack[i], g)
  <2>1. i \in DOMAIN stack /\ n \in DOMAIN stack /\ i < n
    BY <1>2
  <2>2. /\ FrameOK(stack[i]) /\ Len(stack[i].path) = i - 1
        /\ Clear(stack[i], charges) /\ Above(stack[i], Frame)
    BY <2>1, <1>2 DEF WalkInv
  <2>3. Above(stack[i], g)
    <3>1. i - 1 < n /\ i \in 1 .. n - 1 /\ \A k \in 1 .. i - 1 : k \in 1 .. n - 1
      OBVIOUS
    <3>2. stack[i].node # g.node
      BY <2>1, <1>2, <1>7, <1>12
    <3>. QED
      BY <3>1, <3>2, <2>2, <1>8 DEF Above
  <2>. QED
    BY <2>2, <2>3, <1>6
<1>15. /\ IsSequence(stack') /\ DOMAIN stack' = 1 .. n + 1
       /\ \A i \in 1 .. n - 1 : stack'[i] = stack[i]
       /\ stack'[n] = f /\ stack'[n + 1] = g
  <2>1. PICK s : s = Append(Front(stack), f)
    OBVIOUS
  <2>2. /\ IsSequence(s) /\ Len(s) = n /\ s[n] = f
        /\ \A i \in 1 .. n - 1 : s[i] = stack[i]
    BY <2>1, <1>1, <1>2, ReplaceLast
  <2>3. stack' = Append(s, g)
    BY <2>1, <1>4 DEF Outer
  <2>4. /\ IsSequence(Append(s, g)) /\ DOMAIN Append(s, g) = 1 .. n + 1
        /\ \A i \in 1 .. n : Append(s, g)[i] = s[i]
        /\ Append(s, g)[n + 1] = g
    BY <2>2, AddLast
  <2>5. n \in 1 .. n /\ \A i \in 1 .. n - 1 : i \in 1 .. n
    OBVIOUS
  <2>. QED
    BY <2>2, <2>3, <2>4, <2>5
<1>16. ASSUME NEW i \in 1 .. n + 1
       PROVE  FrameOK(stack'[i]) /\ Len(stack'[i].path) = i - 1 /\ Clear(stack'[i], charges)
  <2>1. CASE i \in 1 .. n - 1
    BY <2>1, <1>14, <1>15
  <2>2. CASE i = n
    BY <2>2, <1>6, <1>15
  <2>3. CASE i = n + 1
    <3>1. Len(g.path) = i - 1
      BY <2>3, <1>8
    <3>. QED
      BY <3>1, <2>3, <1>10, <1>11, <1>15
  <2>. QED
    BY <2>1, <2>2, <2>3
<1>17. ASSUME NEW i \in 1 .. n + 1, NEW j \in 1 .. n + 1, i < j
       PROVE  Above(stack'[i], stack'[j])
  <2>1. CASE i \in 1 .. n - 1 /\ j \in 1 .. n - 1
    <3>1. stack'[i] = stack[i] /\ stack'[j] = stack[j]
      BY <2>1, <1>15
    <3>2. i \in DOMAIN stack /\ j \in DOMAIN stack
      BY <2>1, <1>2
    <3>3. Above(stack[i], stack[j])
      BY <3>2, <1>17 DEF WalkInv
    <3>. QED
      BY <3>1, <3>3
  <2>2. CASE i \in 1 .. n - 1 /\ j \in {n, n + 1}
    BY <2>2, <1>14, <1>15
  <2>3. CASE i = n /\ j = n + 1
    BY <2>3, <1>13, <1>15
  <2>. QED
    BY <1>17, <2>1, <2>2, <2>3
<1>18. stack' # <<>>
  <2>1. n \in DOMAIN stack'
    BY <1>15
  <2>. QED
    BY <2>1
<1>19. NoneInside(charges) /\ \A c \in charges : c.path \in Seq(NameSet)
  BY DEF WalkInv
<1>. QED
  BY <1>1, <1>15, <1>16, <1>17, <1>18, <1>19 DEF WalkInv

\* The frames that processing an entry leaves on top.
LEMMA EntryFrames ==
  ASSUME NEW f, Shape(f), NEW row, NEW usage
  PROVE  /\ \A g \in {MergeChild(Noticed(Advance(f)), row, 0), Noticed(Advance(f)),
                      [Noticed(Advance(f)) EXCEPT !.error = TRUE],
                      Noticed(CountChild(Advance(f))),
                      MergeChild(Noticed(CountChild(Advance(f))), row, 0),
                      [Advance(f) EXCEPT !.usage = usage]} :
              SamePlace(f, g) /\ g.left = Tail(f.left)
         /\ \A g : g = [Noticed(f) EXCEPT !.usage = usage, !.error = TRUE, !.left = <<>>] =>
              SamePlace(f, g) /\ g.left = <<>>
<1>1. PICK a : a = Advance(f) /\ SamePlace(f, a) /\ a.left = Tail(f.left)
  BY FiguresOnly
<1>2. PICK b : b = Noticed(a) /\ SamePlace(f, b) /\ b.left = Tail(f.left)
  BY <1>1, FiguresOnly DEF SamePlace
<1>3. PICK c : c = CountChild(a) /\ SamePlace(f, c) /\ c.left = Tail(f.left)
  BY <1>1, FiguresOnly DEF SamePlace
<1>4. PICK d : d = Noticed(c) /\ SamePlace(f, d) /\ d.left = Tail(f.left)
  BY <1>3, FiguresOnly DEF SamePlace
<1>5. /\ SamePlace(f, MergeChild(b, row, 0)) /\ MergeChild(b, row, 0).left = Tail(f.left)
      /\ SamePlace(f, MergeChild(d, row, 0)) /\ MergeChild(d, row, 0).left = Tail(f.left)
  BY <1>2, <1>4, MergesOnly DEF SamePlace
<1>6. ASSUME NEW g, g = [b EXCEPT !.error = TRUE]
      PROVE  SamePlace(f, g) /\ g.left = Tail(f.left)
  BY <1>2, <1>6 DEF SamePlace, Shape, FrameFields
<1>7. ASSUME NEW g, g = [a EXCEPT !.usage = usage]
      PROVE  SamePlace(f, g) /\ g.left = Tail(f.left)
  BY <1>1, <1>7 DEF SamePlace, Shape, FrameFields
<1>8. PICK e : e = Noticed(f) /\ SamePlace(f, e)
  BY FiguresOnly
<1>9. ASSUME NEW g, g = [e EXCEPT !.usage = usage, !.error = TRUE, !.left = <<>>]
      PROVE  SamePlace(f, g) /\ g.left = <<>>
  BY <1>8, <1>9 DEF SamePlace, Shape, FrameFields
<1>. QED
  BY <1>1, <1>2, <1>3, <1>4, <1>5, <1>6, <1>7, <1>8, <1>9

\* Frame f has skipped an entry: it has merged the placeholder row or not, and
\* counted a child or not.
SkipsTo(f, row, g) ==
  g \in {MergeChild(Noticed(Advance(f)), row, 0), Noticed(Advance(f)),
         Noticed(CountChild(Advance(f))),
         MergeChild(Noticed(CountChild(Advance(f))), row, 0)}

\* Skipping an entry leaves a frame where it is, one entry further.
LEMMA SkippedFrames ==
  ASSUME NEW f, Shape(f), NEW row, NEW g, SkipsTo(f, row, g)
  PROVE  SamePlace(f, g) /\ g.left = Tail(f.left)
<1>1. PICK a : a = Advance(f) /\ SamePlace(f, a) /\ a.left = Tail(f.left)
  BY FiguresOnly
<1>2. PICK b : b = Noticed(a) /\ SamePlace(f, b) /\ b.left = Tail(f.left)
  BY <1>1, FiguresOnly DEF SamePlace
<1>3. PICK c : c = CountChild(a) /\ SamePlace(f, c) /\ c.left = Tail(f.left)
  BY <1>1, FiguresOnly DEF SamePlace
<1>4. PICK d : d = Noticed(c) /\ SamePlace(f, d) /\ d.left = Tail(f.left)
  BY <1>3, FiguresOnly DEF SamePlace
<1>5. PICK e : e = MergeChild(b, row, 0) /\ SamePlace(f, e) /\ e.left = Tail(f.left)
  BY <1>2, MergesOnly DEF SamePlace
<1>6. PICK h : h = MergeChild(d, row, 0) /\ SamePlace(f, h) /\ h.left = Tail(f.left)
  BY <1>4, MergesOnly DEF SamePlace
<1>7. g \in {e, b, d, h}
  BY <1>1, <1>2, <1>3, <1>4, <1>5, <1>6 DEF SkipsTo
<1>. QED
  BY <1>2, <1>4, <1>5, <1>6, <1>7

\* The steps that deal with an entry and do not enter it.
LEMMA PassStep ==
  ASSUME WalkInv, NEW x,
         \/ ExcludedDirectory(x) \/ SkipDirectory(x) \/ CountFile(x) \/ HardlinkLimit(x)
         \/ ExcludedOther \/ \E missing \in BOOLEAN : EntryFails(missing)
  PROVE  WalkInv'
<1>. USE DEF AtEntry, SetTop
<1>1. /\ phase = "walk" /\ phase' = phase /\ Frame.left # <<>>
  BY DEF ExcludedDirectory, SkipDirectory, CountFile, HardlinkLimit, ExcludedOther, EntryFails
<1>2. stack # <<>>
  BY <1>1 DEF WalkInv
<1>3. FrameOK(Frame) /\ Shape(Frame)
  BY <1>2, TopFacts DEF FrameOK
<1>4. EntryPath \in Seq(NameSet)
  BY <1>1, <1>3, EntryFacts DEF EntryPath
<1>5. \A c \in charges' : c \in charges \/ (~c.entered /\ c.path \in Seq(NameSet))
  BY <1>4 DEF ExcludedDirectory, SkipDirectory, CountFile, HardlinkLimit, ExcludedOther,
              EntryFails, Charge
<1>6. PICK f : f = Frame /\ Shape(f)
  BY <1>3
<1>7. PICK g : /\ stack' = Append(Outer, g) /\ SamePlace(f, g)
               /\ g.left \in {Tail(f.left), <<>>}
  <2>1. CASE ExcludedDirectory(x) \/ SkipDirectory(x) \/ ExcludedOther
    <3>1. PICK row : row = SkippedRow(EntryPath)
      OBVIOUS
    <3>2. \E g \in {MergeChild(Noticed(Advance(f)), row, 0), Noticed(Advance(f)),
                    Noticed(CountChild(Advance(f))),
                    MergeChild(Noticed(CountChild(Advance(f))), row, 0)} :
            stack' = Append(Outer, g)
      BY <2>1, <3>1, <1>6 DEF ExcludedDirectory, SkipDirectory, ExcludedOther
    <3>3. PICK g \in {MergeChild(Noticed(Advance(f)), row, 0), Noticed(Advance(f)),
                     Noticed(CountChild(Advance(f))),
                     MergeChild(Noticed(CountChild(Advance(f))), row, 0)} :
            stack' = Append(Outer, g)
      BY <3>2
    <3>4. SkipsTo(f, row, g)
      BY <3>3 DEF SkipsTo
    <3>5. SamePlace(f, g) /\ g.left = Tail(f.left)
      BY <3>4, <1>6, SkippedFrames
    <3>. QED
      BY <3>3, <3>5
  <2>2. CASE \E missing \in BOOLEAN : EntryFails(missing)
    <3>1. PICK g : g = [Noticed(Advance(f)) EXCEPT !.error = TRUE]
      OBVIOUS
    <3>2. SamePlace(f, g) /\ g.left = Tail(f.left)
      BY <3>1, <1>6, EntryFrames
    <3>3. stack' = Append(Outer, g)
      BY <2>2, <3>1, <1>6 DEF EntryFails
    <3>. QED
      BY <3>2, <3>3
  <2>3. CASE CountFile(x)
    <3>1. PICK usage : usage = Plus(Advance(f).usage, FileUsage(x))
      OBVIOUS
    <3>2. PICK g : g = [Advance(f) EXCEPT !.usage = usage]
      OBVIOUS
    <3>3. SamePlace(f, g) /\ g.left = Tail(f.left)
      BY <3>2, <1>6, EntryFrames
    <3>4. stack' = Append(Outer, g)
      BY <2>3, <3>1, <3>2, <1>6 DEF CountFile
    <3>. QED
      BY <3>3, <3>4
  <2>4. CASE HardlinkLimit(x)
    <3>1. PICK usage : usage = Plus(Noticed(f).usage, FileBase(x))
      OBVIOUS
    <3>2. PICK g : g = [Noticed(f) EXCEPT !.usage = usage, !.error = TRUE, !.left = <<>>]
      OBVIOUS
    <3>3. SamePlace(f, g) /\ g.left = <<>>
      BY <3>2, <1>6, EntryFrames
    <3>4. stack' = Append(Outer, g)
      BY <2>4, <3>1, <3>2, <1>6 DEF HardlinkLimit
    <3>. QED
      BY <3>3, <3>4
  <2>. QED
    BY <2>1, <2>2, <2>3, <2>4
<1>. QED
  BY <1>1, <1>5, <1>6, <1>7, EntryStep

\* The steps that leave the directory on top for the one above it.
LEMMA ReturnStep ==
  ASSUME WalkInv,
         \/ FinishFrame /\ Outer # <<>>
         \/ \E missing \in BOOLEAN : ListFails(missing)
  PROVE  WalkInv'
<1>1. stack # <<>> /\ phase = "walk"
  BY DEF WalkInv, FinishFrame, ListFails
<1>2. PICK n \in Nat \ {0} :
        /\ n = Len(stack) /\ DOMAIN stack = 1 .. n /\ FrameOK(Frame)
        /\ Len(Frame.path) = n - 1
  BY <1>1, TopFacts
<1>3. PICK S : stack \in Seq(S)
  BY DEF WalkInv, IsSequence
<1>4. Outer \in Seq(S) /\ Len(Outer) = n - 1 /\ \A i \in 1 .. n - 1 : Outer[i] = stack[i]
  BY <1>1, <1>2, <1>3, DropLast DEF Outer
<1>5. Outer # <<>>
  <2>1. CASE \E missing \in BOOLEAN : ListFails(missing)
    <3>1. Frame.path # <<>> /\ Frame.path \in Seq(NameSet)
      BY <2>1, <1>2 DEF ListFails, FrameOK
    <3>2. n - 1 # 0
      BY <3>1, <1>2, EmptySeq
    <3>. QED
      BY <3>2, <1>4
  <2>. QED
    BY <2>1
<1>6. n - 1 \in DOMAIN stack /\ Last(Outer) = stack[n - 1]
  <2>1. n - 1 # 0
    BY <1>4, <1>5, EmptySeq
  <2>2. n - 1 \in 1 .. n - 1
    BY <2>1
  <2>. QED
    BY <2>2, <1>2, <1>4 DEF Last
<1>7. Shape(Last(Outer))
  BY <1>6 DEF WalkInv, FrameOK
<1>8. PICK row, evidence : /\ stack' = Append(Front(Outer), MergeChild(Last(Outer), row, evidence))
                           /\ phase' = phase
  BY <1>5 DEF FinishFrame, ListFails
<1>9. PICK f : f = Last(Outer)
  OBVIOUS
<1>10. PICK g : /\ g = MergeChild(f, row, evidence)
                /\ SamePlace(f, g) /\ g.left = f.left
  BY <1>7, <1>9, MergesOnly
<1>11. /\ \A c \in charges' : c.path \in Seq(NameSet)
       /\ \A i \in 1 .. Len(stack) - 1 : Clear(stack[i], charges')
       /\ NoneInside(charges')
  <2>1. CASE charges' = charges
    <3>1. \A i \in 1 .. Len(stack) - 1 : i \in DOMAIN stack
      BY <1>2
    <3>. QED
      BY <2>1, <3>1 DEF WalkInv
  <2>2. ASSUME NEW missing \in BOOLEAN, ListFails(missing)
        PROVE  /\ \A c \in charges' : c.path \in Seq(NameSet)
               /\ \A i \in 1 .. Len(stack) - 1 : Clear(stack[i], charges')
               /\ NoneInside(charges')
    <3>1. PICK d : d = [path |-> Frame.path, node |-> Frame.node,
                        usage |-> AsDirectory(DirUsage(Frame.node)), entered |-> TRUE]
      OBVIOUS
    <3>2. charges' = charges \union {d} /\ ~Frame.ready
      BY <2>2, <3>1 DEF ListFails, Charge
    <3>3. d.path = Frame.path /\ d.node = Frame.node
      BY <3>1
    <3>4. d.path \in Seq(NameSet) /\ \A c \in charges : c.path \in Seq(NameSet)
      BY <3>3, <1>2 DEF FrameOK, WalkInv
    <3>. QED
      BY <3>2, <3>3, <3>4, <1>1, ChargeTop
  <2>. QED
    BY <2>1, <2>2 DEF FinishFrame, ghosts
<1>. QED
  BY <1>1, <1>5, <1>8, <1>9, <1>10, <1>11, LeaveStep

\* The invariant of the walk holds of every scan.
THEOREM WalkInvariance == Spec => []WalkInv
<1>1. Init => WalkInv
  <2>. SUFFICES ASSUME Init PROVE WalkInv
    OBVIOUS
  <2>1. <<>> \in Seq({}) /\ DOMAIN <<>> = {}
    OBVIOUS
  <2>. QED
    BY <2>1 DEF Init, WalkInv, IsSequence, NoneInside
<1>2. WalkInv /\ [Next]_vars => WalkInv'
  <2>. SUFFICES ASSUME WalkInv, [Next]_vars
                PROVE  WalkInv'
    OBVIOUS
  <2>1. CASE UNCHANGED vars
    BY <2>1 DEF vars, WalkInv
  <2>2. CASE RootAccepted
    <3>1. PICK f, mount : f = NewFrame(<<>>, Root, mount) /\ stack' = <<f>>
      BY <2>2 DEF RootAccepted
    <3>2. /\ Shape(f) /\ f.path = <<>> /\ f.node = Root /\ f.listed = Root
          /\ f.left = <<>> /\ ~f.ready
      BY <3>1, NewFrameFields
    <3>3. charges' = {} /\ phase' = "walk"
      BY <2>2 DEF RootAccepted, WalkInv, ghosts
    <3>4. stack' \in Seq({f}) /\ DOMAIN stack' = {1} /\ stack'[1] = f /\ stack' # <<>>
      BY <3>1
    <3>5. FrameOK(f) /\ Len(f.path) = 0
      BY <3>2, FilesystemAssumption DEF FrameOK, IsDirectory
    <3>. QED
      BY <3>3, <3>4, <3>5 DEF WalkInv, IsSequence, NoneInside, Clear
  <2>3. CASE RootRejected
    BY <2>3 DEF RootRejected, WalkInv, ghosts
  <2>4. CASE ListRootFails \/ (FinishFrame /\ Outer = <<>>)
    <3>1. stack' = <<>> /\ phase' = "done" /\ charges' = charges
      BY <2>4 DEF ListRootFails, FinishFrame, ghosts
    <3>2. <<>> \in Seq({}) /\ DOMAIN <<>> = {}
      OBVIOUS
    <3>. QED
      BY <3>1, <3>2 DEF WalkInv, IsSequence
  <2>. QED
    BY <2>1, <2>2, <2>3, <2>4, ListStep, EnterStep, PassStep, ReturnStep DEF Next, Entry
<1>. QED
  BY <1>1, <1>2, PTL DEF Spec

\* On every filesystem, mount table and configuration, whatever happens while it
\* runs, a scan never enters a directory below itself: should_descend compares
\* with all frames of the stack, and these are the ancestors of the entry.
THEOREM NoCycles == Spec => []NoDirectoryTwice
<1>1. WalkInv => NoDirectoryTwice
  BY DEF WalkInv, NoneInside, NoDirectoryTwice
<1>. QED
  BY <1>1, WalkInvariance, PTL

--------------------------------------------------------------------------------
(* The inductive invariant *)

\* The paths a charge, a row or a problem has been noted for.
Visited ==
  {c.path : c \in charges} \union {rows[i].path : i \in DOMAIN rows} \union problems

\* None of the paths is where frame f still has to go.
Fresh(f, paths) ==
  /\ ~f.ready => \A p \in paths : ~IsPrefix(f.path, p)
  /\ \A k \in 1 .. Len(f.left) : \A p \in paths : ~IsPrefix(Append(f.path, f.left[k]), p)

Usages == [Measures -> Int]

PlaceInv ==
  /\ setup \in Setups
  /\ IsSequence(rows)
  /\ \A p \in Visited : p \in Seq(NameSet)
  /\ \A j \in DOMAIN stack : stack[j].usage \in Usages /\ stack[j].evidence \in Nat
  /\ \A j \in DOMAIN stack : Fresh(stack[j], Visited)
  /\ \A i \in DOMAIN rows, j \in DOMAIN stack : rows[i].path # stack[j].path
  /\ phase = "prepare" => charges = {} /\ problems = {} /\ rows = <<>>
  /\ phase # "walk" => stack = <<>>

\* With rows r and frames s, path has an expanded row, or will have when its
\* frame is left.
KeepsRow(r, s, path) ==
  \/ \E j \in DOMAIN r : r[j].path = path /\ ~r[j].collapsed
  \/ \E j \in DOMAIN s : s[j].path = path /\ s[j].ready

\* The rows after rowStart are the ones below frame f.
StartsRows(r, f) ==
  /\ f.rowStart \in 0 .. Len(r)
  /\ \A i \in 1 .. Len(r) : IsPrefix(f.path, r[i].path) <=> i > f.rowStart

TreeInv ==
  /\ \A i, j \in DOMAIN rows : rows[i].path = rows[j].path => i = j
  /\ \A i \in DOMAIN rows : rows[i].path # <<>> => KeepsRow(rows, stack, Front(rows[i].path))
  /\ \A j \in DOMAIN stack : stack[j].ready => StartsRows(rows, stack[j])
  /\ Scanned => rows # <<>> /\ Last(rows).path = <<>>

\* path is protected under configuration s.
Guarded(s, path) == \E x \in s.never : IsPrefix(x, path) \/ IsPrefix(path, x)

ProtectedInv ==
  /\ \A c \in charges : c.usage["dirs"] = 1 /\ Guarded(setup, c.path)
                          => KeepsRow(rows, stack, c.path)
  /\ \A j \in DOMAIN stack :
       stack[j].ready /\ stack[j].collapse # "none" => ~Guarded(setup, stack[j].path)

\* Path q belongs to the j-th frame of s: it is below it, and not below the next.
Belongs(s, j, q) ==
  /\ IsPrefix(s[j].path, q)
  /\ j < Len(s) => ~IsPrefix(s[j + 1].path, q)

\* The items counted at a path and below, and those that belong to a frame.
Inside(items, path) == {c \in items : IsPrefix(path, c.path)}
Share(s, items, j) == {c \in items : Belongs(s, j, c.path)}

Itself(m) == IF m = "dirs" THEN 1 ELSE 0

SumInv ==
  /\ IsFiniteSet(charges)
  /\ \A c \in charges : c.usage \in Usages
  /\ \A j \in DOMAIN stack : stack[j].ready => \A m \in Measures :
       stack[j].usage[m] = Total(m, Share(stack, charges, j)) - Itself(m)
  /\ \A i \in DOMAIN rows : \A m \in Measures :
       rows[i].usage[m] = Total(m, Inside(charges, rows[i].path)) - Itself(m)

\* The paths noted at a path and below, and those that belong to a frame.
NotedIn(paths, path) == {q \in paths : IsPrefix(path, q)}
NotedOf(s, paths, j) == {q \in paths : Belongs(s, j, q)}

EvidenceInv ==
  /\ IsFiniteSet(problems)
  /\ \A j \in DOMAIN stack : stack[j].evidence = Cardinality(NotedOf(stack, problems, j))
  /\ \A i \in DOMAIN rows : rows[i].collapsed =>
       rows[i].evidence = Cardinality(NotedIn(problems, rows[i].path))

\* The links among items, and their inodes.
LinksOf(items) == {c \in items : IsHardlink(c.node)}
NodesOf(items) == {c.node : c \in items}

Blocks == [n \in Nodes |-> Attr[n].blocks]

LinkInv ==
  /\ IsFiniteSet(seenInodes) /\ seenInodes \subseteq Nodes
  /\ hadFailure # TRUE =>
       /\ seenInodes = NodesOf(LinksOf(charges))
       /\ Total("disk", LinksOf(charges)) = SumFunctionOnSet(Blocks, seenInodes)

--------------------------------------------------------------------------------
(* Figures of frames *)

\* g is a later state of frame f: it starts at the same row, and it has not come
\* to be collapsed if it is protected.
Carries(f, g) ==
  /\ SamePlace(f, g)
  /\ g.rowStart = f.rowStart
  /\ g.collapse = f.collapse \/ ~IsProtectedPath(f.path)

\* What the helpers do to the figures of a frame.
LEMMA HelperFigures ==
  ASSUME NEW f, Shape(f), NEW row, NEW evidence
  PROVE  /\ LET g == Advance(f)
            IN  Carries(f, g) /\ g.usage = f.usage /\ g.evidence = f.evidence
         /\ LET g == Noticed(f)
            IN  Carries(f, g) /\ g.usage = f.usage /\ g.evidence = f.evidence + 1
         /\ LET g == CountChild(f)
            IN  Carries(f, g) /\ g.usage = f.usage /\ g.evidence = f.evidence
         /\ LET g == MergeChild(f, row, evidence)
            IN  /\ Carries(f, g)
                /\ g.usage = WithChild(f.usage, row.usage)
                /\ g.evidence = f.evidence + evidence
<1>. USE DEF Shape, FrameFields
<1>0. /\ SamePlace(f, Advance(f)) /\ SamePlace(f, Noticed(f))
      /\ SamePlace(f, CountChild(f)) /\ SamePlace(f, MergeChild(f, row, evidence))
  BY FiguresOnly, MergesOnly
<1>1. ASSUME NEW g, g = Advance(f)
      PROVE  /\ g.usage = f.usage /\ g.evidence = f.evidence
             /\ g.rowStart = f.rowStart /\ g.collapse = f.collapse
  BY <1>1 DEF Advance
<1>2. ASSUME NEW g, g = Noticed(f)
      PROVE  /\ g.usage = f.usage /\ g.evidence = f.evidence + 1
             /\ g.rowStart = f.rowStart /\ g.collapse = f.collapse
  BY <1>2 DEF Noticed
<1>3. ASSUME NEW g, g = CountChild(f)
      PROVE  /\ g.usage = f.usage /\ g.evidence = f.evidence
             /\ g.rowStart = f.rowStart
             /\ g.collapse = f.collapse \/ ~IsProtectedPath(f.path)
  BY <1>3 DEF CountChild
<1>4. ASSUME NEW g, g = MergeChild(f, row, evidence)
      PROVE  /\ g.usage = WithChild(f.usage, row.usage)
             /\ g.evidence = f.evidence + evidence
             /\ g.rowStart = f.rowStart /\ g.collapse = f.collapse
  BY <1>4 DEF MergeChild
<1>. QED
  BY <1>0, <1>1, <1>2, <1>3, <1>4 DEF Carries

\* Later states add up.
LEMMA CarriesOn ==
  ASSUME NEW f, NEW g, NEW h, Carries(f, g), Carries(g, h)
  PROVE  Carries(f, h)
BY DEF Carries, SamePlace

\* The usage of a file, a directory and a skipped directory.
LEMMA UsageTypes ==
  ASSUME NEW n \in Nodes
  PROVE  /\ Zero \in Usages /\ DirUsage(n) \in Usages /\ FileUsage(n) \in Usages
         /\ FileBase(n) \in Usages
         /\ FileUsage(n)["dirs"] = 0 /\ FileBase(n)["dirs"] = 0
         /\ AsDirectory(DirUsage(n)) \in Usages /\ AsDirectory(Zero) \in Usages
         /\ \A m \in Measures : /\ DirUsage(n)[m] = AsDirectory(DirUsage(n))[m] - Itself(m)
                                /\ Zero[m] = AsDirectory(Zero)[m] - Itself(m)
<1>. USE DEF Usages, Measures, Zero, Itself
<1>1. Attr[n].size \in Int /\ Attr[n].blocks \in Int
  BY FilesystemAssumption
<1>2. DirUsage(n) \in Usages /\ AsDirectory(DirUsage(n)) \in Usages
  BY <1>1 DEF DirUsage, AsDirectory
<1>3. FileSize(n) \in Int /\ FileDisk(n) \in Int
  BY <1>1 DEF FileSize, FileDisk
<1>4. FileBase(n) \in Usages /\ FileBase(n)["dirs"] = 0
  BY <1>3 DEF FileBase
<1>5. FileUsage(n) \in Usages /\ FileUsage(n)["dirs"] = 0
  BY <1>3, <1>4 DEF FileUsage
<1>6. AsDirectory(Zero) \in Usages
  BY DEF AsDirectory
<1>7. \A m \in Measures : Zero[m] = AsDirectory(Zero)[m] - Itself(m)
  BY DEF AsDirectory
<1>8. \A m \in Measures : DirUsage(n)[m] = AsDirectory(DirUsage(n))[m] - Itself(m)
  BY <1>1 DEF AsDirectory, DirUsage
<1>. QED
  BY <1>2, <1>4, <1>5, <1>6, <1>7, <1>8

--------------------------------------------------------------------------------
(* The steps of the walk *)

\* f is the frame on top of the stack, the n-th.
OnTop(n, f) ==
  /\ n \in Nat \ {0} /\ n = Len(stack) /\ DOMAIN stack = 1 .. n
  /\ stack[n] = f /\ FrameOK(f) /\ Len(f.path) = n - 1
  /\ f.usage \in Usages /\ f.evidence \in Nat

\* The n-th frame becomes g, and it stays on top.
StaysAs(n, g) ==
  /\ DOMAIN stack' = 1 .. n /\ Len(stack') = n
  /\ \A i \in 1 .. n - 1 : stack'[i] = stack[i]
  /\ stack'[n] = g

\* What a step may count at path p, so that frame f becomes g.
CountsAt(f, g, p) ==
  \/ charges' = charges /\ rows' = rows /\ g.usage = f.usage
  \/ \E c : /\ charges' = charges \union {c} /\ c.path = p
            /\ c.usage \in Usages /\ c.usage["dirs"] = 0
            /\ rows' = rows
            /\ g.usage = Plus(f.usage, c.usage)
  \/ \E c : /\ charges' = charges \union {c} /\ c.path = p
            /\ c.usage = AsDirectory(Zero)
            /\ rows' = Append(rows, SkippedRow(p))
            /\ g.usage = WithChild(f.usage, Zero)

\* The problem a step may note at path p.
NotesAt(f, g, p) ==
  \/ problems' = problems /\ g.evidence = f.evidence
  \/ problems' = problems \union {p} /\ g.evidence = f.evidence + 1

\* An entry is dealt with and not entered.
Passes(n, f, g, p) ==
  /\ OnTop(n, f) /\ f.ready /\ f.left # <<>> /\ p = Append(f.path, Head(f.left))
  /\ StaysAs(n, g) /\ Carries(f, g) /\ g.left \in {Tail(f.left), <<>>}
  /\ CountsAt(f, g, p) /\ NotesAt(f, g, p)
  /\ setup' = setup /\ phase = "walk" /\ phase' = phase /\ status' = status

\* The frame on top of the stack.
LEMMA TopFrame ==
  ASSUME WalkInv, PlaceInv, stack # <<>>
  PROVE  \E n : OnTop(n, Frame) /\ Clear(Frame, charges)
<1>1. PICK n \in Nat \ {0} :
        /\ n = Len(stack) /\ DOMAIN stack = 1 .. n
        /\ Frame = stack[n] /\ FrameOK(Frame)
        /\ Len(Frame.path) = n - 1 /\ Clear(Frame, charges)
  BY TopFacts
<1>2. n \in DOMAIN stack
  BY <1>1
<1>3. stack[n].usage \in Usages /\ stack[n].evidence \in Nat
  BY <1>2 DEF PlaceInv
<1>. QED
  BY <1>1, <1>3 DEF OnTop

\* The entry of a directory is an inode.
LEMMA FoundNodes ==
  ASSUME WalkInv, AtEntry, NEW x \in Found
  PROVE  x \in Nodes
<1>1. stack # <<>> /\ Frame.left # <<>>
  BY DEF WalkInv, AtEntry
<1>2. FrameOK(Frame)
  BY <1>1, TopFacts
<1>3. Head(Frame.left) \in DOMAIN Lookup[Frame.listed]
  BY <1>1, <1>2, EntryFacts
<1>. QED
  BY <1>2, <1>3, FilesystemAssumption DEF Found, FrameOK, IsDirectory

\* The figures of the frames that processing an entry leaves on top.
LEMMA EntryFigures ==
  ASSUME NEW f, Shape(f), f.evidence \in Nat, NEW p
  PROVE  /\ \A g : g \in {MergeChild(Noticed(Advance(f)), SkippedRow(p), 0),
                         MergeChild(Noticed(CountChild(Advance(f))), SkippedRow(p), 0)} =>
              /\ Carries(f, g) /\ g.usage = WithChild(f.usage, Zero)
              /\ g.evidence = f.evidence + 1
         /\ \A g : g \in {Noticed(Advance(f)), Noticed(CountChild(Advance(f)))} =>
              Carries(f, g) /\ g.usage = f.usage /\ g.evidence = f.evidence + 1
         /\ \A g : g = [Noticed(Advance(f)) EXCEPT !.error = TRUE] =>
              Carries(f, g) /\ g.usage = f.usage /\ g.evidence = f.evidence + 1
<1>1. PICK a : /\ a = Advance(f) /\ Shape(a) /\ Carries(f, a)
               /\ a.usage = f.usage /\ a.evidence = f.evidence
  BY HelperFigures DEF Carries, SamePlace
<1>2. PICK b : /\ b = Noticed(a) /\ Shape(b) /\ Carries(f, b)
               /\ b.usage = f.usage /\ b.evidence = f.evidence + 1
  BY <1>1, HelperFigures, CarriesOn DEF Carries, SamePlace
<1>3. PICK c : /\ c = CountChild(a) /\ Shape(c) /\ Carries(f, c)
               /\ c.usage = f.usage /\ c.evidence = f.evidence
  BY <1>1, HelperFigures, CarriesOn DEF Carries, SamePlace
<1>4. PICK d : /\ d = Noticed(c) /\ Shape(d) /\ Carries(f, d)
               /\ d.usage = f.usage /\ d.evidence = f.evidence + 1
  BY <1>3, HelperFigures, CarriesOn DEF Carries, SamePlace
<1>5. SkippedRow(p).usage = Zero
  BY DEF SkippedRow
<1>6. ASSUME NEW e \in {b, d}, NEW g, g = MergeChild(e, SkippedRow(p), 0)
      PROVE  /\ Carries(f, g) /\ g.usage = WithChild(f.usage, Zero)
             /\ g.evidence = f.evidence + 1
  <2>1. Shape(e) /\ Carries(f, e) /\ e.usage = f.usage /\ e.evidence = f.evidence + 1
    BY <1>2, <1>4
  <2>2. /\ Carries(e, g) /\ g.usage = WithChild(e.usage, Zero)
        /\ g.evidence = e.evidence + 0
    BY <1>5, <1>6, <2>1, HelperFigures
  <2>. QED
    BY <2>1, <2>2, CarriesOn
<1>7. ASSUME NEW g, g = [b EXCEPT !.error = TRUE]
      PROVE  Carries(b, g) /\ g.usage = b.usage /\ g.evidence = b.evidence
  BY <1>2, <1>7 DEF Carries, SamePlace, Shape, FrameFields
<1>8. \A g : g = [b EXCEPT !.error = TRUE] =>
        Carries(f, g) /\ g.usage = f.usage /\ g.evidence = f.evidence + 1
  BY <1>2, <1>7, CarriesOn
<1>. QED
  BY <1>1, <1>2, <1>3, <1>4, <1>6, <1>8

\* Frame f when it has counted a file, and when it has given up its directory.
Counted(f, usage) == [Advance(f) EXCEPT !.usage = usage]
GivenUp(f, usage) == [Noticed(f) EXCEPT !.usage = usage, !.error = TRUE, !.left = <<>>]

\* The figures of a frame that has counted a file.
LEMMA CountedFigures ==
  ASSUME NEW f, Shape(f), NEW usage, NEW g, g = Counted(f, usage)
  PROVE  Carries(f, g) /\ g.usage = usage /\ g.evidence = f.evidence
<1>1. PICK a : a = Advance(f) /\ Shape(a) /\ Carries(f, a) /\ a.evidence = f.evidence
  BY HelperFigures DEF Carries, SamePlace
<1>2. g = [a EXCEPT !.usage = usage]
  BY <1>1 DEF Counted
<1>3. Carries(a, g) /\ g.usage = usage /\ g.evidence = a.evidence
  BY <1>1, <1>2 DEF Carries, SamePlace, Shape, FrameFields
<1>. QED
  BY <1>1, <1>3, CarriesOn

\* The figures of a frame that has given up the rest of its directory.
LEMMA GivenUpFigures ==
  ASSUME NEW f, Shape(f), f.evidence \in Nat, NEW usage, NEW g, g = GivenUp(f, usage)
  PROVE  Carries(f, g) /\ g.usage = usage /\ g.evidence = f.evidence + 1
<1>1. PICK a : a = Noticed(f) /\ Shape(a) /\ Carries(f, a) /\ a.evidence = f.evidence + 1
  BY HelperFigures DEF Carries, SamePlace
<1>2. g = [a EXCEPT !.usage = usage, !.error = TRUE, !.left = <<>>]
  BY <1>1 DEF GivenUp
<1>3. Carries(a, g) /\ g.usage = usage /\ g.evidence = a.evidence
  BY <1>1, <1>2 DEF Carries, SamePlace, Shape, FrameFields
<1>. QED
  BY <1>1, <1>3, CarriesOn

\* The steps that deal with an entry and do not enter it.
LEMMA PassFacts ==
  ASSUME WalkInv, PlaceInv, NEW x \in Nodes,
         \/ ExcludedDirectory(x) \/ SkipDirectory(x) \/ CountFile(x) \/ HardlinkLimit(x)
         \/ ExcludedOther \/ \E missing \in BOOLEAN : EntryFails(missing)
  PROVE  \E n, f, g, p : Passes(n, f, g, p) /\ f = Frame /\ p = EntryPath
<1>. USE DEF AtEntry, SetTop
<1>1. /\ phase = "walk" /\ phase' = phase /\ Frame.ready /\ Frame.left # <<>>
      /\ setup' = setup /\ status' = status
  BY DEF ExcludedDirectory, SkipDirectory, CountFile, HardlinkLimit, ExcludedOther, EntryFails
<1>2. stack # <<>> /\ IsSequence(stack)
  BY <1>1 DEF WalkInv
<1>3. PICK n, f : OnTop(n, f) /\ f = Frame
  BY <1>2, TopFrame
<1>4. PICK p : p = EntryPath
  OBVIOUS
<1>5. p = Append(f.path, Head(f.left))
  BY <1>3, <1>4 DEF EntryPath
<1>6. Shape(f) /\ f.evidence \in Nat /\ f.usage \in Usages
  BY <1>3 DEF OnTop, FrameOK
<1>7. \E g : /\ stack' = Append(Outer, g) /\ Carries(f, g)
             /\ g.left \in {Tail(f.left), <<>>}
             /\ CountsAt(f, g, p) /\ NotesAt(f, g, p)
  <2>. USE DEF CountsAt, NotesAt
  <2>0. \A c : c = [path |-> p, node |-> x, usage |-> AsDirectory(Zero), entered |-> FALSE]
               => c.path = p /\ c.usage = AsDirectory(Zero)
    OBVIOUS
  <2>1. CASE ExcludedDirectory(x)
    <3>1. PICK g : g = MergeChild(Noticed(Advance(f)), SkippedRow(p), 0)
      OBVIOUS
    <3>2. g.left = Tail(f.left)
      BY <3>1, <1>6, EntryFrames
    <3>3. /\ Carries(f, g) /\ g.usage = WithChild(f.usage, Zero)
          /\ g.evidence = f.evidence + 1
      BY <3>1, <1>6, EntryFigures
    <3>4. stack' = Append(Outer, g)
      BY <2>1, <3>1, <1>3, <1>4 DEF ExcludedDirectory
    <3>5. CountsAt(f, g, p)
      <4>1. /\ rows' = Append(rows, SkippedRow(p))
            /\ charges' = charges \union {[path |-> p, node |-> x,
                                           usage |-> AsDirectory(Zero), entered |-> FALSE]}
        BY <2>1, <1>4 DEF ExcludedDirectory, Charge
      <4>. QED
        BY <4>1, <2>0, <3>3
    <3>6. problems' = problems \union {p}
      BY <2>1, <1>4 DEF ExcludedDirectory
    <3>. QED
      BY <3>2, <3>3, <3>4, <3>5, <3>6
  <2>2. CASE SkipDirectory(x)
    <3>0. problems' = problems \union {p}
      BY <2>2, <1>4 DEF SkipDirectory
    <3>1. PICK e, g : /\ e = Noticed(CountChild(Advance(f)))
                      /\ g = MergeChild(e, SkippedRow(p), 0)
      OBVIOUS
    <3>2. g.left = Tail(f.left) /\ e.left = Tail(f.left)
      BY <3>1, <1>6, EntryFrames
    <3>3. /\ Carries(f, g) /\ g.usage = WithChild(f.usage, Zero)
          /\ g.evidence = f.evidence + 1
          /\ Carries(f, e) /\ e.usage = f.usage /\ e.evidence = f.evidence + 1
      BY <3>1, <1>6, EntryFigures
    <3>4. \/ stack' = Append(Outer, e) /\ rows' = rows /\ charges' = charges
          \/ /\ stack' = Append(Outer, g)
             /\ rows' = Append(rows, SkippedRow(p))
             /\ charges' = charges \union {[path |-> p, node |-> x,
                                            usage |-> AsDirectory(Zero), entered |-> FALSE]}
      BY <2>2, <3>1, <1>3, <1>4 DEF SkipDirectory, Charge
    <3>5. CASE stack' = Append(Outer, e) /\ rows' = rows /\ charges' = charges
      BY <3>0, <3>2, <3>3, <3>5
    <3>6. CASE /\ stack' = Append(Outer, g)
               /\ rows' = Append(rows, SkippedRow(p))
               /\ charges' = charges \union {[path |-> p, node |-> x,
                                            usage |-> AsDirectory(Zero), entered |-> FALSE]}
      <4>1. CountsAt(f, g, p)
        BY <2>0, <3>3, <3>6
      <4>. QED
        BY <4>1, <3>0, <3>2, <3>3, <3>6
    <3>. QED
      BY <3>4, <3>5, <3>6
  <2>3. CASE CountFile(x)
    <3>0. PICK u : u = Plus(f.usage, FileUsage(x))
      OBVIOUS
    <3>1. PICK g : g = [Advance(f) EXCEPT !.usage = u]
      OBVIOUS
    <3>2. g.left = Tail(f.left)
      BY <3>1, <1>6, EntryFrames
    <3>3. Carries(f, g) /\ g.usage = u /\ g.evidence = f.evidence
      <4>1. g = Counted(f, u)
        BY <3>1 DEF Counted
      <4>. QED
        BY <4>1, <1>6, CountedFigures
    <3>4. Advance(f).usage = f.usage
      BY <1>6, HelperFigures
    <3>5. stack' = Append(Outer, g)
      BY <2>3, <3>0, <3>1, <3>4, <1>3 DEF CountFile
    <3>6. PICK c : c = [path |-> p, node |-> x, usage |-> FileUsage(x), entered |-> FALSE]
      OBVIOUS
    <3>7. c.path = p /\ c.usage = FileUsage(x) /\ c.usage \in Usages /\ c.usage["dirs"] = 0
      BY <3>6, UsageTypes
    <3>8. charges' = charges \union {c} /\ rows' = rows /\ problems' = problems
      BY <2>3, <3>6, <1>4 DEF CountFile, Charge
    <3>. QED
      BY <3>0, <3>2, <3>3, <3>5, <3>7, <3>8
  <2>4. CASE HardlinkLimit(x)
    <3>0. PICK u : u = Plus(f.usage, FileBase(x))
      OBVIOUS
    <3>1. PICK g : g = [Noticed(f) EXCEPT !.usage = u, !.error = TRUE, !.left = <<>>]
      OBVIOUS
    <3>2. g.left = <<>>
      BY <3>1, <1>6, EntryFrames
    <3>3. Carries(f, g) /\ g.usage = u /\ g.evidence = f.evidence + 1
      <4>1. g = GivenUp(f, u)
        BY <3>1 DEF GivenUp
      <4>. QED
        BY <4>1, <1>6, GivenUpFigures
    <3>4. Noticed(f).usage = f.usage
      BY <1>6, HelperFigures
    <3>5. stack' = Append(Outer, g)
      BY <2>4, <3>0, <3>1, <3>4, <1>3 DEF HardlinkLimit
    <3>6. PICK c : c = [path |-> p, node |-> x, usage |-> FileBase(x), entered |-> FALSE]
      OBVIOUS
    <3>7. c.path = p /\ c.usage = FileBase(x) /\ c.usage \in Usages /\ c.usage["dirs"] = 0
      BY <3>6, UsageTypes
    <3>8. charges' = charges \union {c} /\ rows' = rows /\ problems' = problems \union {p}
      BY <2>4, <3>6, <1>4 DEF HardlinkLimit, Charge
    <3>. QED
      BY <3>0, <3>2, <3>3, <3>5, <3>7, <3>8
  <2>5. CASE ExcludedOther
    <3>1. PICK g : g = Noticed(Advance(f))
      OBVIOUS
    <3>2. g.left = Tail(f.left)
      BY <3>1, <1>6, EntryFrames
    <3>3. Carries(f, g) /\ g.usage = f.usage /\ g.evidence = f.evidence + 1
      BY <3>1, <1>6, EntryFigures
    <3>4. /\ stack' = Append(Outer, g) /\ problems' = problems \union {p}
          /\ charges' = charges /\ rows' = rows
      BY <2>5, <3>1, <1>3, <1>4 DEF ExcludedOther
    <3>. QED
      BY <3>2, <3>3, <3>4
  <2>6. CASE \E missing \in BOOLEAN : EntryFails(missing)
    <3>1. PICK g : g = [Noticed(Advance(f)) EXCEPT !.error = TRUE]
      OBVIOUS
    <3>2. g.left = Tail(f.left)
      BY <3>1, <1>6, EntryFrames
    <3>3. Carries(f, g) /\ g.usage = f.usage /\ g.evidence = f.evidence + 1
      BY <3>1, <1>6, EntryFigures
    <3>4. /\ stack' = Append(Outer, g) /\ problems' = problems \union {p}
          /\ charges' = charges /\ rows' = rows
      BY <2>6, <3>1, <1>3, <1>4 DEF EntryFails
    <3>. QED
      BY <3>2, <3>3, <3>4
  <2>. QED
    BY <2>1, <2>2, <2>3, <2>4, <2>5, <2>6
<1>8. PICK g : /\ stack' = Append(Outer, g) /\ Carries(f, g)
               /\ g.left \in {Tail(f.left), <<>>}
               /\ CountsAt(f, g, p) /\ NotesAt(f, g, p)
  BY <1>7
<1>9. StaysAs(n, g)
  BY <1>2, <1>3, <1>8, ReplaceLast DEF Outer, OnTop, StaysAs
<1>10. f.ready /\ f.left # <<>>
  BY <1>1, <1>3
<1>11. Passes(n, f, g, p)
  BY <1>1, <1>3, <1>5, <1>8, <1>9, <1>10 DEF Passes
<1>. QED
  BY <1>3, <1>4, <1>11

\* The directory on top is listed.
Lists(n, f, g) ==
  /\ OnTop(n, f) /\ ~f.ready
  /\ StaysAs(n, g) /\ FrameOK(g) /\ g.ready /\ g.path = f.path
  /\ g.rowStart = Len(rows) /\ g.evidence = f.evidence
  /\ g.usage = DirUsage(f.node)
  /\ g.collapse # "none" => ~IsProtectedPath(f.path)
  /\ \E c : /\ charges' = charges \union {c} /\ c.path = f.path
            /\ c.usage = AsDirectory(DirUsage(f.node))
  /\ rows' = rows /\ problems' = problems
  /\ setup' = setup /\ phase = "walk" /\ phase' = phase /\ status' = status

\* ListDirectory as a step of the frames.
LEMMA ListFacts ==
  ASSUME WalkInv, PlaceInv, ListDirectory, WalkInv'
  PROVE  \E n, f, g : Lists(n, f, g)
<1>1. stack # <<>> /\ IsSequence(stack) /\ ~Frame.ready /\ phase = "walk"
  BY DEF WalkInv, ListDirectory
<1>2. PICK n, f : OnTop(n, f) /\ f = Frame
  BY <1>1, TopFrame
<1>. DEFINE ReadAs(e, names) ==
              [f EXCEPT !.ready = TRUE, !.listed = e, !.left = names,
                        !.usage = DirUsage(f.node), !.rowStart = Len(rows),
                        !.collapse = InitialCollapse(f.path)]
<1>3. PICK e, names : stack' = Append(Outer, ReadAs(e, names))
  BY <1>2 DEF ListDirectory, SetTop
<1>4. PICK g : g = ReadAs(e, names)
  OBVIOUS
<1>5. Shape(f)
  BY <1>2 DEF OnTop, FrameOK
<1>6. /\ g.ready = TRUE /\ g.path = f.path /\ g.rowStart = Len(rows)
      /\ g.evidence = f.evidence /\ g.usage = DirUsage(f.node)
      /\ g.collapse = InitialCollapse(f.path)
  BY <1>4, <1>5 DEF Shape, FrameFields
<1>7. g.collapse # "none" => ~IsProtectedPath(f.path)
  BY <1>6 DEF InitialCollapse
<1>8. StaysAs(n, g)
  BY <1>1, <1>2, <1>3, <1>4, ReplaceLast DEF Outer, OnTop, StaysAs
<1>9. FrameOK(g)
  <2>1. n \in DOMAIN stack' /\ stack'[n] = g
    BY <1>2, <1>8 DEF OnTop, StaysAs
  <2>. QED
    BY <2>1 DEF WalkInv
<1>10. PICK c : c = [path |-> f.path, node |-> f.node,
                     usage |-> AsDirectory(DirUsage(f.node)), entered |-> TRUE]
  OBVIOUS
<1>11. charges' = charges \union {c}
  BY <1>2, <1>10 DEF ListDirectory, Charge
<1>12. c.path = f.path /\ c.usage = AsDirectory(DirUsage(f.node))
  BY <1>10
<1>13. /\ rows' = rows /\ problems' = problems
       /\ setup' = setup /\ phase' = phase /\ status' = status
  BY DEF ListDirectory
<1>14. ~f.ready
  BY <1>1, <1>2
<1>. QED
  BY <1>1, <1>2, <1>6, <1>7, <1>8, <1>9, <1>11, <1>12, <1>13, <1>14 DEF Lists

\* A directory is entered, at path p.
Enters(n, f, g, h, p) ==
  /\ OnTop(n, f) /\ f.ready /\ f.left # <<>> /\ p = Append(f.path, Head(f.left))
  /\ DOMAIN stack' = 1 .. n + 1 /\ Len(stack') = n + 1
  /\ \A i \in 1 .. n - 1 : stack'[i] = stack[i]
  /\ stack'[n] = g /\ stack'[n + 1] = h
  /\ Carries(f, g) /\ g.left = Tail(f.left)
  /\ g.usage = f.usage /\ g.evidence = f.evidence
  /\ h.path = p /\ ~h.ready /\ h.left = <<>> /\ h.usage \in Usages /\ h.evidence = 0
  /\ charges' = charges /\ rows' = rows /\ problems' = problems
  /\ setup' = setup /\ phase = "walk" /\ phase' = phase /\ status' = status

\* EnterDirectory as a step of the frames.
LEMMA EnterFacts ==
  ASSUME WalkInv, PlaceInv, NEW x, EnterDirectory(x)
  PROVE  \E n, f, g, h, p : Enters(n, f, g, h, p)
<1>1. /\ stack # <<>> /\ IsSequence(stack) /\ phase = "walk" /\ phase' = phase
      /\ Frame.ready /\ Frame.left # <<>>
      /\ charges' = charges /\ rows' = rows /\ problems' = problems
      /\ setup' = setup /\ status' = status
  BY DEF WalkInv, EnterDirectory, AtEntry, ghosts
<1>2. PICK n, f : OnTop(n, f) /\ f = Frame
  BY <1>1, TopFrame
<1>3. PICK g : g = CountChild(Advance(f))
  OBVIOUS
<1>4. PICK p : p = Append(f.path, Head(f.left)) /\ p = EntryPath
  BY <1>2 DEF EntryPath
<1>5. PICK mount : stack' = Append(Append(Outer, g), NewFrame(p, x, mount))
  BY <1>2, <1>3, <1>4 DEF EnterDirectory
<1>6. PICK h : h = NewFrame(p, x, mount)
  OBVIOUS
<1>7. /\ h.path = p /\ ~h.ready /\ h.left = <<>> /\ h.usage = Zero /\ h.evidence = 0
  BY <1>6 DEF NewFrame
<1>8. h.usage \in Usages
  BY <1>7 DEF Usages, Zero
<1>9. Shape(f)
  BY <1>2 DEF OnTop, FrameOK
<1>10. PICK a : /\ a = Advance(f) /\ Carries(f, a) /\ a.left = Tail(f.left) /\ Shape(a)
                /\ a.usage = f.usage /\ a.evidence = f.evidence
  BY <1>9, HelperFigures, FiguresOnly, MergesOnly DEF Carries, SamePlace
<1>11. /\ Carries(a, g) /\ g.left = a.left /\ g.usage = a.usage /\ g.evidence = a.evidence
  BY <1>3, <1>10, HelperFigures, FiguresOnly, MergesOnly
<1>12. /\ Carries(f, g) /\ g.left = Tail(f.left)
       /\ g.usage = f.usage /\ g.evidence = f.evidence
  BY <1>10, <1>11, CarriesOn
<1>13. PICK s : s = Append(Front(stack), g)
  OBVIOUS
<1>14. /\ IsSequence(s) /\ Len(s) = n /\ s[n] = g /\ n \in Nat \ {0}
       /\ \A i \in 1 .. n - 1 : s[i] = stack[i]
  BY <1>1, <1>2, <1>13, ReplaceLast DEF OnTop
<1>15. stack' = Append(s, h)
  BY <1>5, <1>6, <1>13 DEF Outer
<1>16. PICK t : t = Append(s, h)
  OBVIOUS
<1>17. /\ IsSequence(t) /\ DOMAIN t = 1 .. n + 1
       /\ \A i \in 1 .. n : t[i] = s[i]
       /\ t[n + 1] = h
  BY <1>14, <1>16, AddLast
<1>18. Len(t) = n + 1
  BY <1>14, <1>17, LenProperties DEF IsSequence
<1>19. n \in 1 .. n /\ \A i \in 1 .. n - 1 : i \in 1 .. n
  BY <1>14
<1>20. /\ DOMAIN stack' = 1 .. n + 1 /\ Len(stack') = n + 1
       /\ \A i \in 1 .. n - 1 : stack'[i] = stack[i]
       /\ stack'[n] = g /\ stack'[n + 1] = h
  BY <1>14, <1>15, <1>16, <1>17, <1>18, <1>19
<1>21. f.ready /\ f.left # <<>>
  BY <1>1, <1>2
<1>. QED
  BY <1>1, <1>2, <1>4, <1>7, <1>8, <1>12, <1>20, <1>21 DEF Enters

\* What the row of frame f and the evidence that is passed on say.
Closes(f, row, evidence) ==
  /\ row.path = f.path
  /\ \/ /\ f.ready /\ f.left = <<>>
        /\ charges' = charges /\ problems' = problems
        /\ row.usage = f.usage /\ evidence = f.evidence
        /\ row.collapsed => row.evidence = f.evidence
     \/ /\ ~f.ready /\ ~row.collapsed
        /\ \E c : /\ charges' = charges \union {c} /\ c.path = f.path
                  /\ c.usage = AsDirectory(DirUsage(f.node))
        /\ problems' = problems \union {f.path}
        /\ row.usage = DirUsage(f.node) /\ evidence = 1

\* The row of frame f takes the place of the rows after the k-th.
RowsClose(f, row, k) ==
  /\ IsSequence(rows') /\ k \in 0 .. Len(rows)
  /\ DOMAIN rows' = 1 .. k + 1 /\ Len(rows') = k + 1
  /\ \A i \in 1 .. k : rows'[i] = rows[i]
  /\ rows'[k + 1] = row
  /\ \/ k = Len(rows) /\ ~row.collapsed
     \/ f.ready /\ k = f.rowStart /\ f.collapse # "none"

\* The directory on top is left for the one above it.
Leaves(n, f, g, row, k, evidence) ==
  /\ OnTop(n, f) /\ n - 1 \in Nat \ {0}
  /\ StaysAs(n - 1, g) /\ Carries(stack[n - 1], g) /\ g.left = stack[n - 1].left
  /\ g.usage = WithChild(stack[n - 1].usage, row.usage)
  /\ g.evidence = stack[n - 1].evidence + evidence
  /\ Closes(f, row, evidence) /\ RowsClose(f, row, k)
  /\ setup' = setup /\ phase = "walk" /\ phase' = phase /\ status' = status

\* The root is left.
Ends(f, row, k) ==
  /\ OnTop(1, f) /\ stack' = <<>>
  /\ Closes(f, row, f.evidence) /\ RowsClose(f, row, k)
  /\ setup' = setup /\ phase = "walk" /\ phase' = "done" /\ status' # "failed"

\* The length of a sequence.
LEMMA SequenceFacts ==
  ASSUME NEW s, IsSequence(s)
  PROVE  Len(s) \in Nat /\ DOMAIN s = 1 .. Len(s)
BY LenProperties DEF IsSequence

\* A row is added.
LEMMA RowAdded ==
  ASSUME IsSequence(rows), NEW row, rows' = Append(rows, row)
  PROVE  /\ IsSequence(rows') /\ Len(rows) \in Nat /\ DOMAIN rows = 1 .. Len(rows)
         /\ Len(rows') = Len(rows) + 1 /\ DOMAIN rows' = 1 .. Len(rows) + 1
         /\ \A i \in 1 .. Len(rows) : rows'[i] = rows[i]
         /\ rows'[Len(rows) + 1] = row
<1>1. PICK t : t = Append(rows, row)
  OBVIOUS
<1>2. /\ IsSequence(t) /\ Len(rows) \in Nat /\ DOMAIN t = 1 .. Len(rows) + 1
      /\ \A i \in 1 .. Len(rows) : t[i] = rows[i]
      /\ t[Len(rows) + 1] = row
  BY <1>1, AddLast
<1>3. Len(t) = Len(rows) + 1
  BY <1>2, LenProperties DEF IsSequence
<1>. QED
  BY <1>1, <1>2, <1>3, SequenceFacts

\* The rows below a collapsed directory are replaced by its own.
LEMMA RowsReplaced ==
  ASSUME IsSequence(rows), NEW k, k \in 0 .. Len(rows),
         NEW row, rows' = Append(SubSeq(rows, 1, k), row)
  PROVE  /\ IsSequence(rows')
         /\ Len(rows') = k + 1 /\ DOMAIN rows' = 1 .. k + 1
         /\ \A i \in 1 .. k : rows'[i] = rows[i]
         /\ rows'[k + 1] = row
<1>1. PICK S : rows \in Seq(S)
  BY DEF IsSequence
<1>2. PICK s : s = SubSeq(rows, 1, k)
  OBVIOUS
<1>3. Len(rows) \in Nat /\ DOMAIN rows = 1 .. Len(rows)
  BY SequenceFacts
<1>4. \A i \in 1 .. k : i \in 1 .. Len(rows) /\ rows[i] \in S
  BY <1>1, <1>3, ElementOfSeq
<1>5. s \in Seq(S) /\ Len(s) = k /\ \A i \in 1 .. k : s[i] = rows[i]
  BY <1>1, <1>2, <1>3, <1>4, SubSeqProperties
<1>6. PICK t : t = Append(s, row)
  OBVIOUS
<1>7. /\ IsSequence(t) /\ DOMAIN t = 1 .. k + 1
      /\ \A i \in 1 .. k : t[i] = s[i]
      /\ t[k + 1] = row
  <2>1. IsSequence(s)
    BY <1>5 DEF IsSequence
  <2>. QED
    BY <2>1, <1>5, <1>6, AddLast
<1>8. Len(t) = k + 1
  BY <1>3, <1>7, LenProperties DEF IsSequence
<1>. QED
  BY <1>2, <1>5, <1>6, <1>7, <1>8

\* The row of a frame that is finished.
LEMMA FinishFacts ==
  ASSUME WalkInv, PlaceInv, TreeInv, FinishFrame
  PROVE  \E n, f, row, k :
           /\ OnTop(n, f) /\ f = Frame /\ row = Last(rows')
           /\ Closes(f, row, f.evidence) /\ RowsClose(f, row, k)
<1>1. stack # <<>> /\ Frame.ready /\ Frame.left = <<>> /\ rows' = RowsWith(Frame)
  BY DEF WalkInv, FinishFrame
<1>2. charges' = charges /\ problems' = problems
  BY DEF FinishFrame, ghosts
<1>3. PICK n, f : OnTop(n, f) /\ f = Frame
  BY <1>1, TopFrame
<1>4. f.ready /\ f.left = <<>> /\ rows' = RowsWith(f)
  BY <1>1, <1>3
<1>5. IsSequence(rows) /\ Len(rows) \in Nat
  BY SequenceFacts DEF PlaceInv
<1>6. CASE f.collapse = "none"
  <2>1. PICK row : row = DirectoryRow(f)
    OBVIOUS
  <2>2. row.path = f.path /\ row.usage = f.usage /\ ~row.collapsed
    BY <2>1 DEF DirectoryRow
  <2>3. PICK k : k = Len(rows)
    OBVIOUS
  <2>4. rows' = Append(rows, row)
    BY <1>4, <1>6, <2>1 DEF RowsWith
  <2>5. RowsClose(f, row, k)
    BY <1>5, <2>2, <2>3, <2>4, RowAdded DEF RowsClose
  <2>6. row = Last(rows')
    BY <1>5, <2>4, RowAdded DEF Last
  <2>. QED
    BY <1>2, <1>3, <1>4, <2>2, <2>5, <2>6 DEF Closes
<1>7. CASE f.collapse # "none"
  <2>1. PICK row : row = CollapsedRow(f)
    OBVIOUS
  <2>2. row.path = f.path /\ row.usage = f.usage /\ row.evidence = f.evidence
    BY <2>1 DEF CollapsedRow
  <2>3. PICK k : k = f.rowStart
    OBVIOUS
  <2>4. k \in 0 .. Len(rows)
    <3>1. n \in DOMAIN stack /\ stack[n] = f
      BY <1>3 DEF OnTop
    <3>. QED
      BY <1>4, <2>3, <3>1 DEF TreeInv, StartsRows
  <2>5. rows' = Append(SubSeq(rows, 1, k), row)
    BY <1>4, <1>7, <2>1, <2>3 DEF RowsWith
  <2>6. /\ IsSequence(rows')
        /\ Len(rows') = k + 1 /\ DOMAIN rows' = 1 .. k + 1
        /\ \A i \in 1 .. k : rows'[i] = rows[i]
        /\ rows'[k + 1] = row
    BY <1>5, <2>4, <2>5, RowsReplaced
  <2>7. RowsClose(f, row, k)
    BY <1>4, <1>7, <2>3, <2>4, <2>6 DEF RowsClose
  <2>8. row = Last(rows')
    BY <2>6 DEF Last
  <2>. QED
    BY <1>2, <1>3, <1>4, <2>2, <2>7, <2>8 DEF Closes
<1>. QED
  BY <1>6, <1>7

\* The frame below the top becomes the top.
LEMMA Popped ==
  ASSUME WalkInv, NEW n, NEW f, OnTop(n, f), Outer # <<>>, NEW row, NEW evidence,
         stack' = Append(Front(Outer), MergeChild(Last(Outer), row, evidence))
  PROVE  \E g : /\ n - 1 \in Nat \ {0} /\ StaysAs(n - 1, g)
                /\ Carries(stack[n - 1], g) /\ g.left = stack[n - 1].left
                /\ g.usage = WithChild(stack[n - 1].usage, row.usage)
                /\ g.evidence = stack[n - 1].evidence + evidence
<1>0. /\ n \in Nat \ {0} /\ n = Len(stack) /\ DOMAIN stack = 1 .. n
  BY DEF OnTop
<1>1. PICK S : stack \in Seq(S)
  BY DEF WalkInv, IsSequence
<1>2. PICK s : s = Outer
  OBVIOUS
<1>3. s \in Seq(S) /\ Len(s) = n - 1 /\ \A i \in 1 .. n - 1 : s[i] = stack[i]
  <2>1. stack # <<>>
    BY <1>0, <1>1, EmptySeq
  <2>. QED
    BY <2>1, <1>0, <1>1, <1>2, DropLast DEF Outer
<1>4. s # <<>> /\ IsSequence(s)
  BY <1>2, <1>3 DEF IsSequence
<1>5. PICK m \in Nat \ {0} : m = n - 1
  BY <1>0, <1>3, <1>4, EmptySeq
<1>6. m \in DOMAIN stack /\ Last(s) = stack[m]
  BY <1>0, <1>3, <1>5 DEF Last
<1>7. PICK e : e = stack[m]
  OBVIOUS
<1>8. Shape(e)
  BY <1>6, <1>7 DEF WalkInv, FrameOK
<1>9. PICK g : g = MergeChild(e, row, evidence)
  OBVIOUS
<1>10. /\ Carries(e, g) /\ g.left = e.left /\ g.usage = WithChild(e.usage, row.usage)
       /\ g.evidence = e.evidence + evidence
  BY <1>8, <1>9, HelperFigures, FiguresOnly, MergesOnly
<1>11. PICK t : t = Append(Front(s), g)
  OBVIOUS
<1>12. stack' = t
  BY <1>2, <1>6, <1>7, <1>9, <1>11
<1>13. /\ IsSequence(t) /\ Len(t) = m /\ DOMAIN t = 1 .. m
       /\ \A i \in 1 .. m - 1 : t[i] = s[i]
       /\ t[m] = g
  <2>1. Len(s) = m
    BY <1>3, <1>5
  <2>2. SetsLast(s, g, t)
    BY <1>11 DEF SetsLast
  <2>3. /\ IsSequence(t) /\ Len(t) = Len(s) /\ DOMAIN t = 1 .. Len(s)
        /\ \A i \in 1 .. Len(s) - 1 : t[i] = s[i]
        /\ t[Len(s)] = g
    BY <2>2, <1>4, Replaced
  <2>. QED
    BY <2>1, <2>3
<1>14. \A i \in 1 .. m - 1 : i \in 1 .. n - 1
  BY <1>0, <1>5
<1>15. StaysAs(m, g)
  BY <1>3, <1>12, <1>13, <1>14 DEF StaysAs
<1>. QED
  BY <1>5, <1>7, <1>10, <1>15

\* FinishFrame below the root and ListFails as steps of the frames.
LEMMA LeaveFacts ==
  ASSUME WalkInv, PlaceInv, TreeInv,
         \/ FinishFrame /\ Outer # <<>>
         \/ \E missing \in BOOLEAN : ListFails(missing)
  PROVE  \E n, f, g, row, k, evidence : Leaves(n, f, g, row, k, evidence)
<1>1. CASE FinishFrame /\ Outer # <<>>
  <2>1. PICK n, f, row, k :
          /\ OnTop(n, f) /\ f = Frame /\ row = Last(rows')
          /\ Closes(f, row, f.evidence) /\ RowsClose(f, row, k)
    BY <1>1, FinishFacts
  <2>2. stack' = Append(Front(Outer), MergeChild(Last(Outer), row, f.evidence))
    BY <1>1, <2>1 DEF FinishFrame
  <2>3. PICK g : /\ n - 1 \in Nat \ {0} /\ StaysAs(n - 1, g)
                 /\ Carries(stack[n - 1], g) /\ g.left = stack[n - 1].left
                 /\ g.usage = WithChild(stack[n - 1].usage, row.usage)
                 /\ g.evidence = stack[n - 1].evidence + f.evidence
    BY <1>1, <2>1, <2>2, Popped
  <2>4. setup' = setup /\ phase = "walk" /\ phase' = phase /\ status' = status
    BY <1>1 DEF FinishFrame
  <2>. QED
    BY <2>1, <2>3, <2>4 DEF Leaves
<1>2. ASSUME NEW missing \in BOOLEAN, ListFails(missing)
      PROVE  \E n, f, g, row, k, evidence : Leaves(n, f, g, row, k, evidence)
  <2>1. stack # <<>> /\ ~Frame.ready /\ Frame.path # <<>> /\ phase = "walk"
    BY <1>2 DEF ListFails, WalkInv
  <2>2. PICK n, f : OnTop(n, f) /\ f = Frame
    BY <2>1, TopFrame
  <2>3. PICK e : e = [f EXCEPT !.usage = DirUsage(f.node), !.error = TRUE]
    OBVIOUS
  <2>4. Shape(f)
    BY <2>2 DEF OnTop, FrameOK
  <2>5. e.path = f.path /\ e.usage = DirUsage(f.node)
    BY <2>3, <2>4 DEF Shape, FrameFields
  <2>6. PICK row : row = DirectoryRow(e)
    OBVIOUS
  <2>7. row.path = f.path /\ row.usage = DirUsage(f.node) /\ ~row.collapsed
    BY <2>5, <2>6 DEF DirectoryRow
  <2>8. /\ rows' = Append(rows, row)
        /\ stack' = Append(Front(Outer), MergeChild(Last(Outer), row, 1))
    BY <1>2, <2>2, <2>3, <2>6 DEF ListFails
  <2>9. Outer # <<>>
    <3>1. /\ n = Len(stack) /\ n \in Nat \ {0}
          /\ f.path \in Seq(NameSet) /\ f.path # <<>> /\ Len(f.path) = n - 1
      BY <2>1, <2>2 DEF OnTop, FrameOK
    <3>2. n - 1 # 0
      BY <3>1, EmptySeq
    <3>3. PICK S : stack \in Seq(S)
      BY DEF WalkInv, IsSequence
    <3>4. Len(Outer) = n - 1
      BY <2>1, <3>1, <3>3, DropLast DEF Outer
    <3>5. Len(<<>>) = 0
      OBVIOUS
    <3>. QED
      BY <3>2, <3>4, <3>5
  <2>10. PICK g : /\ n - 1 \in Nat \ {0} /\ StaysAs(n - 1, g)
                  /\ Carries(stack[n - 1], g) /\ g.left = stack[n - 1].left
                  /\ g.usage = WithChild(stack[n - 1].usage, row.usage)
                  /\ g.evidence = stack[n - 1].evidence + 1
    BY <2>2, <2>8, <2>9, Popped
  <2>11. PICK c : c = [path |-> f.path, node |-> f.node,
                       usage |-> AsDirectory(DirUsage(f.node)), entered |-> TRUE]
    OBVIOUS
  <2>12. charges' = charges \union {c} /\ problems' = problems \union {f.path}
    BY <1>2, <2>2, <2>11 DEF ListFails, Charge
  <2>13. c.path = f.path /\ c.usage = AsDirectory(DirUsage(f.node))
    BY <2>11
  <2>14. ~f.ready
    BY <2>1, <2>2
  <2>15. Closes(f, row, 1)
    BY <2>7, <2>12, <2>13, <2>14 DEF Closes
  <2>16. IsSequence(rows) /\ Len(rows) \in Nat
    BY SequenceFacts DEF PlaceInv
  <2>17. PICK k : k = Len(rows)
    OBVIOUS
  <2>18. RowsClose(f, row, k)
    BY <2>7, <2>8, <2>16, <2>17, RowAdded DEF RowsClose
  <2>19. setup' = setup /\ phase' = phase /\ status' = status
    BY <1>2 DEF ListFails
  <2>. QED
    BY <2>1, <2>2, <2>10, <2>15, <2>18, <2>19 DEF Leaves
<1>. QED
  BY <1>1, <1>2

\* FinishFrame of the root as a step of the frames.
LEMMA EndFacts ==
  ASSUME WalkInv, PlaceInv, TreeInv, FinishFrame, Outer = <<>>
  PROVE  \E f, row, k : Ends(f, row, k)
<1>1. PICK n, f, row, k :
        /\ OnTop(n, f) /\ f = Frame /\ row = Last(rows')
        /\ Closes(f, row, f.evidence) /\ RowsClose(f, row, k)
  BY FinishFacts
<1>2. PICK S : stack \in Seq(S)
  BY DEF WalkInv, IsSequence
<1>3. n \in Nat \ {0} /\ n = Len(stack)
  BY <1>1 DEF OnTop
<1>4. stack # <<>>
  BY <1>2, <1>3, EmptySeq
<1>5. PICK m \in Nat \ {0} : m = n
  BY <1>3
<1>6. Len(Outer) = m - 1
  BY <1>2, <1>3, <1>4, <1>5, DropLast DEF Outer
<1>7. m - 1 = 0
  BY <1>6
<1>8. n = 1
  BY <1>5, <1>7
<1>9. /\ stack' = <<>> /\ phase = "walk" /\ phase' = "done" /\ setup' = setup
      /\ status' # "failed"
  BY DEF FinishFrame
<1>. QED
  BY <1>1, <1>8, <1>9 DEF Ends

--------------------------------------------------------------------------------
(* Paths *)

\* t begins with the elements of s.
Matches(s, t) == Len(s) <= Len(t) /\ \A k \in 1 .. Len(s) : s[k] = t[k]

\* A prefix, element by element.
LEMMA PrefixMatches ==
  ASSUME NEW S, NEW s \in Seq(S), NEW t \in Seq(S)
  PROVE  IsPrefix(s, t) <=> Matches(s, t)
BY DEF IsPrefix, Matches

\* Prefixes are ordered, and those of one path are a chain.
LEMMA PrefixOrder ==
  ASSUME NEW S, NEW a \in Seq(S), NEW b \in Seq(S), NEW c \in Seq(S)
  PROVE  /\ IsPrefix(a, a)
         /\ IsPrefix(a, b) /\ IsPrefix(b, c) => IsPrefix(a, c)
         /\ IsPrefix(a, c) /\ IsPrefix(b, c) /\ Len(a) <= Len(b) => IsPrefix(a, b)
         /\ IsPrefix(a, b) => Len(a) <= Len(b)
         /\ IsPrefix(a, b) /\ Len(a) = Len(b) => a = b
<1>1. PICK k \in Nat : k = Len(a)
  BY LenProperties
<1>2. PICK l \in Nat : l = Len(b)
  BY LenProperties
<1>3. PICK m \in Nat : m = Len(c)
  BY LenProperties
<1>4. IsPrefix(a, b) <=> k <= l /\ \A i \in 1 .. k : a[i] = b[i]
  <2>1. IsPrefix(a, b) <=> Matches(a, b)
    BY PrefixMatches
  <2>. QED
    BY <2>1, <1>1, <1>2 DEF Matches
<1>5. IsPrefix(b, c) <=> l <= m /\ \A i \in 1 .. l : b[i] = c[i]
  <2>1. IsPrefix(b, c) <=> Matches(b, c)
    BY PrefixMatches
  <2>. QED
    BY <2>1, <1>2, <1>3 DEF Matches
<1>6. IsPrefix(a, c) <=> k <= m /\ \A i \in 1 .. k : a[i] = c[i]
  <2>1. IsPrefix(a, c) <=> Matches(a, c)
    BY PrefixMatches
  <2>. QED
    BY <2>1, <1>1, <1>3 DEF Matches
<1>7. IsPrefix(a, a)
  BY <1>1, PrefixElements
<1>8. IsPrefix(a, b) /\ k = l => a = b
  BY <1>1, <1>2, <1>4, SeqEqual
<1>9. IsPrefix(a, b) /\ IsPrefix(b, c) => IsPrefix(a, c)
  BY <1>4, <1>5, <1>6
<1>10. IsPrefix(a, c) /\ IsPrefix(b, c) /\ k <= l => IsPrefix(a, b)
  BY <1>4, <1>5, <1>6
<1>11. IsPrefix(a, b) => k <= l
  BY <1>4
<1>. QED
  BY <1>1, <1>2, <1>7, <1>8, <1>9, <1>10, <1>11

\* A path goes on as its prefix.
LEMMA PrefixAt ==
  ASSUME NEW S, NEW s \in Seq(S), NEW t \in Seq(S), NEW i \in 1 .. Len(s), IsPrefix(s, t)
  PROVE  s[i] = t[i]
BY PrefixElements

\* The root is above every path.
LEMMA RootPrefix ==
  ASSUME NEW S, NEW q \in Seq(S)
  PROVE  IsPrefix(<<>>, q)
<1>0. <<>> \in Seq(S)
  BY EmptySeq
<1>1. PICK e \in Seq(S) : e = <<>>
  BY <1>0
<1>2. Len(e) = 0
  BY <1>1
<1>3. Len(q) \in Nat
  BY LenProperties
<1>4. Len(e) <= Len(q) /\ \A k \in 1 .. Len(e) : e[k] = q[k]
  BY <1>2, <1>3
<1>5. IsPrefix(e, q)
  BY <1>4, PrefixElements
<1>. QED
  BY <1>1, <1>5

\* q is the path of the k-th of the entries left of frame f.
IsEntry(f, k, q) == q = Append(f.path, f.left[k])

\* A path and the one it is an entry of.
LEMMA EntryPaths ==
  ASSUME NEW f, FrameOK(f), NEW k \in 1 .. Len(f.left), NEW q, IsEntry(f, k, q)
  PROVE  /\ q \in Seq(NameSet) /\ Len(q) = Len(f.path) + 1
         /\ q[Len(f.path) + 1] = f.left[k] /\ IsPrefix(f.path, q)
<1>1. /\ f.path \in Seq(NameSet) /\ f.listed \in Nodes
      /\ f.left \in Seq(DOMAIN Lookup[f.listed])
  BY DEF FrameOK, IsDirectory
<1>2. f.left[k] \in NameSet
  BY <1>1, ElementOfSeq DEF NameSet
<1>3. PICK m \in Nat : m = Len(f.path)
  BY <1>1, LenProperties
<1>4. /\ q \in Seq(NameSet) /\ Len(q) = m + 1 /\ q[m + 1] = f.left[k]
      /\ \A i \in 1 .. m : q[i] = f.path[i]
  BY <1>1, <1>2, <1>3, AppendProperties DEF IsEntry
<1>5. IsPrefix(f.path, q)
  <2>1. PICK a \in Seq(NameSet) : a = f.path /\ Len(a) = m
    BY <1>1, <1>3
  <2>2. m <= Len(q) /\ \A i \in 1 .. m : a[i] = q[i]
    BY <1>4, <2>1
  <2>3. IsPrefix(a, q)
    BY <1>4, <2>1, <2>2, PrefixElements
  <2>. QED
    BY <2>1, <2>3
<1>. QED
  BY <1>3, <1>4, <1>5

\* The path of the next entry.
LEMMA NextPath ==
  ASSUME NEW f, FrameOK(f), f.left # <<>>, NEW p, p = Append(f.path, Head(f.left))
  PROVE  /\ p \in Seq(NameSet) /\ Len(p) = Len(f.path) + 1 /\ IsPrefix(f.path, p)
         /\ Front(p) = f.path
         /\ p = Append(f.path, f.left[1]) /\ 1 \in 1 .. Len(f.left)
<1>1. Head(f.left) = f.left[1] /\ Len(f.left) \in Nat \ {0}
  BY EntryFacts
<1>2. 1 \in 1 .. Len(f.left) /\ p = Append(f.path, f.left[1])
  BY <1>1
<1>3. p \in Seq(NameSet) /\ Len(p) = Len(f.path) + 1 /\ IsPrefix(f.path, p)
  BY <1>1, <1>2, EntryPaths DEF IsEntry
<1>4. Front(p) = f.path
  <2>1. f.path \in Seq(NameSet)
    BY DEF FrameOK
  <2>2. PICK m \in Nat : m = Len(f.path)
    BY <2>1, LenProperties
  <2>3. Len(p) = m + 1 /\ p # <<>> /\ \A i \in 1 .. m : p[i] = f.path[i]
    BY <1>3, <2>1, <2>2, PrefixElements
  <2>4. PICK s : s = Front(p)
    OBVIOUS
  <2>5. s \in Seq(NameSet) /\ Len(s) = m /\ \A i \in 1 .. m : s[i] = p[i]
    <3>1. Len(p) - 1 = m
      BY <2>3
    <3>. QED
      BY <1>3, <2>3, <2>4, <3>1, DropLast
  <2>6. s = f.path
    BY <2>1, <2>2, <2>3, <2>5, SeqEqual
  <2>. QED
    BY <2>4, <2>6
<1>. QED
  BY <1>2, <1>3, <1>4

\* The paths of the frames are the prefixes of that of the top.
LEMMA FramePaths ==
  ASSUME WalkInv
  PROVE  /\ \A i \in DOMAIN stack : /\ FrameOK(stack[i]) /\ Len(stack[i].path) = i - 1
                                    /\ stack[i].path \in Seq(NameSet) /\ i \in Nat
         /\ \A i, j \in DOMAIN stack : i <= j => IsPrefix(stack[i].path, stack[j].path)
         /\ \A i, j \in DOMAIN stack : i < j => /\ Above(stack[i], stack[j])
                                                /\ stack[i].path # stack[j].path
                                                /\ ~IsPrefix(stack[j].path, stack[i].path)
<1>1. \A i \in DOMAIN stack : i \in Nat
  BY SequenceFacts DEF WalkInv
<1>2. \A i \in DOMAIN stack : /\ FrameOK(stack[i]) /\ Len(stack[i].path) = i - 1
                              /\ stack[i].path \in Seq(NameSet)
  BY DEF WalkInv, FrameOK
<1>3. \A i, j \in DOMAIN stack : i < j => Above(stack[i], stack[j])
  BY DEF WalkInv
<1>4. ASSUME NEW i \in DOMAIN stack, NEW j \in DOMAIN stack
      PROVE  /\ i <= j => IsPrefix(stack[i].path, stack[j].path)
             /\ i < j => /\ stack[i].path # stack[j].path
                         /\ ~IsPrefix(stack[j].path, stack[i].path)
  <2>1. PICK a, b : a = stack[i].path /\ b = stack[j].path
    OBVIOUS
  <2>2. /\ i \in Nat /\ j \in Nat /\ a \in Seq(NameSet) /\ b \in Seq(NameSet)
        /\ Len(a) = i - 1 /\ Len(b) = j - 1
    BY <1>1, <1>2, <2>1
  <2>3. i < j => \A k \in 1 .. i - 1 : a[k] = b[k]
    BY <1>2, <1>3, <2>1 DEF Above
  <2>4. i = j => \A k \in 1 .. i - 1 : a[k] = b[k]
    BY <2>1
  <2>5. i <= j => IsPrefix(a, b)
    BY <2>2, <2>3, <2>4, PrefixElements
  <2>6. i < j => a # b
    BY <2>2
  <2>7. i < j => ~IsPrefix(b, a)
    BY <2>2, PrefixOrder
  <2>. QED
    BY <2>1, <2>5, <2>6, <2>7
<1>. QED
  BY <1>1, <1>2, <1>3, <1>4

\* A path below the frame on top is not where the frames above it have to go.
LEMMA AboveFresh ==
  ASSUME NEW f, FrameOK(f), NEW g, FrameOK(g), Above(f, g),
         NEW p \in Seq(NameSet), IsPrefix(g.path, p)
  PROVE  Fresh(f, {p})
<1>1. f.ready /\ f.path \in Seq(NameSet) /\ g.path \in Seq(NameSet)
  BY DEF Above, FrameOK
<1>2. PICK m \in Nat : m = Len(f.path)
  BY <1>1, LenProperties
<1>3. PICK l \in Nat : l = Len(g.path) /\ m + 1 \in 1 .. l
  BY <1>1, <1>2, LenProperties DEF Above
<1>4. p[m + 1] = g.path[m + 1]
  BY <1>1, <1>3, PrefixElements
<1>5. ASSUME NEW k \in 1 .. Len(f.left)
      PROVE  ~IsPrefix(Append(f.path, f.left[k]), p)
  <2>1. PICK q : q = Append(f.path, f.left[k]) /\ IsEntry(f, k, q)
    BY DEF IsEntry
  <2>2. q \in Seq(NameSet) /\ Len(q) = m + 1 /\ q[m + 1] = f.left[k]
    BY <2>1, <1>2, EntryPaths
  <2>3. f.left[k] # g.path[m + 1]
    BY <1>2 DEF Above
  <2>4. m + 1 \in 1 .. m + 1
    OBVIOUS
  <2>5. IsPrefix(q, p) => q[m + 1] = p[m + 1]
    BY <2>2, <2>4, PrefixElements
  <2>. QED
    BY <2>1, <2>2, <2>3, <2>5, <1>4
<1>. QED
  BY <1>1, <1>5 DEF Fresh

\* Fresh of fewer paths, and of one more.
LEMMA FreshMore ==
  ASSUME NEW f, NEW P, NEW p, NEW Q, Fresh(f, P), Fresh(f, {p}), Q \subseteq P \union {p}
  PROVE  Fresh(f, Q)
BY DEF Fresh

\* A frame that moves on has only fewer entries to go to.
LEMMA FreshMoved ==
  ASSUME NEW f, FrameOK(f), NEW g, SamePlace(f, g),
         \/ g.left = f.left
         \/ f.left # <<>> /\ g.left \in {Tail(f.left), <<>>},
         NEW P, Fresh(f, P)
  PROVE  Fresh(g, P)
<1>1. \A k \in 1 .. Len(g.left) : \E l \in 1 .. Len(f.left) : g.left[k] = f.left[l]
  BY MovedOn
<1>2. g.path = f.path /\ g.ready = f.ready
  BY DEF SamePlace
<1>3. ASSUME NEW k \in 1 .. Len(g.left), NEW p \in P
      PROVE  ~IsPrefix(Append(g.path, g.left[k]), p)
  <2>1. PICK l \in 1 .. Len(f.left) : g.left[k] = f.left[l]
    BY <1>1
  <2>2. ~IsPrefix(Append(f.path, f.left[l]), p)
    BY DEF Fresh
  <2>. QED
    BY <2>1, <2>2, <1>2
<1>. QED
  BY <1>2, <1>3 DEF Fresh

\* The names of a directory differ: an entry that is dealt with does not come again.
LEMMA FreshPassed ==
  ASSUME NEW f, FrameOK(f), f.ready, f.left # <<>>, NEW p, p = Append(f.path, Head(f.left)),
         NEW g, SamePlace(f, g), g.left \in {Tail(f.left), <<>>}
  PROVE  Fresh(g, {p})
<1>1. g.path = f.path /\ g.ready /\ FrameOK(g)
  BY MovedOn DEF SamePlace
<1>2. /\ Head(f.left) = f.left[1] /\ Len(f.left) \in Nat \ {0} /\ p \in Seq(NameSet)
      /\ p[Len(f.path) + 1] = f.left[1]
  BY EntryFacts
<1>3. PICK m \in Nat : m = Len(f.path)
  BY LenProperties DEF FrameOK
<1>4. ASSUME NEW k \in 1 .. Len(g.left)
      PROVE  g.left[k] # f.left[1]
  <2>0. g.left # <<>>
    <3>1. \A i \in 1 .. Len(<<>>) : FALSE
      OBVIOUS
    <3>. QED
      BY <3>1
  <2>1. g.left = Tail(f.left)
    BY <2>0
  <2>2. /\ Len(g.left) = Len(f.left) - 1
        /\ \A i \in 1 .. Len(g.left) : g.left[i] = f.left[i + 1]
    BY <2>1, HeadTailProperties DEF FrameOK
  <2>3. k + 1 \in 1 .. Len(f.left) /\ 1 \in 1 .. Len(f.left) /\ k + 1 # 1
    BY <1>2, <2>2
  <2>. QED
    BY <2>2, <2>3 DEF FrameOK
<1>5. ASSUME NEW k \in 1 .. Len(g.left)
      PROVE  ~IsPrefix(Append(g.path, g.left[k]), p)
  <2>1. PICK q : q = Append(g.path, g.left[k]) /\ IsEntry(g, k, q)
    BY DEF IsEntry
  <2>2. Len(g.path) = m
    BY <1>1, <1>3
  <2>3. q \in Seq(NameSet) /\ Len(q) = m + 1 /\ q[m + 1] = g.left[k]
    <3>1. FrameOK(g) /\ k \in 1 .. Len(g.left) /\ IsEntry(g, k, q)
      BY <2>1, <1>1
    <3>2. /\ q \in Seq(NameSet) /\ Len(q) = Len(g.path) + 1
          /\ q[Len(g.path) + 1] = g.left[k]
      BY <3>1, EntryPaths
    <3>. QED
      BY <3>2, <2>2
  <2>4. m + 1 \in 1 .. m + 1
    OBVIOUS
  <2>5. p \in Seq(NameSet)
    BY <1>2
  <2>6. IsPrefix(q, p) => q[m + 1] = p[m + 1]
    BY <2>3, <2>4, <2>5, PrefixAt
  <2>. QED
    BY <2>1, <2>3, <2>6, <1>2, <1>3, <1>4
<1>. QED
  BY <1>1, <1>5 DEF Fresh

--------------------------------------------------------------------------------
(* The places of the frames *)

\* A step adds charges, rows and problems at path p only.
AddsAt(p) ==
  /\ \A c \in charges' : c \in charges \/ c.path = p
  /\ \A i \in DOMAIN rows' : \/ i \in DOMAIN rows /\ rows'[i] = rows[i]
                             \/ rows'[i].path = p
  /\ \A q \in problems' : q \in problems \/ q = p
  /\ IsSequence(rows')

\* What is visited then.
LEMMA VisitedMore ==
  ASSUME NEW p, AddsAt(p)
  PROVE  Visited' \subseteq Visited \union {p}
<1>1. {c.path : c \in charges'} \subseteq {c.path : c \in charges} \union {p}
  BY DEF AddsAt
<1>2. {rows'[i].path : i \in DOMAIN rows'} \subseteq {rows[i].path : i \in DOMAIN rows} \union {p}
  BY DEF AddsAt
<1>3. problems' \subseteq problems \union {p}
  BY DEF AddsAt
<1>. QED
  BY <1>1, <1>2, <1>3 DEF Visited

\* The path of a skipped row.
LEMMA SkippedPath ==
  ASSUME NEW p
  PROVE  /\ SkippedRow(p).path = p /\ SkippedRow(p).usage = Zero
         /\ SkippedRow(p).collapsed = FALSE
BY DEF SkippedRow

\* Dealing with an entry adds at its path.
LEMMA PassAdds ==
  ASSUME PlaceInv, NEW n, NEW f, NEW g, NEW p, Passes(n, f, g, p)
  PROVE  AddsAt(p)
<1>1. IsSequence(rows)
  BY DEF PlaceInv
<1>2. \A q \in problems' : q \in problems \/ q = p
  BY DEF Passes, NotesAt
<1>3. \A c \in charges' : c \in charges \/ c.path = p
  BY DEF Passes, CountsAt
<1>4. rows' = rows \/ rows' = Append(rows, SkippedRow(p))
  BY DEF Passes, CountsAt
<1>5. ASSUME rows' = Append(rows, SkippedRow(p))
      PROVE  /\ IsSequence(rows')
             /\ \A i \in DOMAIN rows' : \/ i \in DOMAIN rows /\ rows'[i] = rows[i]
                                        \/ rows'[i].path = p
  <2>1. PICK row : row = SkippedRow(p) /\ row.path = p
    BY SkippedPath
  <2>2. rows' = Append(rows, row)
    BY <1>5, <2>1
  <2>3. /\ IsSequence(rows') /\ Len(rows) \in Nat /\ DOMAIN rows = 1 .. Len(rows)
        /\ DOMAIN rows' = 1 .. Len(rows) + 1
        /\ \A i \in 1 .. Len(rows) : rows'[i] = rows[i]
        /\ rows'[Len(rows) + 1] = row
    BY <1>1, <2>2, RowAdded
  <2>. QED
    BY <2>1, <2>3
<1>6. ASSUME rows' = rows
      PROVE  /\ IsSequence(rows')
             /\ \A i \in DOMAIN rows' : i \in DOMAIN rows /\ rows'[i] = rows[i]
  BY <1>1, <1>6
<1>. QED
  BY <1>2, <1>3, <1>4, <1>5, <1>6 DEF AddsAt

\* Leaving a directory adds at its path.
LEMMA CloseAdds ==
  ASSUME PlaceInv, NEW f, NEW row, NEW k, NEW evidence,
         Closes(f, row, evidence), RowsClose(f, row, k)
  PROVE  AddsAt(f.path)
<1>1. \A q \in problems' : q \in problems \/ q = f.path
  BY DEF Closes
<1>2. \A c \in charges' : c \in charges \/ c.path = f.path
  BY DEF Closes
<1>3. Len(rows) \in Nat /\ DOMAIN rows = 1 .. Len(rows)
  BY SequenceFacts DEF PlaceInv
<1>4. /\ IsSequence(rows') /\ k \in 0 .. Len(rows) /\ DOMAIN rows' = 1 .. k + 1
      /\ \A i \in 1 .. k : rows'[i] = rows[i]
      /\ rows'[k + 1].path = f.path
  BY DEF RowsClose, Closes
<1>5. ASSUME NEW i \in DOMAIN rows'
      PROVE  \/ i \in DOMAIN rows /\ rows'[i] = rows[i]
             \/ rows'[i].path = f.path
  <2>1. i \in 1 .. k \/ i = k + 1
    BY <1>3, <1>4
  <2>2. i \in 1 .. k => i \in DOMAIN rows /\ rows'[i] = rows[i]
    BY <1>3, <1>4
  <2>. QED
    BY <2>1, <2>2, <1>4
<1>. QED
  BY <1>1, <1>2, <1>4, <1>5 DEF AddsAt

\* Listing a directory adds at its path.
LEMMA ListAdds ==
  ASSUME PlaceInv, NEW n, NEW f, NEW g, Lists(n, f, g)
  PROVE  AddsAt(f.path)
<1>1. \A c \in charges' : c \in charges \/ c.path = f.path
  BY DEF Lists
<1>2. rows' = rows /\ problems' = problems /\ IsSequence(rows)
  BY DEF Lists, PlaceInv
<1>. QED
  BY <1>1, <1>2 DEF AddsAt

\* Sums of usages.
LEMMA PlusTypes ==
  ASSUME NEW u \in Usages, NEW v \in Usages
  PROVE  /\ Plus(u, v) \in Usages /\ WithChild(u, v) \in Usages
         /\ \A m \in Measures : /\ u[m] \in Int /\ v[m] \in Int
                                /\ Plus(u, v)[m] = u[m] + v[m]
                                /\ WithChild(u, v)[m] = u[m] + v[m] + Itself(m)
<1>1. \A m \in Measures : u[m] \in Int /\ v[m] \in Int
  BY DEF Usages
<1>2. PICK w : w = Plus(u, v) /\ w \in Usages /\ \A m \in Measures : w[m] = u[m] + v[m]
  <2>1. PICK w : w = [m \in Measures |-> u[m] + v[m]]
    OBVIOUS
  <2>2. w = Plus(u, v)
    BY <2>1 DEF Plus
  <2>3. w \in [Measures -> Int]
    BY <1>1, <2>1
  <2>4. \A m \in Measures : w[m] = u[m] + v[m]
    BY <2>1
  <2>. QED
    BY <2>2, <2>3, <2>4 DEF Usages
<1>3. PICK d : d = w["dirs"] + 1
  OBVIOUS
<1>4. PICK z : z = WithChild(u, v) /\ z = [w EXCEPT !["dirs"] = d]
  BY <1>2, <1>3 DEF WithChild
<1>5. "dirs" \in Measures
  BY DEF Measures
<1>6. z \in Usages
  BY <1>2, <1>3, <1>4, <1>5 DEF Usages
<1>7. \A m \in Measures : z[m] = w[m] + Itself(m)
  BY <1>2, <1>3, <1>4, <1>5 DEF Usages, Itself
<1>. QED
  BY <1>1, <1>2, <1>4, <1>6, <1>7

\* The row of a frame that is left has a usage, and evidence is a number.
LEMMA CloseTypes ==
  ASSUME NEW n, NEW f, OnTop(n, f), NEW row, NEW evidence, Closes(f, row, evidence)
  PROVE  row.usage \in Usages /\ evidence \in Nat
<1>1. f.usage \in Usages /\ f.evidence \in Nat /\ f.node \in Nodes
  BY DEF OnTop, FrameOK, IsDirectory
<1>. QED
  BY <1>1, UsageTypes DEF Closes

\* The places after a step that keeps the frames below the top, the m-th, which
\* becomes g.
LEMMA PlaceOn ==
  ASSUME WalkInv, PlaceInv, NEW p \in Seq(NameSet), AddsAt(p),
         NEW m \in Nat \ {0}, NEW g, StaysAs(m, g), m <= Len(stack),
         setup' = setup, phase' = "walk",
         g.usage \in Usages, g.evidence \in Nat, Fresh(g, Visited'),
         \A j \in 1 .. m - 1 : Fresh(stack[j], {p}),
         rows' = rows \/ \A j \in 1 .. m : p # stack[j].path,
         g.path = stack[m].path
  PROVE  PlaceInv'
<1>1. Visited' \subseteq Visited \union {p}
  BY VisitedMore
<1>2. \A q \in Visited' : q \in Seq(NameSet)
  BY <1>1 DEF PlaceInv
<1>3. DOMAIN stack = 1 .. Len(stack) /\ Len(stack) \in Nat
  BY SequenceFacts DEF WalkInv
<1>4. \A j \in 1 .. m : j \in DOMAIN stack
  BY <1>3
<1>5. /\ DOMAIN stack' = 1 .. m /\ stack'[m] = g
      /\ \A j \in 1 .. m - 1 : stack'[j] = stack[j]
  BY DEF StaysAs
<1>6. ASSUME NEW j \in DOMAIN stack'
      PROVE  /\ stack'[j].usage \in Usages /\ stack'[j].evidence \in Nat
             /\ Fresh(stack'[j], Visited')
             /\ stack'[j].path = stack[j].path /\ j \in DOMAIN stack /\ j \in 1 .. m
  <2>1. CASE j = m
    BY <2>1, <1>4, <1>5
  <2>2. CASE j \in 1 .. m - 1
    <3>1. stack'[j] = stack[j] /\ j \in DOMAIN stack
      BY <2>2, <1>4, <1>5
    <3>2. stack[j].usage \in Usages /\ stack[j].evidence \in Nat /\ Fresh(stack[j], Visited)
      BY <3>1 DEF PlaceInv
    <3>3. Fresh(stack[j], Visited')
      BY <2>2, <3>2, <1>1, FreshMore
    <3>. QED
      BY <2>2, <3>1, <3>2, <3>3
  <2>. QED
    BY <1>5, <2>1, <2>2
<1>7. ASSUME NEW i \in DOMAIN rows', NEW j \in DOMAIN stack'
      PROVE  rows'[i].path # stack'[j].path
  <2>1. \/ i \in DOMAIN rows /\ rows'[i] = rows[i]
        \/ rows'[i].path = p
    BY DEF AddsAt
  <2>2. i \in DOMAIN rows => rows[i].path # stack[j].path
    BY <1>6 DEF PlaceInv
  <2>3. rows' = rows \/ p # stack[j].path
    BY <1>6
  <2>. QED
    BY <2>1, <2>2, <2>3, <1>6
<1>8. setup' \in Setups /\ IsSequence(rows')
  BY DEF PlaceInv, AddsAt
<1>. QED
  BY <1>2, <1>6, <1>7, <1>8 DEF PlaceInv

\* The places after an entry is dealt with.
LEMMA PassPlace ==
  ASSUME WalkInv, PlaceInv, NEW n, NEW f, NEW g, NEW p, Passes(n, f, g, p)
  PROVE  PlaceInv'
<1>1. /\ n \in Nat \ {0} /\ n = Len(stack) /\ DOMAIN stack = 1 .. n /\ stack[n] = f
      /\ FrameOK(f) /\ Len(f.path) = n - 1 /\ f.usage \in Usages /\ f.evidence \in Nat
  BY DEF Passes, OnTop
<1>2. /\ f.ready /\ f.left # <<>> /\ p = Append(f.path, Head(f.left))
      /\ StaysAs(n, g) /\ SamePlace(f, g) /\ g.left \in {Tail(f.left), <<>>}
      /\ setup' = setup /\ phase' = "walk"
  BY DEF Passes, Carries
<1>3. p \in Seq(NameSet) /\ Len(p) = n /\ IsPrefix(f.path, p)
  <2>1. p \in Seq(NameSet) /\ Len(p) = Len(f.path) + 1 /\ IsPrefix(f.path, p)
    BY <1>1, <1>2, NextPath
  <2>. QED
    BY <2>1, <1>1
<1>4. AddsAt(p)
  BY PassAdds
<1>5. g.usage \in Usages
  <2>1. CountsAt(f, g, p)
    BY DEF Passes
  <2>2. Zero \in Usages
    BY UsageTypes, FilesystemAssumption
  <2>. QED
    BY <2>1, <2>2, <1>1, PlusTypes DEF CountsAt
<1>6. g.evidence \in Nat
  BY <1>1 DEF Passes, NotesAt
<1>7. Fresh(g, Visited')
  <2>1. Fresh(f, Visited)
    BY <1>1 DEF PlaceInv
  <2>2. Fresh(g, Visited)
    BY <2>1, <1>1, <1>2, FreshMoved
  <2>3. Fresh(g, {p})
    BY <1>1, <1>2, FreshPassed
  <2>4. Visited' \subseteq Visited \union {p}
    BY <1>4, VisitedMore
  <2>. QED
    BY <2>2, <2>3, <2>4, FreshMore
<1>8. ASSUME NEW j \in 1 .. n - 1
      PROVE  Fresh(stack[j], {p})
  <2>1. j \in DOMAIN stack /\ n \in DOMAIN stack /\ j < n
    BY <1>1
  <2>2. FrameOK(stack[j]) /\ Above(stack[j], f)
    BY <1>1, <2>1, FramePaths
  <2>. QED
    BY <2>2, <1>1, <1>3, AboveFresh
<1>9. \A j \in 1 .. n : p # stack[j].path
  <2>1. \A j \in 1 .. n : Len(stack[j].path) = j - 1
    BY <1>1, FramePaths
  <2>. QED
    BY <2>1, <1>1, <1>3
<1>10. n <= Len(stack) /\ g.path = stack[n].path
  BY <1>1, <1>2 DEF SamePlace
<1>. QED
  BY <1>1, <1>2, <1>3, <1>4, <1>5, <1>6, <1>7, <1>8, <1>9, <1>10, PlaceOn

\* The places after a directory is listed.
LEMMA ListPlace ==
  ASSUME WalkInv, PlaceInv, NEW n, NEW f, NEW g, Lists(n, f, g)
  PROVE  PlaceInv'
<1>1. /\ n \in Nat \ {0} /\ n = Len(stack) /\ DOMAIN stack = 1 .. n /\ stack[n] = f
      /\ FrameOK(f) /\ Len(f.path) = n - 1 /\ f.evidence \in Nat
      /\ f.path \in Seq(NameSet) /\ f.node \in Nodes
  BY DEF Lists, OnTop, FrameOK, IsDirectory
<1>2. /\ ~f.ready /\ StaysAs(n, g) /\ FrameOK(g) /\ g.ready /\ g.path = f.path
      /\ g.usage = DirUsage(f.node) /\ g.evidence = f.evidence
      /\ rows' = rows /\ setup' = setup /\ phase' = "walk"
  BY DEF Lists
<1>3. PICK p \in Seq(NameSet) : p = f.path
  BY <1>1
<1>4. AddsAt(p)
  BY <1>3, ListAdds
<1>5. g.usage \in Usages /\ g.evidence \in Nat
  BY <1>1, <1>2, UsageTypes
<1>6. ASSUME NEW k \in 1 .. Len(g.left), NEW q \in Visited'
      PROVE  ~IsPrefix(Append(g.path, g.left[k]), q)
  <2>1. PICK x : x = Append(g.path, g.left[k]) /\ IsEntry(g, k, x)
    BY DEF IsEntry
  <2>2. x \in Seq(NameSet) /\ Len(x) = Len(p) + 1 /\ IsPrefix(p, x)
    <3>1. /\ x \in Seq(NameSet) /\ Len(x) = Len(g.path) + 1 /\ IsPrefix(g.path, x)
      BY <2>1, <1>2, EntryPaths
    <3>. QED
      BY <3>1, <1>2, <1>3
  <2>3. Visited' \subseteq Visited \union {p}
    BY <1>4, VisitedMore
  <2>4. CASE q \in Visited
    <3>1. q \in Seq(NameSet)
      BY <2>4 DEF PlaceInv
    <3>2. n \in DOMAIN stack
      BY <1>1
    <3>3. Fresh(f, Visited)
      BY <3>2, <1>1 DEF PlaceInv
    <3>4. ~IsPrefix(p, q)
      BY <3>3, <1>2, <1>3, <2>4 DEF Fresh
    <3>5. ~IsPrefix(x, q)
      BY <2>2, <3>1, <3>4, PrefixOrder
    <3>. QED
      BY <2>1, <3>5
  <2>5. CASE q = p
    <3>1. Len(p) \in Nat
      BY LenProperties
    <3>2. ~IsPrefix(x, p)
      BY <2>2, <3>1, PrefixOrder
    <3>. QED
      BY <2>1, <2>5, <3>2
  <2>. QED
    BY <2>3, <2>4, <2>5
<1>7. Fresh(g, Visited')
  BY <1>2, <1>6 DEF Fresh
<1>8. ASSUME NEW j \in 1 .. n - 1
      PROVE  Fresh(stack[j], {p})
  <2>1. j \in DOMAIN stack /\ n \in DOMAIN stack /\ j < n
    BY <1>1
  <2>2. FrameOK(stack[j]) /\ Above(stack[j], f)
    BY <1>1, <2>1, FramePaths
  <2>3. IsPrefix(p, p)
    BY PrefixOrder
  <2>. QED
    BY <2>2, <2>3, <1>1, <1>3, AboveFresh
<1>9. n <= Len(stack) /\ g.path = stack[n].path
  BY <1>1, <1>2
<1>. QED
  BY <1>1, <1>2, <1>4, <1>5, <1>7, <1>8, <1>9, PlaceOn

\* The places after a directory is left.
LEMMA LeavePlace ==
  ASSUME WalkInv, PlaceInv, NEW n, NEW f, NEW g, NEW row, NEW k, NEW evidence,
         Leaves(n, f, g, row, k, evidence)
  PROVE  PlaceInv'
<1>1. /\ OnTop(n, f) /\ n \in Nat \ {0} /\ n = Len(stack) /\ DOMAIN stack = 1 .. n
      /\ stack[n] = f /\ FrameOK(f) /\ Len(f.path) = n - 1 /\ f.path \in Seq(NameSet)
  BY DEF Leaves, OnTop, FrameOK
<1>2. PICK m \in Nat \ {0} : m = n - 1
  BY DEF Leaves
<1>3. PICK e : e = stack[m]
  OBVIOUS
<1>4. /\ StaysAs(m, g) /\ Carries(e, g) /\ g.left = e.left
      /\ g.usage = WithChild(e.usage, row.usage)
      /\ g.evidence = e.evidence + evidence
      /\ Closes(f, row, evidence) /\ RowsClose(f, row, k)
      /\ setup' = setup /\ phase' = "walk"
  BY <1>2, <1>3 DEF Leaves
<1>5. m \in DOMAIN stack /\ \A j \in 1 .. m : j \in DOMAIN stack /\ j < n
  BY <1>1, <1>2
<1>6. FrameOK(e) /\ e.usage \in Usages /\ e.evidence \in Nat /\ Fresh(e, Visited)
  BY <1>3, <1>5, FramePaths DEF PlaceInv
<1>7. PICK p \in Seq(NameSet) : p = f.path
  BY <1>1
<1>8. AddsAt(p)
  BY <1>4, <1>7, CloseAdds
<1>9. row.usage \in Usages /\ evidence \in Nat
  BY <1>1, <1>4, CloseTypes
<1>10. g.usage \in Usages /\ g.evidence \in Nat
  BY <1>4, <1>6, <1>9, PlusTypes
<1>11. ASSUME NEW j \in 1 .. m
       PROVE  Fresh(stack[j], {p}) /\ p # stack[j].path
  <2>1. j \in DOMAIN stack /\ n \in DOMAIN stack /\ j < n
    BY <1>1, <1>5
  <2>2. FrameOK(stack[j]) /\ Above(stack[j], f) /\ stack[j].path # f.path
    BY <1>1, <2>1, FramePaths
  <2>3. IsPrefix(p, p)
    BY PrefixOrder
  <2>. QED
    BY <2>2, <2>3, <1>1, <1>7, AboveFresh
<1>12. Fresh(g, Visited')
  <2>1. SamePlace(e, g)
    BY <1>4 DEF Carries
  <2>2. m \in 1 .. m
    OBVIOUS
  <2>3. Fresh(e, {p})
    BY <1>3, <1>11, <2>2
  <2>4. Visited' \subseteq Visited \union {p}
    BY <1>8, VisitedMore
  <2>5. Fresh(e, Visited')
    BY <1>6, <2>3, <2>4, FreshMore
  <2>. QED
    BY <1>4, <1>6, <2>1, <2>5, FreshMoved
<1>13. m <= Len(stack) /\ g.path = stack[m].path
  BY <1>1, <1>2, <1>3, <1>4 DEF Carries, SamePlace
<1>14. \A j \in 1 .. m - 1 : j \in 1 .. m
  OBVIOUS
<1>. QED
  BY <1>4, <1>8, <1>10, <1>11, <1>12, <1>13, <1>14, PlaceOn

\* The places after a directory is entered.
LEMMA EnterPlace ==
  ASSUME WalkInv, PlaceInv, NEW n, NEW f, NEW g, NEW h, NEW p, Enters(n, f, g, h, p)
  PROVE  PlaceInv'
<1>1. /\ n \in Nat \ {0} /\ n = Len(stack) /\ DOMAIN stack = 1 .. n /\ stack[n] = f
      /\ FrameOK(f) /\ f.usage \in Usages /\ f.evidence \in Nat
  BY DEF Enters, OnTop
<1>2. /\ f.left # <<>> /\ p = Append(f.path, Head(f.left))
      /\ DOMAIN stack' = 1 .. n + 1
      /\ \A i \in 1 .. n - 1 : stack'[i] = stack[i]
      /\ stack'[n] = g /\ stack'[n + 1] = h
      /\ SamePlace(f, g) /\ g.left = Tail(f.left)
      /\ g.usage = f.usage /\ g.evidence = f.evidence
      /\ h.path = p /\ ~h.ready /\ h.left = <<>> /\ h.usage \in Usages /\ h.evidence = 0
      /\ charges' = charges /\ rows' = rows /\ problems' = problems
      /\ setup' = setup /\ phase' = "walk"
  BY DEF Enters, Carries
<1>3. Visited' = Visited
  BY <1>2 DEF Visited
<1>4. Fresh(f, Visited)
  BY <1>1 DEF PlaceInv
<1>5. Fresh(g, Visited)
  BY <1>1, <1>2, <1>4, FreshMoved
<1>6. \A q \in Visited : ~IsPrefix(p, q)
  <2>1. p = Append(f.path, f.left[1]) /\ 1 \in 1 .. Len(f.left)
    BY <1>1, <1>2, NextPath
  <2>. QED
    BY <2>1, <1>4 DEF Fresh
<1>7. Fresh(h, Visited)
  <2>1. \A k \in 1 .. Len(h.left) : FALSE
    BY <1>2
  <2>. QED
    BY <2>1, <1>2, <1>6 DEF Fresh
<1>8. \A i \in DOMAIN rows : rows[i].path # p
  <2>1. p \in Seq(NameSet)
    BY <1>1, <1>2, NextPath
  <2>2. IsPrefix(p, p)
    BY <2>1, PrefixOrder
  <2>. QED
    BY <2>2, <1>6 DEF Visited
<1>9. ASSUME NEW j \in DOMAIN stack'
      PROVE  /\ stack'[j].usage \in Usages /\ stack'[j].evidence \in Nat
             /\ Fresh(stack'[j], Visited)
             /\ \A i \in DOMAIN rows : rows[i].path # stack'[j].path
  <2>1. CASE j \in 1 .. n - 1
    <3>1. stack'[j] = stack[j] /\ j \in DOMAIN stack
      BY <2>1, <1>1, <1>2
    <3>. QED
      BY <3>1 DEF PlaceInv
  <2>2. CASE j = n
    <3>1. n \in DOMAIN stack /\ g.path = stack[n].path
      BY <1>1, <1>2 DEF SamePlace
    <3>2. \A i \in DOMAIN rows : rows[i].path # g.path
      BY <3>1 DEF PlaceInv
    <3>. QED
      BY <2>2, <3>2, <1>1, <1>2, <1>5
  <2>3. CASE j = n + 1
    BY <2>3, <1>2, <1>7, <1>8
  <2>4. j \in 1 .. n - 1 \/ j = n \/ j = n + 1
    BY <1>1, <1>2
  <2>. QED
    BY <2>1, <2>2, <2>3, <2>4
<1>10. setup \in Setups /\ IsSequence(rows) /\ \A q \in Visited : q \in Seq(NameSet)
  BY DEF PlaceInv
<1>. QED
  BY <1>2, <1>3, <1>9, <1>10 DEF PlaceInv

\* The places after the root is left.
LEMMA EndPlace ==
  ASSUME WalkInv, PlaceInv, NEW f, NEW row, NEW k, Ends(f, row, k)
  PROVE  PlaceInv'
<1>1. f.path \in Seq(NameSet)
  BY DEF Ends, OnTop, FrameOK
<1>2. PICK p \in Seq(NameSet) : p = f.path
  BY <1>1
<1>3. AddsAt(p)
  BY <1>2, CloseAdds DEF Ends
<1>4. Visited' \subseteq Visited \union {p}
  BY <1>3, VisitedMore
<1>5. stack' = <<>> /\ DOMAIN <<>> = {} /\ phase' = "done" /\ setup' = setup
  BY DEF Ends
<1>6. setup' \in Setups /\ IsSequence(rows') /\ \A q \in Visited' : q \in Seq(NameSet)
  BY <1>3, <1>4, <1>5 DEF PlaceInv, AddsAt
<1>. QED
  BY <1>5, <1>6 DEF PlaceInv

--------------------------------------------------------------------------------
(* The rows form a tree *)

\* The frames that are listed stay where they are.
FramesStay ==
  \A j \in DOMAIN stack :
    /\ j \in DOMAIN stack' /\ stack'[j].path = stack[j].path
    /\ stack[j].ready => stack'[j].ready /\ stack'[j].rowStart = stack[j].rowStart

\* They do in every step that does not leave a directory.
LEMMA StayFacts ==
  ASSUME NEW n, NEW f, NEW g, NEW h, NEW p,
         Passes(n, f, g, p) \/ Lists(n, f, g) \/ Enters(n, f, g, h, p)
  PROVE  FramesStay
<1>1. n \in Nat \ {0} /\ DOMAIN stack = 1 .. n /\ stack[n] = f
  BY DEF Passes, Lists, Enters, OnTop
<1>2. /\ \A j \in 1 .. n : j \in DOMAIN stack'
      /\ \A j \in 1 .. n - 1 : stack'[j] = stack[j]
      /\ stack'[n] = g
  BY <1>1 DEF Passes, Lists, Enters, StaysAs
<1>3. g.path = f.path /\ (f.ready => g.ready /\ g.rowStart = f.rowStart)
  BY DEF Passes, Lists, Enters, Carries, SamePlace
<1>4. \A j \in 1 .. n : j \in 1 .. n - 1 \/ j = n
  BY <1>1
<1>. QED
  BY <1>1, <1>2, <1>3, <1>4 DEF FramesStay

\* A step that keeps the rows.
LEMMA TreeSame ==
  ASSUME TreeInv, FramesStay, rows' = rows, phase' = "walk",
         \A j \in DOMAIN stack' : stack'[j].ready =>
           \/ j \in DOMAIN stack /\ stack[j].ready
           \/ StartsRows(rows, stack'[j])
  PROVE  TreeInv'
<1>1. \A i, j \in DOMAIN rows : rows[i].path = rows[j].path => i = j
  BY DEF TreeInv
<1>2. ASSUME NEW q, KeepsRow(rows, stack, q)
      PROVE  KeepsRow(rows', stack', q)
  BY <1>2 DEF KeepsRow, FramesStay
<1>3. \A i \in DOMAIN rows : rows[i].path # <<>> => KeepsRow(rows', stack', Front(rows[i].path))
  BY <1>2 DEF TreeInv
<1>4. ASSUME NEW j \in DOMAIN stack', stack'[j].ready
      PROVE  StartsRows(rows, stack'[j])
  <2>1. CASE j \in DOMAIN stack /\ stack[j].ready
    <3>1. StartsRows(rows, stack[j])
      BY <2>1 DEF TreeInv
    <3>2. stack'[j].path = stack[j].path /\ stack'[j].rowStart = stack[j].rowStart
      BY <2>1 DEF FramesStay
    <3>. QED
      BY <3>1, <3>2 DEF StartsRows
  <2>. QED
    BY <1>4, <2>1
<1>5. \A j \in DOMAIN stack' : stack'[j].ready => StartsRows(rows', stack'[j])
  BY <1>4 DEF StartsRows
<1>. QED
  BY <1>1, <1>3, <1>5 DEF TreeInv, Scanned

\* A step that adds the row of an entry of the directory on top.
LEMMA TreeSkip ==
  ASSUME WalkInv, PlaceInv, TreeInv, NEW n, NEW f, NEW g, NEW p, Passes(n, f, g, p),
         rows' = Append(rows, SkippedRow(p))
  PROVE  TreeInv'
<1>1. /\ n \in Nat \ {0} /\ DOMAIN stack = 1 .. n /\ stack[n] = f /\ FrameOK(f)
      /\ f.ready /\ f.left # <<>> /\ p = Append(f.path, Head(f.left)) /\ phase' = "walk"
  BY DEF Passes, OnTop
<1>2. PICK row : row = SkippedRow(p) /\ row.path = p
  BY SkippedPath
<1>3. rows' = Append(rows, row)
  BY <1>2
<1>4. PICK l \in Nat : l = Len(rows)
  BY SequenceFacts DEF PlaceInv
<1>5. /\ DOMAIN rows = 1 .. l /\ Len(rows') = l + 1 /\ DOMAIN rows' = 1 .. l + 1
      /\ \A i \in 1 .. l : rows'[i] = rows[i]
      /\ rows'[l + 1] = row
  BY <1>3, <1>4, RowAdded DEF PlaceInv
<1>6. FramesStay
  BY StayFacts
<1>7. p \in Seq(NameSet) /\ IsPrefix(f.path, p) /\ Front(p) = f.path
  BY <1>1, NextPath
<1>8. \A i \in 1 .. l : rows[i].path # p
  <2>0. n \in DOMAIN stack
    BY <1>1
  <2>1. Fresh(f, Visited) /\ \A i \in 1 .. l : rows[i].path \in Visited
    BY <1>1, <1>5, <2>0 DEF PlaceInv, Visited
  <2>2. p = Append(f.path, f.left[1]) /\ 1 \in 1 .. Len(f.left)
    BY <1>1, NextPath
  <2>3. \A q \in Visited : ~IsPrefix(p, q)
    BY <2>1, <2>2 DEF Fresh
  <2>4. IsPrefix(p, p)
    BY <1>7, PrefixOrder
  <2>. QED
    BY <2>1, <2>3, <2>4
<1>9. ASSUME NEW i \in DOMAIN rows', NEW j \in DOMAIN rows', rows'[i].path = rows'[j].path
      PROVE  i = j
  <2>1. (i \in 1 .. l \/ i = l + 1) /\ (j \in 1 .. l \/ j = l + 1)
    BY <1>5
  <2>2. CASE i \in 1 .. l /\ j \in 1 .. l
    BY <2>2, <1>5, <1>9 DEF TreeInv
  <2>3. CASE i = l + 1 /\ j \in 1 .. l
    BY <2>3, <1>2, <1>5, <1>8, <1>9
  <2>4. CASE i \in 1 .. l /\ j = l + 1
    BY <2>4, <1>2, <1>5, <1>8, <1>9
  <2>. QED
    BY <2>1, <2>2, <2>3, <2>4
<1>10. ASSUME NEW q, KeepsRow(rows, stack, q)
       PROVE  KeepsRow(rows', stack', q)
  <2>1. CASE \E j \in DOMAIN rows : rows[j].path = q /\ ~rows[j].collapsed
    <3>1. PICK j \in 1 .. l : rows[j].path = q /\ ~rows[j].collapsed
      BY <2>1, <1>5
    <3>2. j \in DOMAIN rows' /\ rows'[j] = rows[j]
      BY <1>5
    <3>. QED
      BY <3>1, <3>2 DEF KeepsRow
  <2>2. CASE \E j \in DOMAIN stack : stack[j].path = q /\ stack[j].ready
    BY <2>2, <1>6 DEF KeepsRow, FramesStay
  <2>. QED
    BY <1>10, <2>1, <2>2 DEF KeepsRow
<1>11. KeepsRow(rows', stack', Front(p))
  <2>1. n \in DOMAIN stack
    BY <1>1
  <2>. QED
    BY <2>1, <1>1, <1>6, <1>7 DEF KeepsRow, FramesStay
<1>12. ASSUME NEW i \in DOMAIN rows', rows'[i].path # <<>>
       PROVE  KeepsRow(rows', stack', Front(rows'[i].path))
  <2>1. CASE i \in 1 .. l
    <3>1. KeepsRow(rows, stack, Front(rows[i].path))
      BY <2>1, <1>5, <1>12 DEF TreeInv
    <3>2. rows'[i] = rows[i]
      BY <2>1, <1>5
    <3>. QED
      BY <3>1, <3>2, <1>10
  <2>2. CASE i = l + 1
    BY <2>2, <1>2, <1>5, <1>11
  <2>. QED
    BY <2>1, <2>2, <1>5
<1>13. ASSUME NEW j \in DOMAIN stack', stack'[j].ready
       PROVE  StartsRows(rows', stack'[j])
  <2>1. j \in DOMAIN stack /\ stack[j].ready
    <3>1. j \in 1 .. n - 1 => stack'[j] = stack[j]
      BY DEF Passes, StaysAs
    <3>2. j \in 1 .. n
      BY DEF Passes, StaysAs
    <3>. QED
      BY <1>1, <1>13, <3>1, <3>2
  <2>2. stack'[j].path = stack[j].path /\ stack'[j].rowStart = stack[j].rowStart
    BY <2>1, <1>6 DEF FramesStay
  <2>3. PICK e : e = stack'[j]
    OBVIOUS
  <2>4. /\ e.rowStart \in 0 .. l
        /\ \A i \in 1 .. l : IsPrefix(e.path, rows[i].path) <=> i > e.rowStart
    BY <2>1, <2>2, <2>3, <1>4 DEF TreeInv, StartsRows
  <2>5. IsPrefix(e.path, p)
    <3>1. n \in DOMAIN stack /\ j <= n
      BY <1>1, <2>1
    <3>2. IsPrefix(e.path, f.path) /\ e.path \in Seq(NameSet) /\ f.path \in Seq(NameSet)
      BY <3>1, <1>1, <2>1, <2>2, <2>3, FramePaths
    <3>. QED
      BY <3>2, <1>7, PrefixOrder
  <2>6. \A i \in 1 .. l + 1 : IsPrefix(e.path, rows'[i].path) <=> i > e.rowStart
    <3>1. \A i \in 1 .. l : IsPrefix(e.path, rows'[i].path) <=> i > e.rowStart
      BY <2>4, <1>5
    <3>2. IsPrefix(e.path, rows'[l + 1].path) /\ l + 1 > e.rowStart
      BY <2>4, <2>5, <1>2, <1>5
    <3>3. \A i \in 1 .. l + 1 : i \in 1 .. l \/ i = l + 1
      OBVIOUS
    <3>. QED
      BY <3>1, <3>2, <3>3
  <2>7. e.rowStart \in 0 .. l + 1
    BY <2>4
  <2>. QED
    BY <2>3, <2>6, <2>7, <1>5 DEF StartsRows
<1>. QED
  BY <1>1, <1>9, <1>12, <1>13 DEF TreeInv, Scanned

\* The tree after an entry is dealt with, a directory listed or entered.
LEMMA GoOnTree ==
  ASSUME WalkInv, PlaceInv, TreeInv, NEW n, NEW f, NEW g, NEW h, NEW p,
         Passes(n, f, g, p) \/ Lists(n, f, g) \/ Enters(n, f, g, h, p)
  PROVE  TreeInv'
<1>1. FramesStay /\ phase' = "walk"
  BY StayFacts DEF Passes, Lists, Enters
<1>2. n \in Nat \ {0} /\ DOMAIN stack = 1 .. n /\ stack[n] = f
  BY DEF Passes, Lists, Enters, OnTop
<1>3. CASE Passes(n, f, g, p)
  <2>1. CASE rows' = rows
    <3>1. ASSUME NEW j \in DOMAIN stack' PROVE j \in DOMAIN stack /\ (j = n \/ stack'[j] = stack[j])
      BY <1>2, <1>3 DEF Passes, StaysAs
    <3>2. stack[n].ready
      BY <1>2, <1>3 DEF Passes
    <3>. QED
      BY <1>1, <2>1, <3>1, <3>2, TreeSame
  <2>2. rows' = rows \/ rows' = Append(rows, SkippedRow(p))
    BY <1>3 DEF Passes, CountsAt
  <2>. QED
    BY <1>3, <2>1, <2>2, TreeSkip
<1>4. CASE Lists(n, f, g)
  <2>1. StartsRows(rows, g)
    <3>1. PICK l \in Nat : l = Len(rows) /\ DOMAIN rows = 1 .. l
      BY SequenceFacts DEF PlaceInv
    <3>2. \A i \in 1 .. l : ~IsPrefix(g.path, rows[i].path)
      <4>1. Fresh(f, Visited) /\ ~f.ready /\ g.path = f.path
        BY <1>2, <1>4 DEF PlaceInv, Lists
      <4>. QED
        BY <3>1, <4>1 DEF Fresh, Visited
    <3>3. g.rowStart = l /\ l \in 0 .. l /\ \A i \in 1 .. l : ~(i > l)
      BY <1>4, <3>1 DEF Lists
    <3>. QED
      BY <3>1, <3>2, <3>3 DEF StartsRows
  <2>2. ASSUME NEW j \in DOMAIN stack'
        PROVE  stack'[j] = g \/ (j \in DOMAIN stack /\ stack'[j] = stack[j])
    BY <1>2, <1>4 DEF Lists, StaysAs
  <2>3. rows' = rows
    BY <1>4 DEF Lists
  <2>. QED
    BY <1>1, <2>1, <2>2, <2>3, TreeSame
<1>5. CASE Enters(n, f, g, h, p)
  <2>1. ASSUME NEW j \in DOMAIN stack', stack'[j].ready
        PROVE  j \in DOMAIN stack /\ stack[j].ready
    <3>1. j \in 1 .. n + 1 /\ stack'[n + 1] = h /\ ~h.ready /\ f.ready
      BY <1>5 DEF Enters
    <3>2. j \in 1 .. n
      BY <1>2, <2>1, <3>1
    <3>3. j \in 1 .. n - 1 => stack'[j] = stack[j]
      BY <1>5 DEF Enters
    <3>. QED
      BY <1>2, <2>1, <3>1, <3>2, <3>3
  <2>2. rows' = rows
    BY <1>5 DEF Enters
  <2>. QED
    BY <1>1, <2>1, <2>2, TreeSame
<1>. QED
  BY <1>3, <1>4, <1>5

\* A path and the one of its directory.
LEMMA FrontPrefix ==
  ASSUME NEW S, NEW q \in Seq(S), q # <<>>
  PROVE  Front(q) \in Seq(S) /\ IsPrefix(Front(q), q) /\ Len(Front(q)) = Len(q) - 1
<1>1. PICK s : s = Front(q)
  OBVIOUS
<1>2. PICK m \in Nat \ {0} : m = Len(q)
  BY DropLast
<1>3. s \in Seq(S) /\ Len(s) = m - 1 /\ \A i \in 1 .. m - 1 : s[i] = q[i]
  BY <1>1, <1>2, DropLast
<1>4. IsPrefix(s, q)
  BY <1>2, <1>3, PrefixElements
<1>. QED
  BY <1>1, <1>2, <1>3, <1>4

\* Leaving a directory loses no expanded row outside of it, nor, unless it is
\* collapsed, inside.
LEMMA RowKept ==
  ASSUME WalkInv, PlaceInv, TreeInv, NEW n, NEW f, OnTop(n, f),
         NEW row, NEW k, NEW evidence, Closes(f, row, evidence), RowsClose(f, row, k),
         NEW q, KeepsRow(rows, stack, q),
         IsPrefix(f.path, q) => k = Len(rows) /\ ~row.collapsed
  PROVE  \/ \E i \in DOMAIN rows' : rows'[i].path = q /\ ~rows'[i].collapsed
         \/ \E j \in 1 .. n - 1 : stack[j].path = q /\ stack[j].ready
<1>1. PICK l \in Nat : l = Len(rows) /\ DOMAIN rows = 1 .. l
  BY SequenceFacts DEF PlaceInv
<1>2. /\ k \in 0 .. l /\ DOMAIN rows' = 1 .. k + 1
      /\ \A i \in 1 .. k : rows'[i] = rows[i]
      /\ rows'[k + 1] = row
      /\ k = l \/ (f.ready /\ k = f.rowStart)
  BY <1>1 DEF RowsClose
<1>3. n \in Nat \ {0} /\ DOMAIN stack = 1 .. n /\ stack[n] = f /\ f.path \in Seq(NameSet)
  BY DEF OnTop, FrameOK
<1>4. ASSUME NEW j \in 1 .. l, rows[j].path = q, ~rows[j].collapsed
      PROVE  \E i \in DOMAIN rows' : rows'[i].path = q /\ ~rows'[i].collapsed
  <2>1. CASE j \in 1 .. k
    BY <2>1, <1>2, <1>4
  <2>2. CASE j \notin 1 .. k
    <3>1. k # l /\ j > k
      BY <2>2, <1>2, <1>4
    <3>2. f.ready /\ k = f.rowStart
      BY <3>1, <1>2
    <3>3. StartsRows(rows, f)
      BY <3>2, <1>3 DEF TreeInv
    <3>4. IsPrefix(f.path, q)
      BY <3>1, <3>2, <3>3, <1>1, <1>4 DEF StartsRows
    <3>. QED
      BY <3>1, <3>4, <1>1
  <2>. QED
    BY <2>1, <2>2
<1>5. ASSUME NEW j \in 1 .. n, stack[j].path = q, stack[j].ready
      PROVE  \/ \E i \in DOMAIN rows' : rows'[i].path = q /\ ~rows'[i].collapsed
             \/ j \in 1 .. n - 1
  <2>1. CASE j = n
    <3>1. q = f.path /\ IsPrefix(f.path, q)
      BY <2>1, <1>3, <1>5, PrefixOrder
    <3>2. ~row.collapsed /\ row.path = q
      BY <3>1 DEF Closes
    <3>3. k + 1 \in DOMAIN rows'
      BY <1>2
    <3>. QED
      BY <3>2, <3>3, <1>2
  <2>. QED
    BY <2>1, <1>3
<1>. QED
  BY <1>1, <1>3, <1>4, <1>5 DEF KeepsRow

\* The rows after a directory is left.
LEMMA CloseTree ==
  ASSUME WalkInv, PlaceInv, TreeInv, NEW n, NEW f, OnTop(n, f),
         NEW row, NEW k, NEW evidence, Closes(f, row, evidence), RowsClose(f, row, k)
  PROVE  /\ \A i, j \in DOMAIN rows' : rows'[i].path = rows'[j].path => i = j
         /\ \A i \in 1 .. k : rows'[i].path # <<>> =>
              \/ \E j \in DOMAIN rows' : /\ rows'[j].path = Front(rows'[i].path)
                                         /\ ~rows'[j].collapsed
              \/ \E j \in 1 .. n - 1 : /\ stack[j].path = Front(rows'[i].path)
                                       /\ stack[j].ready
         /\ \A j \in 1 .. n - 1 : StartsRows(rows', stack[j]) /\ stack[j].ready
<1>1. PICK l \in Nat : l = Len(rows) /\ DOMAIN rows = 1 .. l
  BY SequenceFacts DEF PlaceInv
<1>2. /\ k \in 0 .. l /\ DOMAIN rows' = 1 .. k + 1 /\ Len(rows') = k + 1
      /\ \A i \in 1 .. k : rows'[i] = rows[i]
      /\ rows'[k + 1] = row
      /\ (k = l /\ ~row.collapsed) \/ (f.ready /\ k = f.rowStart)
      /\ row.path = f.path
  BY <1>1 DEF RowsClose, Closes
<1>3. n \in Nat \ {0} /\ DOMAIN stack = 1 .. n /\ stack[n] = f /\ f.path \in Seq(NameSet)
  BY DEF OnTop, FrameOK
<1>4. \A i \in 1 .. k : i \in 1 .. l /\ i \in DOMAIN rows
  BY <1>1, <1>2
<1>5. n \in DOMAIN stack
  BY <1>3
<1>6. \A i \in 1 .. k : rows'[i].path # row.path
  BY <1>2, <1>3, <1>4, <1>5 DEF PlaceInv
<1>7. ASSUME NEW i \in DOMAIN rows', NEW j \in DOMAIN rows', rows'[i].path = rows'[j].path
      PROVE  i = j
  <2>1. (i \in 1 .. k \/ i = k + 1) /\ (j \in 1 .. k \/ j = k + 1)
    BY <1>2
  <2>2. CASE i \in 1 .. k /\ j \in 1 .. k
    BY <2>2, <1>2, <1>4, <1>7 DEF TreeInv
  <2>3. CASE i = k + 1 /\ j \in 1 .. k
    BY <2>3, <1>2, <1>6, <1>7
  <2>4. CASE i \in 1 .. k /\ j = k + 1
    BY <2>4, <1>2, <1>6, <1>7
  <2>. QED
    BY <2>1, <2>2, <2>3, <2>4
<1>8. ASSUME NEW i \in 1 .. k, rows'[i].path # <<>>
      PROVE  \/ \E j \in DOMAIN rows' : /\ rows'[j].path = Front(rows'[i].path)
                                        /\ ~rows'[j].collapsed
             \/ \E j \in 1 .. n - 1 : /\ stack[j].path = Front(rows'[i].path)
                                      /\ stack[j].ready
  <2>1. PICK r : r = rows[i].path /\ r = rows'[i].path /\ r # <<>>
    BY <1>2, <1>8
  <2>2. r \in Seq(NameSet)
    BY <1>4, <2>1 DEF PlaceInv, Visited
  <2>3. PICK q : q = Front(r)
    OBVIOUS
  <2>4. q \in Seq(NameSet) /\ IsPrefix(q, r)
    BY <2>1, <2>2, <2>3, FrontPrefix
  <2>5. KeepsRow(rows, stack, q)
    BY <1>4, <2>1, <2>3 DEF TreeInv
  <2>6. ASSUME IsPrefix(f.path, q)
        PROVE  k = l /\ ~row.collapsed
    <3>1. IsPrefix(f.path, r)
      BY <1>3, <2>2, <2>4, <2>6, PrefixOrder
    <3>2. ASSUME f.ready PROVE k # f.rowStart
      <4>1. StartsRows(rows, f)
        BY <3>2, <1>3, <1>5 DEF TreeInv
      <4>2. i > f.rowStart
        BY <4>1, <3>1, <1>1, <1>4, <2>1 DEF StartsRows
      <4>3. f.rowStart \in 0 .. l
        BY <4>1, <1>1 DEF StartsRows
      <4>. QED
        BY <4>2, <4>3, <1>2
    <3>. QED
      BY <3>2, <1>2
  <2>. QED
    BY <2>1, <2>3, <2>5, <2>6, <1>1, RowKept
<1>9. ASSUME NEW j \in 1 .. n - 1
      PROVE  StartsRows(rows', stack[j]) /\ stack[j].ready
  <2>1. PICK e : e = stack[j]
    OBVIOUS
  <2>2. j \in DOMAIN stack /\ j < n /\ j <= n
    BY <1>3
  <2>3. /\ e.ready /\ IsPrefix(e.path, f.path) /\ e.path \in Seq(NameSet)
    BY <1>3, <1>5, <2>1, <2>2, FramePaths DEF Above
  <2>4. StartsRows(rows, e)
    BY <2>1, <2>2, <2>3 DEF TreeInv
  <2>5. /\ e.rowStart \in 0 .. l
        /\ \A i \in 1 .. l : IsPrefix(e.path, rows[i].path) <=> i > e.rowStart
    BY <2>4, <1>1 DEF StartsRows
  <2>6. e.rowStart <= k
    <3>1. CASE k = l
      BY <3>1, <2>5
    <3>2. CASE f.ready /\ k = f.rowStart /\ e.rowStart > k
      <4>1. PICK i \in 1 .. l : i = e.rowStart /\ i > k
        BY <3>2, <2>5, <1>2
      <4>2. StartsRows(rows, f)
        BY <3>2, <1>3, <1>5 DEF TreeInv
      <4>3. IsPrefix(f.path, rows[i].path)
        BY <3>2, <4>1, <4>2, <1>1 DEF StartsRows
      <4>4. rows[i].path \in Seq(NameSet)
        BY <1>1, <4>1 DEF PlaceInv, Visited
      <4>5. IsPrefix(e.path, rows[i].path)
        BY <2>3, <4>3, <4>4, <1>3, PrefixOrder
      <4>6. i > e.rowStart
        BY <2>5, <4>5
      <4>. QED
        BY <4>1, <4>6
    <3>. QED
      BY <3>1, <3>2, <2>5, <1>2
  <2>7. ASSUME NEW i \in 1 .. k + 1
        PROVE  IsPrefix(e.path, rows'[i].path) <=> i > e.rowStart
    <3>1. CASE i \in 1 .. k
      BY <3>1, <1>2, <1>4, <2>5
    <3>2. CASE i = k + 1
      <4>1. IsPrefix(e.path, rows'[i].path)
        BY <3>2, <1>2, <2>3
      <4>2. i > e.rowStart
        BY <3>2, <1>2, <2>5, <2>6
      <4>. QED
        BY <4>1, <4>2
    <3>. QED
      BY <3>1, <3>2, <1>2
  <2>8. e.rowStart \in 0 .. k + 1
    BY <2>5, <2>6, <1>2
  <2>. QED
    BY <2>1, <2>3, <2>7, <2>8, <1>2 DEF StartsRows
<1>. QED
  BY <1>7, <1>8, <1>9

\* The tree after a directory is left.
LEMMA LeaveTree ==
  ASSUME WalkInv, PlaceInv, TreeInv, NEW n, NEW f, NEW g, NEW row, NEW k, NEW evidence,
         Leaves(n, f, g, row, k, evidence)
  PROVE  TreeInv'
<1>1. PICK m \in Nat \ {0} : m = n - 1
  BY DEF Leaves
<1>2. /\ OnTop(n, f) /\ StaysAs(m, g) /\ Carries(stack[m], g)
      /\ Closes(f, row, evidence) /\ RowsClose(f, row, k) /\ phase' = "walk"
  BY <1>1 DEF Leaves
<1>3. /\ \A i, j \in DOMAIN rows' : rows'[i].path = rows'[j].path => i = j
      /\ \A i \in 1 .. k : rows'[i].path # <<>> =>
           \/ \E j \in DOMAIN rows' : /\ rows'[j].path = Front(rows'[i].path)
                                      /\ ~rows'[j].collapsed
           \/ \E j \in 1 .. m : stack[j].path = Front(rows'[i].path) /\ stack[j].ready
      /\ \A j \in 1 .. m : StartsRows(rows', stack[j]) /\ stack[j].ready
  BY <1>1, <1>2, CloseTree
<1>4. /\ DOMAIN stack' = 1 .. m
      /\ \A j \in 1 .. m : /\ stack'[j].path = stack[j].path /\ stack'[j].ready = stack[j].ready
                           /\ stack'[j].rowStart = stack[j].rowStart
  <2>1. \A j \in 1 .. m : j \in 1 .. m - 1 \/ j = m
    OBVIOUS
  <2>. QED
    BY <2>1, <1>2 DEF StaysAs, Carries, SamePlace
<1>5. \A j \in DOMAIN stack' : stack'[j].ready => StartsRows(rows', stack'[j])
  BY <1>3, <1>4 DEF StartsRows
<1>6. KeepsRow(rows', stack', Front(f.path))
  <2>1. /\ n \in Nat \ {0} /\ DOMAIN stack = 1 .. n /\ stack[n] = f
        /\ f.path \in Seq(NameSet) /\ Len(f.path) = n - 1
    BY <1>2 DEF OnTop, FrameOK
  <2>2. m \in DOMAIN stack /\ n \in DOMAIN stack /\ m <= n
    BY <1>1, <2>1
  <2>3. PICK a : a = stack[m].path
    OBVIOUS
  <2>4. a \in Seq(NameSet) /\ Len(a) = m - 1 /\ IsPrefix(a, f.path)
    BY <2>1, <2>2, <2>3, FramePaths
  <2>5. f.path # <<>>
    BY <1>1, <2>1, EmptySeq
  <2>6. PICK b : b = Front(f.path)
    OBVIOUS
  <2>7. b \in Seq(NameSet) /\ IsPrefix(b, f.path) /\ Len(b) = m - 1
    BY <1>1, <2>1, <2>5, <2>6, FrontPrefix
  <2>8. IsPrefix(a, b)
    BY <2>1, <2>4, <2>7, PrefixOrder
  <2>9. a = b
    BY <2>4, <2>7, <2>8, PrefixOrder
  <2>10. m \in 1 .. m
    OBVIOUS
  <2>11. m \in DOMAIN stack' /\ stack'[m].path = Front(f.path) /\ stack'[m].ready
    BY <2>3, <2>6, <2>9, <2>10, <1>3, <1>4
  <2>. QED
    BY <2>11 DEF KeepsRow
<1>7. ASSUME NEW i \in DOMAIN rows', rows'[i].path # <<>>
      PROVE  KeepsRow(rows', stack', Front(rows'[i].path))
  <2>1. /\ DOMAIN rows' = 1 .. k + 1 /\ k \in Nat /\ rows'[k + 1].path = f.path
    <3>1. Len(rows) \in Nat
      BY SequenceFacts DEF PlaceInv
    <3>. QED
      BY <3>1, <1>2 DEF RowsClose, Closes
  <2>2. CASE i \in 1 .. k
    BY <2>2, <1>3, <1>4, <1>7 DEF KeepsRow
  <2>3. CASE i = k + 1
    BY <2>1, <2>3, <1>6
  <2>. QED
    BY <2>1, <2>2, <2>3
<1>. QED
  BY <1>2, <1>3, <1>5, <1>7 DEF TreeInv, Scanned

\* The tree after the root is left.
LEMMA EndTree ==
  ASSUME WalkInv, PlaceInv, TreeInv, NEW f, NEW row, NEW k, Ends(f, row, k)
  PROVE  TreeInv'
<1>1. /\ OnTop(1, f) /\ stack' = <<>> /\ Closes(f, row, f.evidence) /\ RowsClose(f, row, k)
  BY DEF Ends
<1>2. /\ \A i, j \in DOMAIN rows' : rows'[i].path = rows'[j].path => i = j
      /\ \A i \in 1 .. k : rows'[i].path # <<>> =>
           \/ \E j \in DOMAIN rows' : /\ rows'[j].path = Front(rows'[i].path)
                                      /\ ~rows'[j].collapsed
           \/ \E j \in 1 .. 1 - 1 : stack[j].path = Front(rows'[i].path) /\ stack[j].ready
  BY <1>1, CloseTree
<1>3. \A j \in 1 .. 1 - 1 : FALSE
  OBVIOUS
<1>4. f.path = <<>>
  <2>1. f.path \in Seq(NameSet) /\ Len(f.path) = 0
    BY <1>1 DEF OnTop, FrameOK
  <2>. QED
    BY <2>1, EmptySeq
<1>5. /\ DOMAIN rows' = 1 .. k + 1 /\ k \in Nat /\ rows'[k + 1].path = <<>>
      /\ Len(rows') = k + 1
  <2>1. Len(rows) \in Nat
    BY SequenceFacts DEF PlaceInv
  <2>. QED
    BY <2>1, <1>1, <1>4 DEF RowsClose, Closes
<1>6. ASSUME NEW i \in DOMAIN rows', rows'[i].path # <<>>
      PROVE  KeepsRow(rows', stack', Front(rows'[i].path))
  <2>1. i \in 1 .. k
    BY <1>5, <1>6
  <2>. QED
    BY <2>1, <1>2, <1>3, <1>6 DEF KeepsRow
<1>7. rows' # <<>> /\ Last(rows').path = <<>>
  <2>1. k + 1 \in DOMAIN rows'
    BY <1>5
  <2>2. rows' # <<>>
    BY <2>1
  <2>. QED
    BY <2>2, <1>5 DEF Last
<1>8. DOMAIN stack' = {}
  BY <1>1
<1>. QED
  BY <1>2, <1>6, <1>7, <1>8 DEF TreeInv

--------------------------------------------------------------------------------
(* The kinds of steps *)

\* The walk starts with frame h.
Starts(h) ==
  /\ phase = "prepare" /\ phase' = "walk"
  /\ DOMAIN stack' = 1 .. 1 /\ Len(stack') = 1 /\ stack'[1] = h
  /\ h.path = <<>> /\ ~h.ready /\ h.left = <<>> /\ h.usage \in Usages /\ h.evidence = 0
  /\ rows' = rows /\ charges' = charges /\ problems' = problems /\ setup' = setup

\* The scan fails before it has counted anything.
Stops ==
  /\ Visited = {}
  /\ phase' = "done" /\ status' = "failed" /\ stack' = <<>>
  /\ rows' = rows /\ charges' = charges /\ problems' = problems /\ setup' = setup

RowsInv == PlaceInv /\ TreeInv

\* Every step of a scan is of one of these kinds.
LEMMA StepKinds ==
  ASSUME WalkInv, WalkInv', RowsInv, [Next]_vars
  PROVE  \/ \E n, f, g, p : Passes(n, f, g, p)
         \/ \E n, f, g : Lists(n, f, g)
         \/ \E n, f, g, h, p : Enters(n, f, g, h, p)
         \/ \E n, f, g, row, k, evidence : Leaves(n, f, g, row, k, evidence)
         \/ \E f, row, k : Ends(f, row, k)
         \/ \E h : Starts(h)
         \/ Stops
         \/ UNCHANGED vars
<1>. PlaceInv /\ TreeInv
  BY DEF RowsInv
<1>1. CASE RootAccepted
  <2>1. PICK h, mount : h = NewFrame(<<>>, Root, mount) /\ stack' = <<h>>
    BY <1>1 DEF RootAccepted
  <2>2. h.path = <<>> /\ ~h.ready /\ h.left = <<>> /\ h.usage = Zero /\ h.evidence = 0
    BY <2>1 DEF NewFrame
  <2>3. h.usage \in Usages
    BY <2>2 DEF Zero, Usages
  <2>4. DOMAIN stack' = 1 .. 1 /\ Len(stack') = 1 /\ stack'[1] = h
    BY <2>1
  <2>5. /\ phase = "prepare" /\ phase' = "walk"
        /\ rows' = rows /\ charges' = charges /\ problems' = problems /\ setup' = setup
    BY <1>1 DEF RootAccepted, ghosts
  <2>. QED
    BY <2>2, <2>3, <2>4, <2>5 DEF Starts
<1>2. CASE RootRejected \/ ListRootFails
  <2>1. /\ phase' = "done" /\ status' = "failed" /\ stack' = <<>>
        /\ rows' = rows /\ charges' = charges /\ problems' = problems /\ setup' = setup
    BY <1>2 DEF RootRejected, ListRootFails, ghosts, PlaceInv
  <2>2. CASE RootRejected
    <3>1. charges = {} /\ problems = {} /\ rows = <<>> /\ DOMAIN <<>> = {}
      BY <2>2 DEF RootRejected, PlaceInv
    <3>. QED
      BY <2>1, <3>1 DEF Stops, Visited
  <2>3. CASE ListRootFails
    <3>1. stack # <<>> /\ ~Frame.ready /\ Frame.path = <<>>
      BY <2>3 DEF ListRootFails, WalkInv
    <3>2. PICK n, f : OnTop(n, f) /\ f = Frame
      BY <3>1, TopFrame
    <3>3. n \in DOMAIN stack /\ stack[n] = f /\ ~f.ready /\ f.path = <<>>
      BY <3>1, <3>2 DEF OnTop
    <3>4. \A q \in Visited : q \in Seq(NameSet) /\ ~IsPrefix(<<>>, q)
      BY <3>3 DEF PlaceInv, Fresh
    <3>5. Visited = {}
      BY <3>4, RootPrefix
    <3>. QED
      BY <2>1, <3>5 DEF Stops
  <2>. QED
    BY <1>2, <2>2, <2>3
<1>3. CASE ListDirectory
  BY <1>3, ListFacts
<1>4. CASE \E missing \in BOOLEAN : ListFails(missing)
  BY <1>4, LeaveFacts
<1>5. CASE FinishFrame
  BY <1>5, LeaveFacts, EndFacts
<1>6. CASE AtEntry /\ Entry
  <2>1. ASSUME NEW x \in Found, EnterDirectory(x)
        PROVE  \E n, f, g, h, p : Enters(n, f, g, h, p)
    BY <2>1, EnterFacts
  <2>2. ASSUME NEW x \in Found,
               ExcludedDirectory(x) \/ SkipDirectory(x) \/ CountFile(x) \/ HardlinkLimit(x)
        PROVE  \E n, f, g, p : Passes(n, f, g, p)
    <3>1. x \in Nodes
      BY <1>6, FoundNodes
    <3>. QED
      BY <2>2, <3>1, PassFacts
  <2>3. CASE ExcludedOther \/ \E missing \in BOOLEAN : EntryFails(missing)
    <3>1. Root \in Nodes
      BY FilesystemAssumption
    <3>. QED
      BY <2>3, <3>1, PassFacts
  <2>. QED
    BY <1>6, <2>1, <2>2, <2>3 DEF Entry
<1>. QED
  BY <1>1, <1>2, <1>3, <1>4, <1>5, <1>6 DEF Next

\* Every row of the scan has its place in the tree.
THEOREM RowsInvariance == Spec => []RowsInv
<1>1. Init => RowsInv
  <2>. SUFFICES ASSUME Init PROVE RowsInv
    OBVIOUS
  <2>1. <<>> \in Seq({}) /\ DOMAIN <<>> = {}
    OBVIOUS
  <2>. QED
    BY <2>1 DEF Init, RowsInv, PlaceInv, TreeInv, IsSequence, Visited, Scanned
<1>2. WalkInv /\ WalkInv' /\ RowsInv /\ [Next]_vars => RowsInv'
  <2>. SUFFICES ASSUME WalkInv, WalkInv', RowsInv, [Next]_vars
                PROVE  RowsInv'
    OBVIOUS
  <2>. PlaceInv /\ TreeInv
    BY DEF RowsInv
  <2>1. ASSUME NEW h, Starts(h)
        PROVE  RowsInv'
    <3>1. /\ charges' = {} /\ problems' = {} /\ rows' = <<>> /\ setup' \in Setups
          /\ phase' = "walk" /\ DOMAIN stack' = 1 .. 1 /\ stack'[1] = h
          /\ ~h.ready /\ h.left = <<>> /\ h.usage \in Usages /\ h.evidence = 0
      BY <2>1 DEF Starts, PlaceInv
    <3>2. \A j \in DOMAIN stack' : stack'[j] = h
      BY <3>1
    <3>3. IsSequence(<<>>) /\ DOMAIN rows' = {} /\ Visited' = {}
      <4>1. <<>> \in Seq({}) /\ DOMAIN <<>> = {}
        OBVIOUS
      <4>. QED
        BY <3>1, <4>1 DEF Visited, IsSequence
    <3>4. Fresh(h, {})
      BY DEF Fresh
    <3>. QED
      BY <3>1, <3>2, <3>3, <3>4 DEF RowsInv, PlaceInv, TreeInv, Scanned
  <2>2. CASE Stops
    <3>1. /\ phase' = "done" /\ status' = "failed" /\ stack' = <<>> /\ rows' = rows
          /\ charges' = charges /\ problems' = problems /\ setup' = setup
          /\ DOMAIN stack' = {} /\ Visited = {}
      BY <2>2 DEF Stops
    <3>2. Visited' = Visited
      BY <3>1 DEF Visited
    <3>3. DOMAIN rows = {}
      BY <3>1 DEF Visited
    <3>. QED
      BY <3>1, <3>2, <3>3 DEF RowsInv, PlaceInv, TreeInv, Scanned
  <2>3. CASE UNCHANGED vars
    BY <2>3 DEF vars, RowsInv, PlaceInv, TreeInv, Visited, Scanned
  <2>4. ASSUME NEW n, NEW f, NEW g, NEW h, NEW p,
               Passes(n, f, g, p) \/ Lists(n, f, g) \/ Enters(n, f, g, h, p)
        PROVE  RowsInv'
    BY <2>4, PassPlace, ListPlace, EnterPlace, GoOnTree DEF RowsInv
  <2>5. ASSUME NEW n, NEW f, NEW g, NEW row, NEW k, NEW evidence,
               Leaves(n, f, g, row, k, evidence)
        PROVE  RowsInv'
    BY <2>5, LeavePlace, LeaveTree DEF RowsInv
  <2>6. ASSUME NEW f, NEW row, NEW k, Ends(f, row, k)
        PROVE  RowsInv'
    BY <2>6, EndPlace, EndTree DEF RowsInv
  <2>. QED
    BY <2>1, <2>2, <2>3, <2>4, <2>5, <2>6, StepKinds
<1>. QED
  BY <1>1, <1>2, WalkInvariance, PTL DEF Spec

\* The rows of every finished scan are a tree, whatever was skipped, collapsed or
\* failed on the way: insert_directory_rows meets no path twice and no parent
\* that has no row, or a collapsed one.
THEOREM RowsAreTree == Spec => []RowsFormTree
<1>1. RowsInv => RowsFormTree
  <2>. SUFFICES ASSUME RowsInv, Scanned
                PROVE  /\ \A i, j \in DOMAIN rows : rows[i].path = rows[j].path => i = j
                       /\ Last(rows).path = <<>>
                       /\ \A i \in DOMAIN rows : rows[i].path # <<>> =>
                            \E j \in DOMAIN rows :
                              rows[j].path = Front(rows[i].path) /\ ~rows[j].collapsed
    BY DEF RowsFormTree
  <2>1. stack = <<>>
    BY DEF RowsInv, PlaceInv, Scanned
  <2>2. DOMAIN stack = {}
    BY <2>1
  <2>3. \A i \in DOMAIN rows : rows[i].path # <<>> =>
          KeepsRow(rows, stack, Front(rows[i].path))
    BY DEF RowsInv, TreeInv
  <2>4. \A i \in DOMAIN rows : rows[i].path # <<>> =>
          \E j \in DOMAIN rows : rows[j].path = Front(rows[i].path) /\ ~rows[j].collapsed
    BY <2>2, <2>3 DEF KeepsRow
  <2>. QED
    BY <2>4 DEF RowsInv, TreeInv
<1>. QED
  BY <1>1, RowsInvariance, PTL

--------------------------------------------------------------------------------
(* Protected directories keep their rows *)

\* A directory above a protected one is protected.
LEMMA GuardedAbove ==
  ASSUME setup \in Setups, NEW a \in Seq(NameSet), NEW b \in Seq(NameSet), IsPrefix(a, b),
         Guarded(setup, b)
  PROVE  Guarded(setup, a)
<1>. DEFINE S == NameSet \union Range(Names)
<1>1. PICK x \in setup.never : IsPrefix(x, b) \/ IsPrefix(b, x)
  BY DEF Guarded
<1>2. x \in Seq(Range(Names))
  BY SetupAssumption
<1>3. a \in Seq(S) /\ b \in Seq(S) /\ x \in Seq(S)
  <2>1. NameSet \subseteq S /\ Range(Names) \subseteq S
    OBVIOUS
  <2>. HIDE DEF S
  <2>. QED
    BY <2>1, <1>2, SeqMonotonic
<1>. HIDE DEF S
<1>4. Len(a) \in Nat /\ Len(x) \in Nat
  BY <1>3, LenProperties
<1>5. CASE IsPrefix(b, x)
  BY <1>3, <1>5, PrefixOrder DEF Guarded
<1>6. CASE IsPrefix(x, b) /\ Len(x) <= Len(a)
  BY <1>3, <1>6, PrefixOrder DEF Guarded
<1>7. CASE IsPrefix(x, b) /\ Len(a) <= Len(x)
  BY <1>3, <1>7, PrefixOrder DEF Guarded
<1>. QED
  BY <1>1, <1>4, <1>5, <1>6, <1>7

\* The rows stay in a step that does not leave a directory.
LEMMA RowsStay ==
  ASSUME PlaceInv, NEW n, NEW f, NEW g, NEW h, NEW p,
         Passes(n, f, g, p) \/ Lists(n, f, g) \/ Enters(n, f, g, h, p)
  PROVE  \A i \in DOMAIN rows : i \in DOMAIN rows' /\ rows'[i] = rows[i]
<1>1. rows' = rows \/ rows' = Append(rows, SkippedRow(p))
  BY DEF Passes, Lists, Enters, CountsAt
<1>2. ASSUME rows' = Append(rows, SkippedRow(p))
      PROVE  \A i \in DOMAIN rows : i \in DOMAIN rows' /\ rows'[i] = rows[i]
  <2>1. PICK row : row = SkippedRow(p)
    OBVIOUS
  <2>2. /\ Len(rows) \in Nat /\ DOMAIN rows = 1 .. Len(rows)
        /\ DOMAIN rows' = 1 .. Len(rows) + 1
        /\ \A i \in 1 .. Len(rows) : rows'[i] = rows[i]
    BY <1>2, <2>1, RowAdded DEF PlaceInv
  <2>. QED
    BY <2>2
<1>. QED
  BY <1>1, <1>2

\* Protection after an entry is dealt with, a directory listed or entered.
LEMMA GoOnProtected ==
  ASSUME WalkInv, RowsInv, ProtectedInv, NEW n, NEW f, NEW g, NEW h, NEW p,
         Passes(n, f, g, p) \/ Lists(n, f, g) \/ Enters(n, f, g, h, p)
  PROVE  ProtectedInv'
<1>. PlaceInv
  BY DEF RowsInv
<1>1. FramesStay /\ \A i \in DOMAIN rows : i \in DOMAIN rows' /\ rows'[i] = rows[i]
  BY StayFacts, RowsStay
<1>2. \A q : KeepsRow(rows, stack, q) => KeepsRow(rows', stack', q)
  BY <1>1 DEF KeepsRow, FramesStay
<1>3. setup' = setup /\ n \in Nat \ {0} /\ DOMAIN stack = 1 .. n /\ stack[n] = f
  BY DEF Passes, Lists, Enters, OnTop
<1>4. ASSUME NEW c \in charges', c \notin charges, c.usage["dirs"] = 1
      PROVE  KeepsRow(rows', stack', c.path)
  <2>1. CASE Passes(n, f, g, p)
    <3>1. /\ charges' = charges \union {c} /\ c.path = p
          /\ (rows' = rows /\ c.usage["dirs"] = 0) \/ rows' = Append(rows, SkippedRow(p))
      BY <1>4, <2>1 DEF Passes, CountsAt
    <3>2. rows' = Append(rows, SkippedRow(p))
      BY <3>1, <1>4
    <3>3. PICK row : row = SkippedRow(p) /\ row.path = p /\ row.collapsed = FALSE
      BY SkippedPath
    <3>4. PICK i : i \in DOMAIN rows' /\ rows'[i] = row
      <4>1. /\ Len(rows) \in Nat /\ DOMAIN rows' = 1 .. Len(rows) + 1
            /\ rows'[Len(rows) + 1] = row
        BY <3>2, <3>3, RowAdded DEF PlaceInv
      <4>. QED
        BY <4>1
    <3>. QED
      BY <3>1, <3>3, <3>4 DEF KeepsRow
  <2>2. CASE Lists(n, f, g)
    <3>1. c.path = f.path
      BY <1>4, <2>2 DEF Lists
    <3>2. n \in DOMAIN stack' /\ stack'[n] = g /\ g.path = f.path /\ g.ready
      BY <2>2, <1>3 DEF Lists, StaysAs
    <3>. QED
      BY <3>1, <3>2 DEF KeepsRow
  <2>3. CASE Enters(n, f, g, h, p)
    BY <1>4, <2>3 DEF Enters
  <2>. QED
    BY <2>1, <2>2, <2>3
<1>5. g.collapse # "none" => (f.ready /\ f.collapse # "none") \/ ~Guarded(setup, f.path)
  BY DEF Passes, Lists, Enters, Carries, Guarded, IsProtectedPath
<1>6. ASSUME NEW j \in DOMAIN stack', stack'[j].ready, stack'[j].collapse # "none"
      PROVE  ~Guarded(setup, stack'[j].path)
  <2>1. \/ j \in 1 .. n - 1 /\ stack'[j] = stack[j]
        \/ j = n /\ stack'[j] = g
        \/ stack'[j] = h /\ ~h.ready
    BY <1>3 DEF Passes, Lists, Enters, StaysAs
  <2>2. CASE j \in 1 .. n - 1 /\ stack'[j] = stack[j]
    <3>1. j \in DOMAIN stack
      BY <2>2, <1>3
    <3>. QED
      BY <2>2, <3>1, <1>6 DEF ProtectedInv
  <2>3. CASE j = n /\ stack'[j] = g
    <3>1. n \in DOMAIN stack /\ g.path = f.path
      BY <1>3 DEF Passes, Lists, Enters, Carries, SamePlace
    <3>2. f.ready /\ f.collapse # "none" => ~Guarded(setup, f.path)
      BY <3>1, <1>3 DEF ProtectedInv
    <3>. QED
      BY <2>3, <3>1, <3>2, <1>5, <1>6
  <2>. QED
    BY <1>6, <2>1, <2>2, <2>3
<1>. QED
  BY <1>2, <1>3, <1>4, <1>6 DEF ProtectedInv

\* What is protected when a directory is left.
LEMMA CloseProtected ==
  ASSUME WalkInv, RowsInv, ProtectedInv, NEW n, NEW f, OnTop(n, f),
         NEW row, NEW k, NEW evidence, Closes(f, row, evidence), RowsClose(f, row, k),
         NEW c \in charges', c.usage["dirs"] = 1, Guarded(setup, c.path)
  PROVE  \/ \E i \in DOMAIN rows' : rows'[i].path = c.path /\ ~rows'[i].collapsed
         \/ \E j \in 1 .. n - 1 : stack[j].path = c.path /\ stack[j].ready
<1>. PlaceInv /\ TreeInv
  BY DEF RowsInv
<1>1. CASE c \in charges
  <2>1. KeepsRow(rows, stack, c.path)
    BY <1>1 DEF ProtectedInv
  <2>2. ASSUME IsPrefix(f.path, c.path)
        PROVE  k = Len(rows) /\ ~row.collapsed
    <3>1. c.path \in Seq(NameSet) /\ f.path \in Seq(NameSet) /\ setup \in Setups
      BY <1>1 DEF PlaceInv, Visited, OnTop, FrameOK
    <3>2. Guarded(setup, f.path)
      BY <2>2, <3>1, GuardedAbove
    <3>3. n \in DOMAIN stack /\ stack[n] = f
      BY DEF OnTop
    <3>4. f.ready => f.collapse = "none"
      BY <3>2, <3>3 DEF ProtectedInv
    <3>. QED
      BY <3>4 DEF RowsClose
  <2>. QED
    BY <2>1, <2>2, RowKept
<1>2. CASE c \notin charges
  <2>1. c.path = f.path /\ ~f.ready /\ row.path = f.path
    BY <1>2 DEF Closes
  <2>2. k = Len(rows) /\ ~row.collapsed
    BY <2>1 DEF RowsClose
  <2>3. Len(rows) \in Nat
    BY SequenceFacts DEF PlaceInv
  <2>4. k + 1 \in DOMAIN rows' /\ rows'[k + 1] = row
    BY <2>2, <2>3 DEF RowsClose
  <2>. QED
    BY <2>1, <2>2, <2>4
<1>. QED
  BY <1>1, <1>2

\* Protection after a directory is left.
LEMMA LeaveProtected ==
  ASSUME WalkInv, RowsInv, ProtectedInv, NEW n, NEW f, NEW g, NEW row, NEW k, NEW evidence,
         Leaves(n, f, g, row, k, evidence)
  PROVE  ProtectedInv'
<1>1. PICK m \in Nat \ {0} : m = n - 1
  BY DEF Leaves
<1>2. /\ OnTop(n, f) /\ StaysAs(m, g) /\ Carries(stack[m], g)
      /\ Closes(f, row, evidence) /\ RowsClose(f, row, k) /\ setup' = setup
  BY <1>1 DEF Leaves
<1>3. n \in Nat /\ DOMAIN stack = 1 .. n
  BY <1>2 DEF OnTop
<1>4. /\ DOMAIN stack' = 1 .. m
      /\ \A j \in 1 .. m : /\ stack'[j].path = stack[j].path /\ stack'[j].ready = stack[j].ready
                           /\ \/ stack'[j].collapse = stack[j].collapse
                              \/ ~Guarded(setup, stack[j].path)
                           /\ j \in DOMAIN stack
  <2>1. \A j \in 1 .. m : (j \in 1 .. m - 1 \/ j = m) /\ j \in DOMAIN stack
    BY <1>1, <1>3
  <2>2. g.collapse = stack[m].collapse \/ ~Guarded(setup, stack[m].path)
    BY <1>2 DEF Carries, Guarded, IsProtectedPath
  <2>. QED
    BY <2>1, <2>2, <1>2 DEF StaysAs, Carries, SamePlace
<1>5. ASSUME NEW c \in charges', c.usage["dirs"] = 1, Guarded(setup, c.path)
      PROVE  KeepsRow(rows', stack', c.path)
  <2>1. \/ \E i \in DOMAIN rows' : rows'[i].path = c.path /\ ~rows'[i].collapsed
        \/ \E j \in 1 .. m : stack[j].path = c.path /\ stack[j].ready
    BY <1>1, <1>2, <1>5, CloseProtected
  <2>. QED
    BY <2>1, <1>4 DEF KeepsRow
<1>6. \A j \in DOMAIN stack' :
        stack'[j].ready /\ stack'[j].collapse # "none" => ~Guarded(setup, stack'[j].path)
  BY <1>4 DEF ProtectedInv
<1>. QED
  BY <1>2, <1>5, <1>6 DEF ProtectedInv

\* Protection after the root is left.
LEMMA EndProtected ==
  ASSUME WalkInv, RowsInv, ProtectedInv, NEW f, NEW row, NEW k, Ends(f, row, k)
  PROVE  ProtectedInv'
<1>1. /\ OnTop(1, f) /\ stack' = <<>> /\ Closes(f, row, f.evidence) /\ RowsClose(f, row, k)
      /\ setup' = setup
  BY DEF Ends
<1>2. \A j \in 1 .. 1 - 1 : FALSE
  OBVIOUS
<1>3. ASSUME NEW c \in charges', c.usage["dirs"] = 1, Guarded(setup, c.path)
      PROVE  KeepsRow(rows', stack', c.path)
  <2>1. \/ \E i \in DOMAIN rows' : rows'[i].path = c.path /\ ~rows'[i].collapsed
        \/ \E j \in 1 .. 1 - 1 : stack[j].path = c.path /\ stack[j].ready
    BY <1>1, <1>3, CloseProtected
  <2>. QED
    BY <2>1, <1>2 DEF KeepsRow
<1>4. DOMAIN stack' = {}
  BY <1>1
<1>. QED
  BY <1>1, <1>3, <1>4 DEF ProtectedInv

\* A directory that is protected from collapsing, or above one that is, has its
\* own row in every finished scan: neither a fan-out nor a name of the noise list
\* on a directory above it, nor a later neighbour, takes it away.
THEOREM ProtectedKept == Spec => []ProtectedExpanded
<1>1. Init => ProtectedInv
  <2>1. DOMAIN <<>> = {}
    OBVIOUS
  <2>. QED
    BY <2>1 DEF Init, ProtectedInv
<1>2. WalkInv /\ WalkInv' /\ RowsInv /\ ProtectedInv /\ [Next]_vars => ProtectedInv'
  <2>. SUFFICES ASSUME WalkInv, WalkInv', RowsInv, ProtectedInv, [Next]_vars
                PROVE  ProtectedInv'
    OBVIOUS
  <2>1. ASSUME NEW h, Starts(h)
        PROVE  ProtectedInv'
    <3>1. charges' = {} /\ DOMAIN stack' = 1 .. 1 /\ stack'[1] = h /\ ~h.ready
      BY <2>1 DEF Starts, RowsInv, PlaceInv
    <3>. QED
      BY <3>1 DEF ProtectedInv
  <2>2. CASE Stops
    <3>1. charges' = {} /\ DOMAIN stack' = {}
      BY <2>2 DEF Stops, Visited
    <3>. QED
      BY <3>1 DEF ProtectedInv
  <2>3. CASE UNCHANGED vars
    BY <2>3 DEF vars, ProtectedInv
  <2>. QED
    BY <2>1, <2>2, <2>3, GoOnProtected, LeaveProtected, EndProtected, StepKinds
<1>3. RowsInv /\ ProtectedInv => ProtectedExpanded
  <2>. SUFFICES ASSUME RowsInv, ProtectedInv, Scanned, NEW c \in charges, NEW x \in setup.never,
                       c.usage["dirs"] = 1, IsPrefix(x, c.path) \/ IsPrefix(c.path, x)
                PROVE  \E i \in DOMAIN rows : rows[i].path = c.path /\ ~rows[i].collapsed
    BY DEF ProtectedExpanded
  <2>1. stack = <<>>
    BY DEF RowsInv, PlaceInv, Scanned
  <2>2. DOMAIN stack = {}
    BY <2>1
  <2>3. KeepsRow(rows, stack, c.path)
    BY DEF ProtectedInv, Guarded
  <2>. QED
    BY <2>2, <2>3 DEF KeepsRow
<1>. QED
  BY <1>1, <1>2, <1>3, WalkInvariance, RowsInvariance, PTL DEF Spec

--------------------------------------------------------------------------------
(* What belongs to a frame *)

\* What is below the directory on top belongs to it alone.
LEMMA BelongsTop ==
  ASSUME WalkInv, NEW n, NEW f, OnTop(n, f), NEW q \in Seq(NameSet)
  PROVE  /\ Belongs(stack, n, q) <=> IsPrefix(f.path, q)
         /\ IsPrefix(f.path, q) => \A j \in 1 .. n - 1 : ~Belongs(stack, j, q)
<1>1. /\ n \in Nat \ {0} /\ n = Len(stack) /\ DOMAIN stack = 1 .. n /\ stack[n] = f
      /\ f.path \in Seq(NameSet)
  BY DEF OnTop, FrameOK
<1>2. Belongs(stack, n, q) <=> IsPrefix(f.path, q)
  BY <1>1 DEF Belongs
<1>3. ASSUME IsPrefix(f.path, q), NEW j \in 1 .. n - 1
      PROVE  ~Belongs(stack, j, q)
  <2>1. j + 1 \in DOMAIN stack /\ n \in DOMAIN stack /\ j + 1 <= n /\ j < n
    BY <1>1
  <2>2. PICK a : a = stack[j + 1].path
    OBVIOUS
  <2>3. a \in Seq(NameSet) /\ IsPrefix(a, f.path)
    BY <1>1, <2>1, <2>2, FramePaths
  <2>4. IsPrefix(a, q)
    BY <1>1, <1>3, <2>3, PrefixOrder
  <2>. QED
    BY <1>1, <2>1, <2>2, <2>4 DEF Belongs
<1>. QED
  BY <1>2, <1>3

\* Frames that keep their paths keep what belongs to them.
LEMMA BelongsSame ==
  ASSUME NEW s, NEW t, NEW n \in Nat, Len(s) = n, Len(t) = n,
         \A j \in 1 .. n : t[j].path = s[j].path,
         NEW j \in 1 .. n, NEW q
  PROVE  Belongs(t, j, q) <=> Belongs(s, j, q)
<1>1. j < n => j + 1 \in 1 .. n
  OBVIOUS
<1>. QED
  BY <1>1 DEF Belongs

\* An entry is dealt with, or the directory is listed.
LEMMA BelongsStay ==
  ASSUME NEW n, NEW f, NEW g, NEW p, Passes(n, f, g, p) \/ Lists(n, f, g),
         NEW j \in 1 .. n, NEW q
  PROVE  Belongs(stack', j, q) <=> Belongs(stack, j, q)
<1>1. PICK l \in Nat : l = n
  BY DEF Passes, Lists, OnTop
<1>2. l = Len(stack) /\ l = Len(stack')
  BY <1>1 DEF Passes, Lists, OnTop, StaysAs
<1>3. \A i \in 1 .. l : stack'[i].path = stack[i].path
  <2>1. \A i \in 1 .. l : i \in 1 .. n - 1 \/ i = n
    BY <1>1
  <2>2. g.path = f.path /\ stack[n] = f /\ stack'[n] = g
    BY DEF Passes, Lists, OnTop, StaysAs, Carries, SamePlace
  <2>3. \A i \in 1 .. n - 1 : stack'[i] = stack[i]
    BY DEF Passes, Lists, StaysAs
  <2>. QED
    BY <2>1, <2>2, <2>3
<1>4. j \in 1 .. l
  BY <1>1
<1>. QED
  BY <1>2, <1>3, <1>4, BelongsSame

\* A directory is entered: what has been visited belongs where it did.
LEMMA BelongsEnter ==
  ASSUME WalkInv, PlaceInv, NEW n, NEW f, NEW g, NEW h, NEW p, Enters(n, f, g, h, p),
         NEW q \in Visited
  PROVE  /\ \A j \in 1 .. n : Belongs(stack', j, q) <=> Belongs(stack, j, q)
         /\ ~Belongs(stack', n + 1, q)
<1>1. /\ n \in Nat \ {0} /\ n = Len(stack) /\ DOMAIN stack = 1 .. n /\ stack[n] = f
      /\ FrameOK(f)
  BY DEF Enters, OnTop
<1>2. /\ f.left # <<>> /\ p = Append(f.path, Head(f.left)) /\ Len(stack') = n + 1
      /\ \A i \in 1 .. n - 1 : stack'[i] = stack[i]
      /\ stack'[n] = g /\ stack'[n + 1] = h /\ g.path = f.path /\ h.path = p
  BY DEF Enters, Carries, SamePlace
<1>3. ~IsPrefix(p, q)
  <2>1. Fresh(f, Visited)
    BY <1>1 DEF PlaceInv
  <2>2. p = Append(f.path, f.left[1]) /\ 1 \in 1 .. Len(f.left)
    BY <1>1, <1>2, NextPath
  <2>. QED
    BY <2>1, <2>2 DEF Fresh
<1>4. ~Belongs(stack', n + 1, q)
  BY <1>2, <1>3 DEF Belongs
<1>5. Belongs(stack', n, q) <=> Belongs(stack, n, q)
  BY <1>1, <1>2, <1>3 DEF Belongs
<1>6. ASSUME NEW j \in 1 .. n - 1
      PROVE  Belongs(stack', j, q) <=> Belongs(stack, j, q)
  <2>1. /\ j < n /\ j < n + 1 /\ (j + 1 \in 1 .. n - 1 \/ j + 1 = n)
    BY <1>1
  <2>2. stack'[j + 1].path = stack[j + 1].path /\ stack'[j].path = stack[j].path
    BY <1>1, <1>2, <2>1
  <2>. QED
    BY <1>1, <1>2, <2>1, <2>2 DEF Belongs
<1>7. \A j \in 1 .. n : j \in 1 .. n - 1 \/ j = n
  BY <1>1
<1>. QED
  BY <1>4, <1>5, <1>6, <1>7

\* A directory is left: what is below it belongs to the one above.
LEMMA BelongsLeave ==
  ASSUME WalkInv, NEW n, NEW f, NEW g, NEW row, NEW k, NEW evidence,
         Leaves(n, f, g, row, k, evidence), NEW q \in Seq(NameSet)
  PROVE  /\ \A j \in 1 .. n - 2 : Belongs(stack', j, q) <=> Belongs(stack, j, q)
         /\ Belongs(stack', n - 1, q) <=> Belongs(stack, n - 1, q) \/ IsPrefix(f.path, q)
<1>1. PICK m \in Nat \ {0} : m = n - 1
  BY DEF Leaves
<1>2. /\ OnTop(n, f) /\ n \in Nat \ {0} /\ n = Len(stack) /\ DOMAIN stack = 1 .. n
      /\ stack[n] = f /\ f.path \in Seq(NameSet)
  BY DEF Leaves, OnTop, FrameOK
<1>3. /\ Len(stack') = m /\ stack'[m] = g /\ g.path = stack[m].path
      /\ \A i \in 1 .. m - 1 : stack'[i] = stack[i]
  BY <1>1 DEF Leaves, StaysAs, Carries, SamePlace
<1>4. m \in DOMAIN stack /\ n \in DOMAIN stack /\ m <= n /\ m < n /\ m + 1 = n
  BY <1>1, <1>2
<1>5. Belongs(stack', m, q) <=> IsPrefix(stack[m].path, q)
  BY <1>3 DEF Belongs
<1>6. Belongs(stack, m, q) <=> IsPrefix(stack[m].path, q) /\ ~IsPrefix(f.path, q)
  BY <1>2, <1>4 DEF Belongs
<1>7. IsPrefix(f.path, q) => IsPrefix(stack[m].path, q)
  <2>1. PICK a : a = stack[m].path
    OBVIOUS
  <2>2. a \in Seq(NameSet) /\ IsPrefix(a, f.path)
    BY <1>2, <1>4, <2>1, FramePaths
  <2>. QED
    BY <1>2, <2>1, <2>2, PrefixOrder
<1>8. ASSUME NEW j \in 1 .. m - 1
      PROVE  Belongs(stack', j, q) <=> Belongs(stack, j, q)
  <2>1. j < m /\ j < n /\ (j + 1 \in 1 .. m - 1 \/ j + 1 = m)
    BY <1>1, <1>2
  <2>2. stack'[j + 1].path = stack[j + 1].path /\ stack'[j].path = stack[j].path
    BY <1>3, <2>1
  <2>. QED
    BY <1>2, <1>3, <2>1, <2>2 DEF Belongs
<1>9. n - 2 = m - 1
  BY <1>1, <1>2
<1>. QED
  BY <1>1, <1>5, <1>6, <1>7, <1>8, <1>9

\* An entry that is dealt with is at a new path, right below the directory on top.
LEMMA PassedAnew ==
  ASSUME WalkInv, PlaceInv, NEW n, NEW f, NEW g, NEW p, Passes(n, f, g, p)
  PROVE  /\ p \in Seq(NameSet) /\ Len(p) = n /\ IsPrefix(f.path, p)
         /\ p \notin Visited /\ \A q \in Visited : ~IsPrefix(p, q)
<1>1. /\ n \in Nat \ {0} /\ DOMAIN stack = 1 .. n /\ stack[n] = f
      /\ FrameOK(f) /\ Len(f.path) = n - 1 /\ f.left # <<>>
      /\ p = Append(f.path, Head(f.left))
  BY DEF Passes, OnTop
<1>2. p \in Seq(NameSet) /\ Len(p) = Len(f.path) + 1 /\ IsPrefix(f.path, p)
  BY <1>1, NextPath
<1>3. Len(p) = n
  BY <1>1, <1>2
<1>4. Fresh(f, Visited)
  BY <1>1 DEF PlaceInv
<1>5. p = Append(f.path, f.left[1]) /\ 1 \in 1 .. Len(f.left)
  BY <1>1, NextPath
<1>6. \A q \in Visited : ~IsPrefix(p, q)
  BY <1>4, <1>5 DEF Fresh
<1>7. p \notin Visited
  BY <1>2, <1>6, PrefixOrder
<1>. QED
  BY <1>2, <1>3, <1>6, <1>7

\* No row is above the directory on top or above the entry that is next.
LEMMA NoRowAbove ==
  ASSUME WalkInv, PlaceInv, NEW n, NEW f, OnTop(n, f), NEW q \in Seq(NameSet),
         IsPrefix(f.path, q), Len(q) = n - 1 \/ (Len(q) = n /\ q \notin Visited),
         NEW i \in DOMAIN rows
  PROVE  ~IsPrefix(rows[i].path, q)
<1>1. /\ n \in Nat \ {0} /\ DOMAIN stack = 1 .. n /\ stack[n] = f /\ f.path \in Seq(NameSet)
      /\ Len(f.path) = n - 1
  BY DEF OnTop, FrameOK
<1>2. PICK r : r = rows[i].path
  OBVIOUS
<1>3. r \in Seq(NameSet) /\ r \in Visited
  BY <1>2 DEF PlaceInv, Visited
<1>4. SUFFICES ASSUME IsPrefix(r, q) PROVE FALSE
  BY <1>2
<1>5. PICK m \in Nat : m = Len(r)
  BY <1>3, LenProperties
<1>6. m <= Len(q)
  BY <1>3, <1>4, <1>5, PrefixOrder
<1>7. CASE m = Len(q)
  <2>1. r = q
    BY <1>3, <1>4, <1>5, <1>7, PrefixOrder
  <2>2. q = f.path
    <3>1. Len(f.path) = Len(q)
      BY <1>1, <1>3, <2>1
    <3>. QED
      BY <1>1, <3>1, PrefixOrder
  <2>3. n \in DOMAIN stack
    BY <1>1
  <2>. QED
    BY <1>1, <1>2, <2>1, <2>2, <2>3 DEF PlaceInv
<1>8. CASE m # Len(q)
  <2>1. m + 1 \in DOMAIN stack /\ n \in DOMAIN stack /\ m + 1 <= n
    BY <1>1, <1>6, <1>8
  <2>2. PICK a : a = stack[m + 1].path
    OBVIOUS
  <2>3. a \in Seq(NameSet) /\ Len(a) = m /\ IsPrefix(a, f.path)
    BY <1>1, <2>1, <2>2, FramePaths
  <2>4. IsPrefix(a, q)
    BY <1>1, <2>3, PrefixOrder
  <2>5. IsPrefix(a, r)
    BY <1>3, <1>4, <1>5, <2>3, <2>4, PrefixOrder
  <2>6. a = r
    BY <1>3, <1>5, <2>3, <2>5, PrefixOrder
  <2>. QED
    BY <1>2, <2>1, <2>2, <2>6 DEF PlaceInv
<1>. QED
  BY <1>7, <1>8

--------------------------------------------------------------------------------
(* The aggregates are sums *)

\* The total over two separate parts is that of their totals.
LEMMA TotalUnion ==
  ASSUME NEW A, IsFiniteSet(A), NEW B, IsFiniteSet(B), A \intersect B = {},
         \A c \in A \union B : c.usage \in Usages, NEW m \in Measures
  PROVE  /\ Total(m, A) \in Int /\ Total(m, B) \in Int
         /\ Total(m, A \union B) = Total(m, A) + Total(m, B)
<1>1. PICK u : u = [c \in A \union B |-> c.usage[m]]
  OBVIOUS
<1>2. PICK a : a = [c \in A |-> c.usage[m]]
  OBVIOUS
<1>3. PICK b : b = [c \in B |-> c.usage[m]]
  OBVIOUS
<1>4. /\ \A c \in A \union B : u[c] \in Int
      /\ \A c \in A : u[c] = a[c] /\ a[c] \in Int
      /\ \A c \in B : u[c] = b[c] /\ b[c] \in Int
  BY <1>1, <1>2, <1>3 DEF Usages
<1>5. SumFunctionOnSet(u, A \union B) = SumFunctionOnSet(u, A) + SumFunctionOnSet(u, B)
  BY <1>4, SumUnion
<1>6. SumFunctionOnSet(u, A) = SumFunctionOnSet(a, A)
  BY <1>4, SumSame
<1>7. SumFunctionOnSet(u, B) = SumFunctionOnSet(b, B)
  BY <1>4, SumSame
<1>8. SumFunctionOnSet(a, A) \in Int /\ SumFunctionOnSet(b, B) \in Int
  BY <1>4, SumInt
<1>. QED
  BY <1>1, <1>2, <1>3, <1>5, <1>6, <1>7, <1>8 DEF Total

\* The total over one item is what the item adds.
LEMMA TotalOne ==
  ASSUME NEW c, c.usage \in Usages, NEW m \in Measures
  PROVE  Total(m, {c}) = c.usage[m]
<1>1. PICK a : a = [d \in {c} |-> d.usage[m]]
  OBVIOUS
<1>2. a[c] = c.usage[m] /\ a[c] \in Int
  BY <1>1 DEF Usages
<1>3. SumFunctionOnSet(a, {} \union {c}) = SumFunctionOnSet(a, {}) + a[c]
  BY <1>2, SumAdd, FS_EmptySet
<1>4. {} \union {c} = {c}
  OBVIOUS
<1>. QED
  BY <1>1, <1>2, <1>3, <1>4, SumEmpty DEF Total

\* One more item adds what it is charged with.
LEMMA TotalAdd ==
  ASSUME NEW A, IsFiniteSet(A), \A d \in A : d.usage \in Usages,
         NEW c, c \notin A, c.usage \in Usages, NEW m \in Measures
  PROVE  Total(m, A) \in Int /\ Total(m, A \union {c}) = Total(m, A) + c.usage[m]
<1>1. IsFiniteSet({c})
  BY FS_Singleton
<1>2. Total(m, A) \in Int /\ Total(m, A \union {c}) = Total(m, A) + Total(m, {c})
  BY <1>1, TotalUnion
<1>. QED
  BY <1>2, TotalOne

\* Parts of the charges.
LEMMA Parts ==
  ASSUME SumInv
  PROVE  /\ \A s, j : /\ IsFiniteSet(Share(s, charges, j))
                      /\ \A c \in Share(s, charges, j) : c.usage \in Usages
         /\ \A q : /\ IsFiniteSet(Inside(charges, q))
                   /\ \A c \in Inside(charges, q) : c.usage \in Usages
<1>1. IsFiniteSet(charges) /\ \A c \in charges : c.usage \in Usages
  BY DEF SumInv
<1>2. \A s, j : Share(s, charges, j) \subseteq charges
  BY DEF Share
<1>3. \A q : Inside(charges, q) \subseteq charges
  BY DEF Inside
<1>. QED
  BY <1>1, <1>2, <1>3, FS_Subset

\* The sums after an entry is charged.
LEMMA CountSum ==
  ASSUME WalkInv, RowsInv, SumInv, NEW n, NEW f, NEW g, NEW p, Passes(n, f, g, p),
         NEW c, charges' = charges \union {c}, c.path = p, c.usage \in Usages,
         \A m \in Measures : g.usage[m] = f.usage[m] + c.usage[m],
         \A i \in DOMAIN rows' :
           \/ i \in DOMAIN rows /\ rows'[i] = rows[i]
           \/ /\ rows'[i].path = p
              /\ \A m \in Measures : rows'[i].usage[m] = c.usage[m] - Itself(m)
  PROVE  SumInv'
<1>. PlaceInv
  BY DEF RowsInv
<1>1. /\ OnTop(n, f) /\ n \in Nat \ {0} /\ DOMAIN stack = 1 .. n /\ stack[n] = f
      /\ f.ready
      /\ DOMAIN stack' = 1 .. n /\ stack'[n] = g
      /\ \A j \in 1 .. n - 1 : stack'[j] = stack[j]
  BY DEF Passes, OnTop, StaysAs
<1>2. p \in Seq(NameSet) /\ Len(p) = n /\ IsPrefix(f.path, p)
  BY PassedAnew
<1>3. \A q \in Visited : ~IsPrefix(p, q)
  BY PassedAnew
<1>4. p \notin Visited /\ IsPrefix(p, p)
  BY PassedAnew, <1>2, PrefixOrder
<1>5. c \notin charges /\ \A d \in charges : ~IsPrefix(p, d.path)
  BY <1>3, <1>4 DEF Visited
<1>6. IsFiniteSet(charges') /\ \A d \in charges' : d.usage \in Usages
  BY FS_AddElement DEF SumInv
<1>7. \A j \in 1 .. n : Share(stack', charges', j) = Share(stack, charges', j)
  BY BelongsStay DEF Share
<1>8. /\ Share(stack, charges', n) = Share(stack, charges, n) \union {c}
      /\ \A j \in 1 .. n - 1 : Share(stack, charges', j) = Share(stack, charges, j)
  <2>1. c.path \in Seq(NameSet) /\ IsPrefix(f.path, c.path)
    BY <1>2
  <2>2. Belongs(stack, n, c.path) /\ \A j \in 1 .. n - 1 : ~Belongs(stack, j, c.path)
    BY <1>1, <2>1, BelongsTop
  <2>. QED
    BY <2>2 DEF Share
<1>9. ASSUME NEW j \in DOMAIN stack', stack'[j].ready, NEW m \in Measures
      PROVE  stack'[j].usage[m] = Total(m, Share(stack', charges', j)) - Itself(m)
  <2>1. CASE j \in 1 .. n - 1
    <3>1. j \in DOMAIN stack /\ stack'[j] = stack[j] /\ j \in 1 .. n
      BY <2>1, <1>1
    <3>2. stack[j].usage[m] = Total(m, Share(stack, charges, j)) - Itself(m)
      BY <3>1, <1>9 DEF SumInv
    <3>. QED
      BY <2>1, <3>1, <3>2, <1>7, <1>8
  <2>2. CASE j = n
    <3>1. n \in DOMAIN stack /\ n \in 1 .. n
      BY <1>1
    <3>2. PICK A : A = Share(stack, charges, n)
      OBVIOUS
    <3>3. c \notin A /\ IsFiniteSet(A) /\ \A d \in A : d.usage \in Usages
      BY <3>2, <1>5, Parts DEF Share
    <3>4. Total(m, A) \in Int /\ Total(m, A \union {c}) = Total(m, A) + c.usage[m]
      BY <3>3, TotalAdd
    <3>5. f.usage[m] = Total(m, A) - Itself(m)
      BY <3>1, <3>2, <1>1 DEF SumInv
    <3>6. g.usage[m] = f.usage[m] + c.usage[m] /\ c.usage[m] \in Int /\ Itself(m) \in Int
      BY DEF Usages, Itself
    <3>7. g.usage[m] = Total(m, A \union {c}) - Itself(m)
      BY <3>4, <3>5, <3>6
    <3>. QED
      BY <2>2, <3>1, <3>2, <3>7, <1>1, <1>7, <1>8
  <2>. QED
    BY <2>1, <2>2, <1>1
<1>10. ASSUME NEW i \in DOMAIN rows', NEW m \in Measures
       PROVE  rows'[i].usage[m] = Total(m, Inside(charges', rows'[i].path)) - Itself(m)
  <2>1. CASE i \in DOMAIN rows /\ rows'[i] = rows[i]
    <3>1. ~IsPrefix(rows[i].path, p)
      BY <2>1, <1>1, <1>2, <1>4, NoRowAbove
    <3>2. Inside(charges', rows[i].path) = Inside(charges, rows[i].path)
      BY <3>1 DEF Inside
    <3>3. rows[i].usage[m] = Total(m, Inside(charges, rows[i].path)) - Itself(m)
      BY <2>1 DEF SumInv
    <3>. QED
      BY <2>1, <3>2, <3>3
  <2>2. CASE rows'[i].path = p /\ rows'[i].usage[m] = c.usage[m] - Itself(m)
    <3>1. Inside(charges', p) = {c}
      BY <1>4, <1>5 DEF Inside
    <3>2. Total(m, {c}) = c.usage[m]
      BY TotalOne
    <3>. QED
      BY <2>2, <3>1, <3>2
  <2>. QED
    BY <2>1, <2>2
<1>. QED
  BY <1>6, <1>9, <1>10 DEF SumInv

\* The sums after an entry is dealt with.
LEMMA PassSum ==
  ASSUME WalkInv, RowsInv, SumInv, NEW n, NEW f, NEW g, NEW p, Passes(n, f, g, p)
  PROVE  SumInv'
<1>1. /\ OnTop(n, f) /\ n \in Nat \ {0} /\ DOMAIN stack = 1 .. n /\ stack[n] = f
      /\ f.usage \in Usages /\ f.ready
      /\ DOMAIN stack' = 1 .. n /\ stack'[n] = g
      /\ \A j \in 1 .. n - 1 : stack'[j] = stack[j]
  BY DEF Passes, OnTop, StaysAs
<1>2. CountsAt(f, g, p)
  BY DEF Passes
<1>3. CASE charges' = charges /\ rows' = rows /\ g.usage = f.usage
  <2>1. \A j \in 1 .. n : Share(stack', charges, j) = Share(stack, charges, j)
    BY BelongsStay DEF Share
  <2>2. \A j \in DOMAIN stack' : /\ j \in DOMAIN stack /\ stack'[j].usage = stack[j].usage
                                 /\ stack'[j].ready => stack[j].ready
    BY <1>1, <1>3
  <2>. QED
    BY <1>1, <1>3, <2>1, <2>2 DEF SumInv
<1>4. ASSUME NEW c, charges' = charges \union {c}, c.path = p, c.usage \in Usages,
             rows' = rows, g.usage = Plus(f.usage, c.usage)
      PROVE  SumInv'
  <2>1. \A m \in Measures : g.usage[m] = f.usage[m] + c.usage[m]
    BY <1>1, <1>4, PlusTypes
  <2>. QED
    BY <1>4, <2>1, CountSum
<1>5. ASSUME NEW c, charges' = charges \union {c}, c.path = p, c.usage = AsDirectory(Zero),
             rows' = Append(rows, SkippedRow(p)), g.usage = WithChild(f.usage, Zero)
      PROVE  SumInv'
  <2>1. /\ Zero \in Usages /\ c.usage \in Usages
        /\ \A m \in Measures : Zero[m] = c.usage[m] - Itself(m)
    BY <1>5, UsageTypes, FilesystemAssumption
  <2>2. \A m \in Measures : g.usage[m] = f.usage[m] + Zero[m] + Itself(m)
    BY <1>1, <1>5, <2>1, PlusTypes
  <2>3. \A m \in Measures : /\ c.usage[m] \in Int /\ Zero[m] \in Int /\ Itself(m) \in Int
                            /\ f.usage[m] \in Int
    BY <1>1, <2>1 DEF Usages, Itself
  <2>4. \A m \in Measures : g.usage[m] = f.usage[m] + c.usage[m]
    BY <2>1, <2>2, <2>3
  <2>5. \A i \in DOMAIN rows' :
          \/ i \in DOMAIN rows /\ rows'[i] = rows[i]
          \/ /\ rows'[i].path = p
             /\ \A m \in Measures : rows'[i].usage[m] = c.usage[m] - Itself(m)
    <3>1. PICK row : row = SkippedRow(p)
      OBVIOUS
    <3>2. row.path = p /\ \A m \in Measures : row.usage[m] = c.usage[m] - Itself(m)
      BY <3>1, <2>1, SkippedPath
    <3>3. /\ Len(rows) \in Nat /\ DOMAIN rows = 1 .. Len(rows)
          /\ DOMAIN rows' = 1 .. Len(rows) + 1
          /\ \A i \in 1 .. Len(rows) : rows'[i] = rows[i]
          /\ rows'[Len(rows) + 1] = row
      BY <1>5, <3>1, RowAdded DEF RowsInv, PlaceInv
    <3>. QED
      BY <3>2, <3>3
  <2>. QED
    BY <1>5, <2>1, <2>4, <2>5, CountSum
<1>. QED
  BY <1>2, <1>3, <1>4, <1>5 DEF CountsAt

\* Directory f counts itself, with what its stat gave.
CountsItself(f, c) ==
  /\ ~f.ready
  /\ charges' = charges \union {c} /\ c.path = f.path
  /\ c.usage = AsDirectory(DirUsage(f.node))

\* A directory that has not been read has nothing counted in it, and reading it
\* counts itself.
LEMMA DirectoryCounted ==
  ASSUME WalkInv, RowsInv, SumInv, NEW n, NEW f, OnTop(n, f), NEW c, CountsItself(f, c)
  PROVE  /\ IsFiniteSet(charges') /\ \A d \in charges' : d.usage \in Usages
         /\ Inside(charges', f.path) = {c} /\ Share(stack, charges', n) = {c}
         /\ \A j \in 1 .. n - 1 : Share(stack, charges', j) = Share(stack, charges, j)
         /\ \A i \in DOMAIN rows : Inside(charges', rows[i].path) = Inside(charges, rows[i].path)
         /\ \A m \in Measures : DirUsage(f.node)[m] = Total(m, {c}) - Itself(m)
<1>. /\ PlaceInv /\ ~f.ready
     /\ charges' = charges \union {c} /\ c.path = f.path
     /\ c.usage = AsDirectory(DirUsage(f.node))
  BY DEF RowsInv, CountsItself
<1>1. /\ n \in Nat \ {0} /\ DOMAIN stack = 1 .. n /\ stack[n] = f /\ n \in DOMAIN stack
      /\ FrameOK(f) /\ Len(f.path) = n - 1 /\ f.path \in Seq(NameSet) /\ f.node \in Nodes
  <2>1. n \in Nat \ {0} /\ DOMAIN stack = 1 .. n /\ stack[n] = f /\ FrameOK(f)
        /\ Len(f.path) = n - 1
    BY DEF OnTop
  <2>. QED
    BY <2>1 DEF FrameOK, IsDirectory
<1>2. c.usage \in Usages /\ \A m \in Measures : DirUsage(f.node)[m] = c.usage[m] - Itself(m)
  BY <1>1, UsageTypes
<1>3. IsFiniteSet(charges') /\ \A d \in charges' : d.usage \in Usages
  BY <1>2, FS_AddElement DEF SumInv
<1>4. Fresh(f, Visited)
  BY <1>1 DEF PlaceInv
<1>5. \A d \in charges : d.path \in Seq(NameSet) /\ ~IsPrefix(f.path, d.path)
  BY <1>4 DEF Fresh, Visited, PlaceInv
<1>6. IsPrefix(f.path, c.path)
  BY <1>1, PrefixOrder
<1>7. Inside(charges', f.path) = {c}
  BY <1>5, <1>6 DEF Inside
<1>8. Belongs(stack, n, c.path) /\ \A j \in 1 .. n - 1 : ~Belongs(stack, j, c.path)
  BY <1>1, <1>6, BelongsTop
<1>9. \A d \in charges : ~Belongs(stack, n, d.path)
  BY <1>5, BelongsTop
<1>10. Share(stack, charges', n) = {c}
  BY <1>8, <1>9 DEF Share
<1>11. \A j \in 1 .. n - 1 : Share(stack, charges', j) = Share(stack, charges, j)
  BY <1>8 DEF Share
<1>12. \A i \in DOMAIN rows : ~IsPrefix(rows[i].path, c.path)
  BY <1>1, <1>6, NoRowAbove
<1>13. \A i \in DOMAIN rows : Inside(charges', rows[i].path) = Inside(charges, rows[i].path)
  BY <1>12 DEF Inside
<1>14. \A m \in Measures : Total(m, {c}) = c.usage[m]
  BY <1>2, TotalOne
<1>. QED
  BY <1>2, <1>3, <1>7, <1>10, <1>11, <1>13, <1>14

\* The sums after a directory is read.
LEMMA ListSum ==
  ASSUME WalkInv, RowsInv, SumInv, NEW n, NEW f, NEW g, Lists(n, f, g)
  PROVE  SumInv'
<1>1. /\ OnTop(n, f) /\ ~f.ready /\ n \in Nat \ {0} /\ DOMAIN stack = 1 .. n
      /\ DOMAIN stack' = 1 .. n /\ stack'[n] = g
      /\ \A j \in 1 .. n - 1 : stack'[j] = stack[j]
      /\ g.usage = DirUsage(f.node) /\ rows' = rows
  BY DEF Lists, OnTop, StaysAs
<1>2. PICK c : CountsItself(f, c)
  BY DEF Lists, CountsItself
<1>3. /\ IsFiniteSet(charges') /\ \A d \in charges' : d.usage \in Usages
      /\ Share(stack, charges', n) = {c}
      /\ \A j \in 1 .. n - 1 : Share(stack, charges', j) = Share(stack, charges, j)
      /\ \A i \in DOMAIN rows : Inside(charges', rows[i].path) = Inside(charges, rows[i].path)
      /\ \A m \in Measures : DirUsage(f.node)[m] = Total(m, {c}) - Itself(m)
  BY <1>1, <1>2, DirectoryCounted
<1>4. \A j \in 1 .. n : Share(stack', charges', j) = Share(stack, charges', j)
  BY BelongsStay DEF Share
<1>5. ASSUME NEW j \in DOMAIN stack', stack'[j].ready, NEW m \in Measures
      PROVE  stack'[j].usage[m] = Total(m, Share(stack', charges', j)) - Itself(m)
  <2>1. CASE j \in 1 .. n - 1
    <3>1. j \in DOMAIN stack /\ stack'[j] = stack[j] /\ j \in 1 .. n
      BY <2>1, <1>1
    <3>2. stack[j].usage[m] = Total(m, Share(stack, charges, j)) - Itself(m)
      BY <3>1, <1>5 DEF SumInv
    <3>. QED
      BY <2>1, <3>1, <3>2, <1>3, <1>4
  <2>2. CASE j = n
    <3>1. n \in 1 .. n
      BY <1>1
    <3>. QED
      BY <2>2, <3>1, <1>1, <1>3, <1>4
  <2>. QED
    BY <2>1, <2>2, <1>1
<1>6. \A i \in DOMAIN rows' : \A m \in Measures :
        rows'[i].usage[m] = Total(m, Inside(charges', rows'[i].path)) - Itself(m)
  BY <1>1, <1>3 DEF SumInv
<1>. QED
  BY <1>3, <1>5, <1>6 DEF SumInv

\* The sums after a directory is entered.
LEMMA EnterSum ==
  ASSUME WalkInv, RowsInv, SumInv, NEW n, NEW f, NEW g, NEW h, NEW p, Enters(n, f, g, h, p)
  PROVE  SumInv'
<1>1. /\ n \in Nat \ {0} /\ DOMAIN stack = 1 .. n /\ stack[n] = f /\ f.ready
      /\ DOMAIN stack' = 1 .. n + 1 /\ stack'[n] = g /\ stack'[n + 1] = h /\ ~h.ready
      /\ \A j \in 1 .. n - 1 : stack'[j] = stack[j]
      /\ g.usage = f.usage /\ rows' = rows /\ charges' = charges
  BY DEF Enters, OnTop
<1>2. \A j \in 1 .. n : Share(stack', charges, j) = Share(stack, charges, j)
  <2>1. \A c \in charges : c.path \in Visited
    BY DEF Visited
  <2>2. \A c \in charges : \A j \in 1 .. n :
          Belongs(stack', j, c.path) <=> Belongs(stack, j, c.path)
    BY <2>1, BelongsEnter DEF RowsInv
  <2>. QED
    BY <2>2 DEF Share
<1>3. \A j \in DOMAIN stack' : stack'[j].ready =>
        j \in 1 .. n /\ stack'[j].usage = stack[j].usage /\ stack[j].ready
  BY <1>1
<1>. QED
  BY <1>1, <1>2, <1>3 DEF SumInv

\* The row of a directory that is left holds all that was counted in it.
LEMMA CloseSum ==
  ASSUME WalkInv, RowsInv, SumInv, NEW n, NEW f, OnTop(n, f),
         NEW row, NEW k, NEW evidence, Closes(f, row, evidence), RowsClose(f, row, k)
  PROVE  /\ IsFiniteSet(charges') /\ \A d \in charges' : d.usage \in Usages
         /\ \A j \in 1 .. n - 1 : Share(stack, charges', j) = Share(stack, charges, j)
         /\ \A m \in Measures : row.usage[m] = Total(m, Inside(charges', f.path)) - Itself(m)
         /\ \A i \in DOMAIN rows' : \A m \in Measures :
              rows'[i].usage[m] = Total(m, Inside(charges', rows'[i].path)) - Itself(m)
<1>1. /\ n \in Nat \ {0} /\ DOMAIN stack = 1 .. n /\ stack[n] = f /\ n \in DOMAIN stack
  BY DEF OnTop
<1>2. /\ IsFiniteSet(charges') /\ \A d \in charges' : d.usage \in Usages
      /\ \A j \in 1 .. n - 1 : Share(stack, charges', j) = Share(stack, charges, j)
      /\ \A m \in Measures : row.usage[m] = Total(m, Inside(charges', f.path)) - Itself(m)
      /\ \A i \in DOMAIN rows : Inside(charges', rows[i].path) = Inside(charges, rows[i].path)
  <2>1. CASE f.ready
    <3>1. charges' = charges /\ row.usage = f.usage
      BY <2>1 DEF Closes
    <3>2. \A c \in charges : c.path \in Seq(NameSet)
      BY DEF RowsInv, PlaceInv, Visited
    <3>3. Share(stack, charges, n) = Inside(charges, f.path)
      BY <3>2, BelongsTop DEF Share, Inside
    <3>4. \A m \in Measures : f.usage[m] = Total(m, Share(stack, charges, n)) - Itself(m)
      BY <2>1, <1>1 DEF SumInv
    <3>. QED
      BY <3>1, <3>3, <3>4 DEF SumInv
  <2>2. CASE ~f.ready
    <3>1. PICK c : CountsItself(f, c)
      BY <2>2 DEF Closes, CountsItself
    <3>2. row.usage = DirUsage(f.node)
      BY <2>2 DEF Closes
    <3>3. /\ IsFiniteSet(charges') /\ \A d \in charges' : d.usage \in Usages
          /\ Inside(charges', f.path) = {c}
          /\ \A j \in 1 .. n - 1 : Share(stack, charges', j) = Share(stack, charges, j)
          /\ \A i \in DOMAIN rows :
               Inside(charges', rows[i].path) = Inside(charges, rows[i].path)
          /\ \A m \in Measures : DirUsage(f.node)[m] = Total(m, {c}) - Itself(m)
      BY <3>1, DirectoryCounted
    <3>. QED
      BY <3>2, <3>3
  <2>. QED
    BY <2>1, <2>2
<1>3. ASSUME NEW i \in DOMAIN rows', NEW m \in Measures
      PROVE  rows'[i].usage[m] = Total(m, Inside(charges', rows'[i].path)) - Itself(m)
  <2>1. Len(rows) \in Nat /\ DOMAIN rows = 1 .. Len(rows)
    BY SequenceFacts DEF RowsInv, PlaceInv
  <2>2. \/ i \in DOMAIN rows /\ rows'[i] = rows[i]
        \/ rows'[i] = row
    <3>1. /\ k \in 0 .. Len(rows) /\ DOMAIN rows' = 1 .. k + 1
          /\ \A l \in 1 .. k : rows'[l] = rows[l]
          /\ rows'[k + 1] = row
      BY DEF RowsClose
    <3>2. k \in Nat /\ (i \in 1 .. k \/ i = k + 1)
      BY <2>1, <3>1
    <3>3. i \in 1 .. k => i \in DOMAIN rows
      BY <2>1, <3>1, <3>2
    <3>. QED
      BY <3>1, <3>2, <3>3
  <2>3. row.path = f.path
    BY DEF Closes
  <2>. QED
    BY <2>2, <2>3, <1>2 DEF SumInv
<1>. QED
  BY <1>2, <1>3

\* The sums after a directory is left: the one above it takes on all it had.
LEMMA LeaveSum ==
  ASSUME WalkInv, RowsInv, SumInv, NEW n, NEW f, NEW g, NEW row, NEW k, NEW evidence,
         Leaves(n, f, g, row, k, evidence)
  PROVE  SumInv'
<1>. PlaceInv
  BY DEF RowsInv
<1>1. PICK l \in Nat \ {0} : l = n - 1
  BY DEF Leaves
<1>2. /\ OnTop(n, f) /\ StaysAs(l, g) /\ Carries(stack[l], g)
      /\ Closes(f, row, evidence) /\ RowsClose(f, row, k)
      /\ g.usage = WithChild(stack[l].usage, row.usage)
  BY <1>1 DEF Leaves
<1>3. /\ n \in Nat \ {0} /\ DOMAIN stack = 1 .. n /\ l \in DOMAIN stack /\ n \in DOMAIN stack
      /\ l < n /\ stack[n] = f
      /\ DOMAIN stack' = 1 .. l /\ stack'[l] = g
      /\ \A j \in 1 .. l - 1 : stack'[j] = stack[j]
  <2>1. n \in Nat \ {0} /\ DOMAIN stack = 1 .. n /\ stack[n] = f
    BY <1>2 DEF OnTop
  <2>2. l \in 1 .. n /\ n \in 1 .. n /\ l < n
    BY <1>1, <2>1
  <2>3. /\ DOMAIN stack' = 1 .. l /\ stack'[l] = g
        /\ \A j \in 1 .. l - 1 : stack'[j] = stack[j]
    BY <1>2 DEF StaysAs
  <2>. QED
    BY <2>1, <2>2, <2>3
<1>4. /\ IsFiniteSet(charges') /\ \A d \in charges' : d.usage \in Usages
      /\ \A j \in 1 .. l : Share(stack, charges', j) = Share(stack, charges, j)
      /\ \A m \in Measures : row.usage[m] = Total(m, Inside(charges', f.path)) - Itself(m)
      /\ \A i \in DOMAIN rows' : \A m \in Measures :
           rows'[i].usage[m] = Total(m, Inside(charges', rows'[i].path)) - Itself(m)
  BY <1>1, <1>2, CloseSum
<1>5. \A d \in charges' : d.path \in Seq(NameSet)
  <2>1. AddsAt(f.path) /\ f.path \in Seq(NameSet)
    BY <1>2, <1>3, CloseAdds, FramePaths
  <2>2. Visited' \subseteq Visited \union {f.path}
    BY <2>1, VisitedMore
  <2>3. \A d \in charges' : d.path \in Visited'
    BY DEF Visited
  <2>. QED
    BY <2>1, <2>2, <2>3 DEF PlaceInv
<1>6. \A j \in 1 .. l - 1 : Share(stack', charges', j) = Share(stack, charges', j)
  <2>1. \A d \in charges' : \A j \in 1 .. n - 2 :
          Belongs(stack', j, d.path) <=> Belongs(stack, j, d.path)
    BY <1>5, BelongsLeave
  <2>2. \A j \in 1 .. l - 1 : j \in 1 .. n - 2
    BY <1>1, <1>3
  <2>. QED
    BY <2>1, <2>2 DEF Share
<1>7. PICK A : A = Share(stack, charges', l)
  OBVIOUS
<1>8. PICK B : B = Inside(charges', f.path)
  OBVIOUS
<1>9. Share(stack', charges', l) = A \union B
  <2>1. \A d \in charges' :
          Belongs(stack', l, d.path) <=> Belongs(stack, l, d.path) \/ IsPrefix(f.path, d.path)
    BY <1>1, <1>5, BelongsLeave
  <2>. QED
    BY <2>1, <1>7, <1>8 DEF Share, Inside
<1>10. A \intersect B = {}
  <2>1. \A d \in charges' : IsPrefix(f.path, d.path) => ~Belongs(stack, l, d.path)
    <3>1. \A d \in charges' : IsPrefix(f.path, d.path) =>
            \A j \in 1 .. n - 1 : ~Belongs(stack, j, d.path)
      BY <1>2, <1>5, BelongsTop
    <3>2. l \in 1 .. n - 1
      BY <1>1, <1>3
    <3>. QED
      BY <3>1, <3>2
  <2>. QED
    BY <2>1, <1>7, <1>8 DEF Share, Inside
<1>11. IsFiniteSet(A) /\ IsFiniteSet(B) /\ \A d \in A \union B : d.usage \in Usages
  <2>1. A \subseteq charges' /\ B \subseteq charges'
    BY <1>7, <1>8 DEF Share, Inside
  <2>. QED
    BY <2>1, <1>4, FS_Subset
<1>12. stack[l].ready
  BY <1>3, FramePaths DEF Above
<1>13. ASSUME NEW j \in DOMAIN stack', stack'[j].ready, NEW m \in Measures
       PROVE  stack'[j].usage[m] = Total(m, Share(stack', charges', j)) - Itself(m)
  <2>1. CASE j \in 1 .. l - 1
    <3>1. j \in DOMAIN stack /\ stack'[j] = stack[j] /\ j \in 1 .. l
      BY <2>1, <1>1, <1>3
    <3>2. stack[j].usage[m] = Total(m, Share(stack, charges, j)) - Itself(m)
      BY <3>1, <1>13 DEF SumInv
    <3>. QED
      BY <2>1, <3>1, <3>2, <1>4, <1>6
  <2>2. CASE j = l
    <3>1. l \in 1 .. l
      BY <2>2, <1>3, <1>13
    <3>2. stack[l].usage[m] = Total(m, A) - Itself(m)
      BY <3>1, <1>3, <1>4, <1>7, <1>12 DEF SumInv
    <3>3. row.usage[m] = Total(m, B) - Itself(m)
      BY <1>4, <1>8
    <3>4. /\ Total(m, A) \in Int /\ Total(m, B) \in Int
          /\ Total(m, A \union B) = Total(m, A) + Total(m, B)
      BY <1>10, <1>11, TotalUnion
    <3>5. stack[l].usage \in Usages /\ row.usage \in Usages
      BY <1>2, <1>3, CloseTypes DEF PlaceInv
    <3>6. g.usage[m] = stack[l].usage[m] + row.usage[m] + Itself(m)
      BY <1>2, <3>5, PlusTypes
    <3>7. Itself(m) \in Int
      BY DEF Itself
    <3>8. g.usage[m] = Total(m, A \union B) - Itself(m)
      BY <3>2, <3>3, <3>4, <3>6, <3>7
    <3>. QED
      BY <2>2, <3>8, <1>3, <1>9
  <2>. QED
    BY <2>1, <2>2, <1>3
<1>. QED
  BY <1>4, <1>13 DEF SumInv

\* The sums after the root is left.
LEMMA EndSum ==
  ASSUME WalkInv, RowsInv, SumInv, NEW f, NEW row, NEW k, Ends(f, row, k)
  PROVE  SumInv'
<1>1. /\ OnTop(1, f) /\ stack' = <<>> /\ Closes(f, row, f.evidence) /\ RowsClose(f, row, k)
      /\ DOMAIN stack' = {}
  BY DEF Ends
<1>2. /\ IsFiniteSet(charges') /\ \A d \in charges' : d.usage \in Usages
      /\ \A i \in DOMAIN rows' : \A m \in Measures :
           rows'[i].usage[m] = Total(m, Inside(charges', rows'[i].path)) - Itself(m)
  BY <1>1, CloseSum
<1>. QED
  BY <1>1, <1>2 DEF SumInv

\* The sums hold in every state.
THEOREM SumInvariance == Spec => []SumInv
<1>1. Init => SumInv
  <2>1. DOMAIN <<>> = {} /\ IsFiniteSet({})
    BY FS_EmptySet
  <2>. QED
    BY <2>1 DEF Init, SumInv
<1>2. WalkInv /\ WalkInv' /\ RowsInv /\ SumInv /\ [Next]_vars => SumInv'
  <2>. SUFFICES ASSUME WalkInv, WalkInv', RowsInv, SumInv, [Next]_vars
                PROVE  SumInv'
    OBVIOUS
  <2>1. ASSUME NEW h, Starts(h)
        PROVE  SumInv'
    <3>1. /\ charges' = {} /\ DOMAIN stack' = 1 .. 1 /\ stack'[1] = h /\ ~h.ready
          /\ rows' = <<>> /\ DOMAIN rows' = {}
      BY <2>1 DEF Starts, RowsInv, PlaceInv
    <3>. QED
      BY <3>1, FS_EmptySet DEF SumInv
  <2>2. CASE Stops
    <3>0. Visited = {} /\ rows' = rows /\ charges' = charges /\ stack' = <<>>
      BY <2>2 DEF Stops
    <3>1. charges' = {} /\ DOMAIN rows = {}
      BY <3>0 DEF Visited
    <3>2. DOMAIN stack' = {} /\ DOMAIN rows' = {}
      BY <3>0, <3>1
    <3>. QED
      BY <3>1, <3>2, FS_EmptySet DEF SumInv
  <2>3. CASE UNCHANGED vars
    BY <2>3 DEF vars, SumInv
  <2>. QED
    BY <2>1, <2>2, <2>3, PassSum, ListSum, EnterSum, LeaveSum, EndSum, StepKinds
<1>. QED
  BY <1>1, <1>2, WalkInvariance, RowsInvariance, PTL DEF Spec

\* Every row of a scan, on any filesystem, holds exactly what was counted in its
\* directory and below, however the walk failed, skipped, collapsed or gave up.
THEOREM RowsAreExact == Spec => []AggregatesExact
<1>1. SumInv => AggregatesExact
  BY DEF SumInv, AggregatesExact, Below, Inside, Itself
<1>. QED
  BY <1>1, SumInvariance, PTL

--------------------------------------------------------------------------------
(* The evidence of problems *)

\* The problems after an entry is dealt with: the directory on top has one more
\* for it, or none is noted.
LEMMA PassEvidence ==
  ASSUME WalkInv, RowsInv, EvidenceInv, NEW n, NEW f, NEW g, NEW p, Passes(n, f, g, p)
  PROVE  EvidenceInv'
<1>. PlaceInv
  BY DEF RowsInv
<1>1. /\ OnTop(n, f) /\ n \in Nat \ {0} /\ DOMAIN stack = 1 .. n /\ stack[n] = f
      /\ DOMAIN stack' = 1 .. n /\ stack'[n] = g
      /\ \A j \in 1 .. n - 1 : stack'[j] = stack[j]
  BY DEF Passes, OnTop, StaysAs
<1>2. \A j \in 1 .. n : NotedOf(stack', problems', j) = NotedOf(stack, problems', j)
  BY BelongsStay DEF NotedOf
<1>3. ASSUME NEW i \in DOMAIN rows', rows'[i].collapsed
      PROVE  i \in DOMAIN rows /\ rows'[i] = rows[i]
  <2>1. CASE rows' = rows
    BY <2>1, <1>3
  <2>2. CASE rows' = Append(rows, SkippedRow(p))
    <3>1. PICK row : row = SkippedRow(p)
      OBVIOUS
    <3>2. row.collapsed = FALSE
      BY <3>1, SkippedPath
    <3>3. /\ Len(rows) \in Nat /\ DOMAIN rows = 1 .. Len(rows)
          /\ DOMAIN rows' = 1 .. Len(rows) + 1
          /\ \A l \in 1 .. Len(rows) : rows'[l] = rows[l]
          /\ rows'[Len(rows) + 1] = row
      BY <2>2, <3>1, RowAdded DEF PlaceInv
    <3>. QED
      BY <1>3, <3>2, <3>3
  <2>. QED
    BY <2>1, <2>2 DEF Passes, CountsAt
<1>4. CASE problems' = problems /\ g.evidence = f.evidence
  <2>1. \A j \in DOMAIN stack' : j \in DOMAIN stack /\ stack'[j].evidence = stack[j].evidence
    BY <1>1, <1>4
  <2>. QED
    BY <1>1, <1>2, <1>3, <1>4, <2>1 DEF EvidenceInv
<1>5. CASE problems' = problems \union {p} /\ g.evidence = f.evidence + 1
  <2>1. p \in Seq(NameSet) /\ Len(p) = n /\ IsPrefix(f.path, p)
    BY PassedAnew
  <2>2. p \notin Visited
    BY PassedAnew
  <2>3. p \notin problems
    BY <2>2 DEF Visited
  <2>4. Belongs(stack, n, p) /\ \A j \in 1 .. n - 1 : ~Belongs(stack, j, p)
    BY <1>1, <2>1, BelongsTop
  <2>5. /\ NotedOf(stack, problems', n) = NotedOf(stack, problems, n) \union {p}
        /\ \A j \in 1 .. n - 1 : NotedOf(stack, problems', j) = NotedOf(stack, problems, j)
    BY <2>4, <1>5 DEF NotedOf
  <2>6. IsFiniteSet(problems')
    BY <1>5, FS_AddElement DEF EvidenceInv
  <2>7. g.evidence = Cardinality(NotedOf(stack, problems', n))
    <3>1. PICK A : A = NotedOf(stack, problems, n)
      OBVIOUS
    <3>2. A \subseteq problems /\ p \notin A
      BY <3>1, <2>3 DEF NotedOf
    <3>3. IsFiniteSet(A)
      BY <3>2, FS_Subset DEF EvidenceInv
    <3>4. Cardinality(A \union {p}) = Cardinality(A) + 1
      BY <3>2, <3>3, FS_AddElement
    <3>5. f.evidence = Cardinality(A)
      BY <3>1, <1>1 DEF EvidenceInv
    <3>. QED
      BY <3>1, <3>4, <3>5, <2>5, <1>5
  <2>8. \A j \in DOMAIN stack' : stack'[j].evidence = Cardinality(NotedOf(stack', problems', j))
    <3>1. \A j \in DOMAIN stack' : j \in 1 .. n /\ (j \in 1 .. n - 1 \/ j = n)
      BY <1>1
    <3>2. \A j \in 1 .. n - 1 : /\ j \in DOMAIN stack
                                /\ stack[j].evidence = Cardinality(NotedOf(stack, problems, j))
      BY <1>1 DEF EvidenceInv
    <3>. QED
      BY <3>1, <3>2, <2>5, <2>7, <1>1, <1>2
  <2>9. \A i \in DOMAIN rows : NotedIn(problems', rows[i].path) = NotedIn(problems, rows[i].path)
    <3>1. \A i \in DOMAIN rows : ~IsPrefix(rows[i].path, p)
      BY <1>1, <2>1, <2>2, NoRowAbove
    <3>. QED
      BY <3>1, <1>5 DEF NotedIn
  <2>. QED
    BY <1>3, <2>6, <2>8, <2>9 DEF EvidenceInv
<1>. QED
  BY <1>4, <1>5 DEF Passes, NotesAt

\* The problems after a directory is read.
LEMMA ListEvidence ==
  ASSUME WalkInv, RowsInv, EvidenceInv, NEW n, NEW f, NEW g, Lists(n, f, g)
  PROVE  EvidenceInv'
<1>1. /\ n \in Nat \ {0} /\ DOMAIN stack = 1 .. n /\ stack[n] = f
      /\ DOMAIN stack' = 1 .. n /\ stack'[n] = g
      /\ \A j \in 1 .. n - 1 : stack'[j] = stack[j]
      /\ g.evidence = f.evidence /\ rows' = rows /\ problems' = problems
  BY DEF Lists, OnTop, StaysAs
<1>2. \A j \in 1 .. n : NotedOf(stack', problems, j) = NotedOf(stack, problems, j)
  BY BelongsStay DEF NotedOf
<1>3. \A j \in DOMAIN stack' : j \in DOMAIN stack /\ stack'[j].evidence = stack[j].evidence
  BY <1>1
<1>. QED
  BY <1>1, <1>2, <1>3 DEF EvidenceInv

\* The problems after a directory is entered.
LEMMA EnterEvidence ==
  ASSUME WalkInv, RowsInv, EvidenceInv, NEW n, NEW f, NEW g, NEW h, NEW p,
         Enters(n, f, g, h, p)
  PROVE  EvidenceInv'
<1>1. /\ n \in Nat \ {0} /\ DOMAIN stack = 1 .. n /\ stack[n] = f
      /\ DOMAIN stack' = 1 .. n + 1 /\ stack'[n] = g /\ stack'[n + 1] = h
      /\ \A j \in 1 .. n - 1 : stack'[j] = stack[j]
      /\ g.evidence = f.evidence /\ h.evidence = 0
      /\ rows' = rows /\ problems' = problems
  BY DEF Enters, OnTop
<1>2. \A q \in problems : q \in Visited
  BY DEF Visited
<1>3. \A q \in problems : /\ \A j \in 1 .. n : Belongs(stack', j, q) <=> Belongs(stack, j, q)
                          /\ ~Belongs(stack', n + 1, q)
  BY <1>2, BelongsEnter DEF RowsInv
<1>4. /\ \A j \in 1 .. n : NotedOf(stack', problems, j) = NotedOf(stack, problems, j)
      /\ NotedOf(stack', problems, n + 1) = {}
  BY <1>3 DEF NotedOf
<1>5. \A j \in DOMAIN stack' : stack'[j].evidence = Cardinality(NotedOf(stack', problems, j))
  <2>1. h.evidence = Cardinality(NotedOf(stack', problems, n + 1))
    BY <1>1, <1>4, FS_EmptySet
  <2>2. \A j \in 1 .. n : j \in DOMAIN stack /\ stack'[j].evidence = stack[j].evidence
    BY <1>1
  <2>3. \A j \in DOMAIN stack' : j \in 1 .. n \/ j = n + 1
    BY <1>1
  <2>. QED
    BY <1>1, <1>4, <2>1, <2>2, <2>3 DEF EvidenceInv
<1>. QED
  BY <1>1, <1>5 DEF EvidenceInv

\* The evidence a directory passes on is of all the problems in it.
LEMMA CloseEvidence ==
  ASSUME WalkInv, RowsInv, EvidenceInv, NEW n, NEW f, OnTop(n, f),
         NEW row, NEW k, NEW evidence, Closes(f, row, evidence), RowsClose(f, row, k)
  PROVE  /\ IsFiniteSet(problems')
         /\ \A j \in 1 .. n - 1 : NotedOf(stack, problems', j) = NotedOf(stack, problems, j)
         /\ evidence = Cardinality(NotedIn(problems', f.path))
         /\ \A i \in DOMAIN rows' : rows'[i].collapsed =>
              rows'[i].evidence = Cardinality(NotedIn(problems', rows'[i].path))
<1>. PlaceInv
  BY DEF RowsInv
<1>1. /\ n \in Nat \ {0} /\ DOMAIN stack = 1 .. n /\ stack[n] = f /\ n \in DOMAIN stack
      /\ Len(f.path) = n - 1 /\ f.path \in Seq(NameSet)
  BY DEF OnTop, FrameOK
<1>2. row.path = f.path /\ \A q \in problems : q \in Visited /\ q \in Seq(NameSet)
  BY DEF Closes, Visited, PlaceInv
<1>3. /\ IsFiniteSet(problems')
      /\ \A j \in 1 .. n - 1 : NotedOf(stack, problems', j) = NotedOf(stack, problems, j)
      /\ evidence = Cardinality(NotedIn(problems', f.path))
      /\ row.collapsed => row.evidence = Cardinality(NotedIn(problems', f.path))
      /\ \A i \in DOMAIN rows : NotedIn(problems', rows[i].path) = NotedIn(problems, rows[i].path)
  <2>1. CASE f.ready
    <3>1. /\ problems' = problems /\ evidence = f.evidence
          /\ row.collapsed => row.evidence = f.evidence
      BY <2>1 DEF Closes
    <3>2. NotedOf(stack, problems, n) = NotedIn(problems, f.path)
      BY <1>2, BelongsTop DEF NotedOf, NotedIn
    <3>. QED
      BY <3>1, <3>2, <1>1 DEF EvidenceInv
  <2>2. CASE ~f.ready
    <3>1. problems' = problems \union {f.path} /\ evidence = 1 /\ ~row.collapsed
      BY <2>2 DEF Closes
    <3>2. Fresh(f, Visited)
      BY <1>1 DEF PlaceInv
    <3>3. \A q \in problems : ~IsPrefix(f.path, q)
      BY <1>2, <2>2, <3>2 DEF Fresh
    <3>4. IsPrefix(f.path, f.path)
      BY <1>1, PrefixOrder
    <3>5. NotedIn(problems', f.path) = {f.path}
      BY <3>1, <3>3, <3>4 DEF NotedIn
    <3>6. Cardinality({f.path}) = 1
      BY FS_Singleton
    <3>7. \A j \in 1 .. n - 1 : ~Belongs(stack, j, f.path)
      BY <1>1, <3>4, BelongsTop
    <3>8. \A j \in 1 .. n - 1 : NotedOf(stack, problems', j) = NotedOf(stack, problems, j)
      BY <3>1, <3>7 DEF NotedOf
    <3>9. \A i \in DOMAIN rows : ~IsPrefix(rows[i].path, f.path)
      BY <1>1, <3>4, NoRowAbove
    <3>10. \A i \in DOMAIN rows :
             NotedIn(problems', rows[i].path) = NotedIn(problems, rows[i].path)
      BY <3>1, <3>9 DEF NotedIn
    <3>11. IsFiniteSet(problems')
      BY <3>1, FS_AddElement DEF EvidenceInv
    <3>. QED
      BY <3>1, <3>5, <3>6, <3>8, <3>10, <3>11
  <2>. QED
    BY <2>1, <2>2
<1>4. ASSUME NEW i \in DOMAIN rows', rows'[i].collapsed
      PROVE  rows'[i].evidence = Cardinality(NotedIn(problems', rows'[i].path))
  <2>1. Len(rows) \in Nat /\ DOMAIN rows = 1 .. Len(rows)
    BY SequenceFacts DEF PlaceInv
  <2>2. /\ k \in 0 .. Len(rows) /\ DOMAIN rows' = 1 .. k + 1
        /\ \A l \in 1 .. k : rows'[l] = rows[l]
        /\ rows'[k + 1] = row
    BY DEF RowsClose
  <2>3. k \in Nat /\ (i \in 1 .. k \/ i = k + 1)
    BY <2>1, <2>2
  <2>4. i \in 1 .. k => i \in DOMAIN rows
    BY <2>1, <2>2, <2>3
  <2>5. (i \in DOMAIN rows /\ rows'[i] = rows[i]) \/ rows'[i] = row
    BY <2>2, <2>3, <2>4
  <2>. QED
    BY <1>2, <1>3, <1>4, <2>5 DEF EvidenceInv
<1>. QED
  BY <1>3, <1>4

\* The problems after a directory is left: the one above it takes them over.
LEMMA LeaveEvidence ==
  ASSUME WalkInv, RowsInv, EvidenceInv, NEW n, NEW f, NEW g, NEW row, NEW k, NEW evidence,
         Leaves(n, f, g, row, k, evidence)
  PROVE  EvidenceInv'
<1>. PlaceInv
  BY DEF RowsInv
<1>1. PICK l \in Nat \ {0} : l = n - 1
  BY DEF Leaves
<1>2. /\ OnTop(n, f) /\ StaysAs(l, g)
      /\ Closes(f, row, evidence) /\ RowsClose(f, row, k)
      /\ g.evidence = stack[l].evidence + evidence
  BY <1>1 DEF Leaves
<1>3. /\ n \in Nat \ {0} /\ DOMAIN stack = 1 .. n /\ l \in DOMAIN stack /\ n \in DOMAIN stack
      /\ stack[n] = f /\ DOMAIN stack' = 1 .. l /\ stack'[l] = g
      /\ \A j \in 1 .. l - 1 : stack'[j] = stack[j]
  BY <1>1, <1>2 DEF OnTop, StaysAs
<1>4. /\ IsFiniteSet(problems')
      /\ \A j \in 1 .. l : NotedOf(stack, problems', j) = NotedOf(stack, problems, j)
      /\ evidence = Cardinality(NotedIn(problems', f.path))
      /\ \A i \in DOMAIN rows' : rows'[i].collapsed =>
           rows'[i].evidence = Cardinality(NotedIn(problems', rows'[i].path))
  BY <1>1, <1>2, CloseEvidence
<1>5. \A q \in problems' : q \in Seq(NameSet)
  <2>1. f.path \in Seq(NameSet) /\ problems' \subseteq problems \union {f.path}
    BY <1>2 DEF OnTop, FrameOK, Closes
  <2>. QED
    BY <2>1 DEF PlaceInv, Visited
<1>6. \A j \in 1 .. l - 1 : NotedOf(stack', problems', j) = NotedOf(stack, problems', j)
  <2>1. \A q \in problems' : \A j \in 1 .. n - 2 :
          Belongs(stack', j, q) <=> Belongs(stack, j, q)
    BY <1>5, BelongsLeave
  <2>2. \A j \in 1 .. l - 1 : j \in 1 .. n - 2
    BY <1>1, <1>3
  <2>. QED
    BY <2>1, <2>2 DEF NotedOf
<1>7. PICK A : A = NotedOf(stack, problems', l)
  OBVIOUS
<1>8. PICK B : B = NotedIn(problems', f.path)
  OBVIOUS
<1>9. NotedOf(stack', problems', l) = A \union B
  <2>1. \A q \in problems' :
          Belongs(stack', l, q) <=> Belongs(stack, l, q) \/ IsPrefix(f.path, q)
    BY <1>1, <1>5, BelongsLeave
  <2>. QED
    BY <2>1, <1>7, <1>8 DEF NotedOf, NotedIn
<1>10. A \intersect B = {}
  <2>1. \A q \in problems' : IsPrefix(f.path, q) =>
          \A j \in 1 .. n - 1 : ~Belongs(stack, j, q)
    BY <1>2, <1>5, BelongsTop
  <2>2. l \in 1 .. n - 1
    BY <1>1, <1>3
  <2>. QED
    BY <2>1, <2>2, <1>7, <1>8 DEF NotedOf, NotedIn
<1>11. IsFiniteSet(A) /\ IsFiniteSet(B)
  <2>1. A \subseteq problems' /\ B \subseteq problems'
    BY <1>7, <1>8 DEF NotedOf, NotedIn
  <2>. QED
    BY <2>1, <1>4, FS_Subset
<1>12. g.evidence = Cardinality(A \union B)
  <2>1. l \in 1 .. l
    OBVIOUS
  <2>2. stack[l].evidence = Cardinality(A) /\ evidence = Cardinality(B)
    BY <2>1, <1>3, <1>4, <1>7, <1>8 DEF EvidenceInv
  <2>3. Cardinality(A) \in Nat /\ Cardinality(B) \in Nat
    BY <1>11, FS_CardinalityType
  <2>4. Cardinality(A \union B) = Cardinality(A) + Cardinality(B) - Cardinality({})
    BY <1>10, <1>11, FS_Union
  <2>5. Cardinality({}) = 0
    BY FS_EmptySet
  <2>. QED
    BY <1>2, <2>2, <2>3, <2>4, <2>5
<1>13. ASSUME NEW j \in DOMAIN stack'
       PROVE  stack'[j].evidence = Cardinality(NotedOf(stack', problems', j))
  <2>1. CASE j \in 1 .. l - 1
    <3>1. j \in DOMAIN stack /\ stack'[j] = stack[j] /\ j \in 1 .. l
      BY <2>1, <1>1, <1>3
    <3>. QED
      BY <2>1, <3>1, <1>4, <1>6 DEF EvidenceInv
  <2>2. CASE j = l
    BY <2>2, <1>3, <1>9, <1>12
  <2>. QED
    BY <2>1, <2>2, <1>3
<1>. QED
  BY <1>4, <1>13 DEF EvidenceInv

\* The problems after the root is left.
LEMMA EndEvidence ==
  ASSUME WalkInv, RowsInv, EvidenceInv, NEW f, NEW row, NEW k, Ends(f, row, k)
  PROVE  EvidenceInv'
<1>1. /\ OnTop(1, f) /\ stack' = <<>> /\ Closes(f, row, f.evidence) /\ RowsClose(f, row, k)
      /\ DOMAIN stack' = {}
  BY DEF Ends
<1>2. /\ IsFiniteSet(problems')
      /\ \A i \in DOMAIN rows' : rows'[i].collapsed =>
           rows'[i].evidence = Cardinality(NotedIn(problems', rows'[i].path))
  BY <1>1, CloseEvidence
<1>. QED
  BY <1>1, <1>2 DEF EvidenceInv

\* A collapsed row, in any scan, reports each problem its directory and everything
\* folded into it had, and each once.
THEOREM CollapsedReportsAll == Spec => []EvidenceFolded
<1>1. Init => EvidenceInv
  <2>1. DOMAIN <<>> = {} /\ IsFiniteSet({})
    BY FS_EmptySet
  <2>. QED
    BY <2>1 DEF Init, EvidenceInv
<1>2. WalkInv /\ WalkInv' /\ RowsInv /\ EvidenceInv /\ [Next]_vars => EvidenceInv'
  <2>. SUFFICES ASSUME WalkInv, WalkInv', RowsInv, EvidenceInv, [Next]_vars
                PROVE  EvidenceInv'
    OBVIOUS
  <2>1. ASSUME NEW h, Starts(h)
        PROVE  EvidenceInv'
    <3>1. /\ problems' = {} /\ DOMAIN stack' = 1 .. 1 /\ stack'[1] = h /\ h.evidence = 0
          /\ rows' = <<>> /\ DOMAIN rows' = {}
      BY <2>1 DEF Starts, RowsInv, PlaceInv
    <3>2. \A j : NotedOf(stack', problems', j) = {}
      BY <3>1 DEF NotedOf
    <3>3. \A j \in DOMAIN stack' : stack'[j].evidence = 0
      BY <3>1
    <3>. QED
      BY <3>1, <3>2, <3>3, FS_EmptySet DEF EvidenceInv
  <2>2. CASE Stops
    <3>0. Visited = {} /\ rows' = rows /\ problems' = problems /\ stack' = <<>>
      BY <2>2 DEF Stops
    <3>1. problems' = {} /\ DOMAIN rows = {}
      BY <3>0 DEF Visited
    <3>2. DOMAIN stack' = {} /\ DOMAIN rows' = {}
      BY <3>0, <3>1
    <3>. QED
      BY <3>1, <3>2, FS_EmptySet DEF EvidenceInv
  <2>3. CASE UNCHANGED vars
    BY <2>3 DEF vars, EvidenceInv
  <2>. QED
    BY <2>1, <2>2, <2>3, PassEvidence, ListEvidence, EnterEvidence, LeaveEvidence,
       EndEvidence, StepKinds
<1>3. EvidenceInv => EvidenceFolded
  BY DEF EvidenceInv, EvidenceFolded, NotedIn
<1>. QED
  BY <1>1, <1>2, <1>3, WalkInvariance, RowsInvariance, PTL DEF Spec

--------------------------------------------------------------------------------
(* Hard links *)

\* A file x with further links is counted with charge c, and with its blocks if it
\* has not been seen before.
CountsLink(x, c) ==
  /\ x \in Nodes /\ IsHardlink(x)
  /\ charges' = charges \union {c} /\ c \notin charges
  /\ c.node = x /\ c.usage \in Usages
  /\ c.usage["disk"] = IF x \in seenInodes THEN 0 ELSE Attr[x].blocks
  /\ seenInodes' = seenInodes \union {x} /\ hadFailure' = hadFailure

\* The links that are counted stay as they are.
KeepsLinks ==
  /\ LinksOf(charges') = LinksOf(charges) /\ seenInodes' = seenInodes
  /\ hadFailure = TRUE => hadFailure' = TRUE

\* What is charged for a directory is no link.
LEMMA DirectoryIsNoLink ==
  ASSUME NEW x, Attr[x].kind = "dir", NEW path, NEW usage, NEW entered,
         Charge(path, x, usage, entered)
  PROVE  LinksOf(charges') = LinksOf(charges)
<1>1. PICK c : c = [path |-> path, node |-> x, usage |-> usage, entered |-> entered]
  OBVIOUS
<1>2. charges' = charges \union {c} /\ c.node = x
  BY <1>1 DEF Charge
<1>3. ~IsHardlink(x)
  BY DEF IsHardlink
<1>. QED
  BY <1>2, <1>3 DEF LinksOf

\* What a file adds to the disk usage, and what is charged for it.
LEMMA FileCounted ==
  ASSUME WalkInv, RowsInv, NEW x \in Nodes, CountFile(x)
  PROVE  KeepsLinks \/ \E c : CountsLink(x, c)
<1>1. PICK n, f, g, p : Passes(n, f, g, p) /\ p = EntryPath
  BY PassFacts DEF RowsInv
<1>2. p \notin Visited
  BY <1>1, PassedAnew DEF RowsInv
<1>3. PICK u : u = FileUsage(x)
  OBVIOUS
<1>4. PICK c : c = [path |-> p, node |-> x, usage |-> u, entered |-> FALSE]
  OBVIOUS
<1>5. c.path = p /\ c.node = x /\ c.usage = u /\ u \in Usages
  BY <1>3, <1>4, UsageTypes
<1>6. charges' = charges \union {c} /\ hadFailure' = hadFailure
  BY <1>1, <1>3, <1>4 DEF CountFile, Charge
<1>7. c \notin charges
  BY <1>2, <1>5 DEF Visited
<1>8. CASE ~IsHardlink(x)
  <2>1. seenInodes' = seenInodes
    BY <1>8 DEF CountFile
  <2>. QED
    BY <1>5, <1>6, <1>8, <2>1 DEF KeepsLinks, LinksOf
<1>9. CASE IsHardlink(x)
  <2>1. seenInodes' = seenInodes \union {x}
    BY <1>9 DEF CountFile
  <2>2. FileDisk(x) = Attr[x].blocks
    BY <1>9 DEF FileDisk, IsHardlink
  <2>3. u["disk"] = IF x \in seenInodes THEN 0 ELSE Attr[x].blocks
    BY <1>3, <1>9, <2>2 DEF FileUsage, FileBase, Zero, Measures
  <2>. QED
    BY <1>5, <1>6, <1>7, <1>9, <2>1, <2>3 DEF CountsLink
<1>. QED
  BY <1>8, <1>9

\* A step counts a link, leaves the links alone, or makes the scan PARTIAL.
LEMMA LinkKinds ==
  ASSUME WalkInv, RowsInv, [Next]_vars
  PROVE  \/ KeepsLinks
         \/ hadFailure' = TRUE /\ seenInodes' = seenInodes
         \/ \E x, c : CountsLink(x, c)
<1>1. CASE UNCHANGED vars
  BY <1>1 DEF vars, KeepsLinks
<1>2. CASE RootAccepted \/ RootRejected \/ ListRootFails \/ FinishFrame
  BY <1>2 DEF RootAccepted, RootRejected, ListRootFails, FinishFrame, ghosts, KeepsLinks
<1>3. ASSUME NEW missing \in BOOLEAN, ListDirectory \/ ListFails(missing)
      PROVE  KeepsLinks
  <2>1. stack # <<>>
    BY <1>3 DEF WalkInv, ListDirectory, ListFails
  <2>2. FrameOK(Frame)
    BY <2>1, TopFacts
  <2>3. Attr[Frame.node].kind = "dir"
    BY <2>2 DEF FrameOK, IsDirectory
  <2>4. Charge(Frame.path, Frame.node, AsDirectory(DirUsage(Frame.node)), TRUE)
    BY <1>3 DEF ListDirectory, ListFails
  <2>5. LinksOf(charges') = LinksOf(charges)
    BY <2>3, <2>4, DirectoryIsNoLink
  <2>6. seenInodes' = seenInodes /\ (hadFailure = TRUE => hadFailure' = TRUE)
    BY <1>3 DEF ListDirectory, ListFails
  <2>. QED
    BY <2>5, <2>6 DEF KeepsLinks
<1>4. ASSUME NEW x, ExcludedDirectory(x) \/ SkipDirectory(x)
      PROVE  KeepsLinks
  <2>1. Attr[x].kind = "dir" /\ seenInodes' = seenInodes /\ hadFailure' = hadFailure
    BY <1>4 DEF ExcludedDirectory, SkipDirectory
  <2>2. charges' = charges \/ Charge(EntryPath, x, AsDirectory(Zero), FALSE)
    BY <1>4 DEF ExcludedDirectory, SkipDirectory
  <2>3. LinksOf(charges') = LinksOf(charges)
    BY <2>1, <2>2, DirectoryIsNoLink
  <2>. QED
    BY <2>1, <2>3 DEF KeepsLinks
<1>5. ASSUME NEW x, EnterDirectory(x)
      PROVE  KeepsLinks
  BY <1>5 DEF EnterDirectory, ghosts, KeepsLinks
<1>6. ASSUME NEW x, HardlinkLimit(x)
      PROVE  hadFailure' = TRUE /\ seenInodes' = seenInodes
  BY <1>6 DEF HardlinkLimit
<1>7. CASE ExcludedOther
  BY <1>7 DEF ExcludedOther, KeepsLinks
<1>8. ASSUME NEW missing \in BOOLEAN, EntryFails(missing)
      PROVE  KeepsLinks
  BY <1>8 DEF EntryFails, KeepsLinks
<1>9. ASSUME AtEntry, NEW x \in Found, CountFile(x)
      PROVE  KeepsLinks \/ \E c : CountsLink(x, c)
  <2>1. x \in Nodes
    BY <1>9, FoundNodes
  <2>. QED
    BY <1>9, <2>1, FileCounted
<1>. QED
  BY <1>1, <1>2, <1>3, <1>4, <1>5, <1>6, <1>7, <1>8, <1>9 DEF Next, Entry

\* The links when one more is counted: its inode has its blocks counted once.
LEMMA LinkCounted ==
  ASSUME SumInv, LinkInv, NEW x, NEW c, CountsLink(x, c)
  PROVE  LinkInv'
<1>1. /\ x \in Nodes /\ IsHardlink(x) /\ c \notin charges /\ c.node = x /\ c.usage \in Usages
      /\ charges' = charges \union {c} /\ seenInodes' = seenInodes \union {x}
      /\ hadFailure' = hadFailure
      /\ c.usage["disk"] = IF x \in seenInodes THEN 0 ELSE Attr[x].blocks
  BY DEF CountsLink
<1>2. IsFiniteSet(seenInodes') /\ seenInodes' \subseteq Nodes
  BY <1>1, FS_AddElement DEF LinkInv
<1>3. LinksOf(charges') = LinksOf(charges) \union {c}
  BY <1>1 DEF LinksOf
<1>4. ASSUME hadFailure # TRUE
      PROVE  /\ seenInodes' = NodesOf(LinksOf(charges'))
             /\ Total("disk", LinksOf(charges')) = SumFunctionOnSet(Blocks, seenInodes')
  <2>1. /\ seenInodes = NodesOf(LinksOf(charges))
        /\ Total("disk", LinksOf(charges)) = SumFunctionOnSet(Blocks, seenInodes)
        /\ IsFiniteSet(seenInodes) /\ seenInodes \subseteq Nodes
    BY <1>4 DEF LinkInv
  <2>2. seenInodes' = NodesOf(LinksOf(charges'))
    BY <1>1, <1>3, <2>1 DEF NodesOf
  <2>3. PICK A : A = LinksOf(charges)
    OBVIOUS
  <2>4. A \subseteq charges /\ IsFiniteSet(charges) /\ \A d \in charges : d.usage \in Usages
    BY <2>3 DEF LinksOf, SumInv
  <2>5. IsFiniteSet(A) /\ c \notin A /\ \A d \in A : d.usage \in Usages
    BY <1>1, <2>4, FS_Subset
  <2>6. "disk" \in Measures
    BY DEF Measures
  <2>7. Total("disk", A) \in Int /\ Total("disk", A \union {c}) = Total("disk", A) + c.usage["disk"]
    BY <1>1, <2>5, <2>6, TotalAdd
  <2>8. CASE x \in seenInodes
    <3>1. seenInodes' = seenInodes /\ c.usage["disk"] = 0
      BY <1>1, <2>8
    <3>. QED
      BY <1>3, <2>1, <2>2, <2>3, <2>7, <3>1
  <2>9. CASE x \notin seenInodes
    <3>1. \A y \in seenInodes \union {x} : Blocks[y] \in Int
      BY <1>1, <2>1, FilesystemAssumption DEF Blocks
    <3>2. SumFunctionOnSet(Blocks, seenInodes \union {x})
            = SumFunctionOnSet(Blocks, seenInodes) + Blocks[x]
      BY <2>1, <2>9, <3>1, SumAdd
    <3>3. c.usage["disk"] = Blocks[x]
      BY <1>1, <2>9 DEF Blocks
    <3>. QED
      BY <1>1, <1>3, <2>1, <2>2, <2>3, <2>7, <3>2, <3>3
  <2>. QED
    BY <2>8, <2>9
<1>. QED
  BY <1>1, <1>2, <1>4 DEF LinkInv

\* The links of a scan that has missed nothing are the inodes it has seen.
THEOREM LinkInvariance == Spec => []LinkInv
<1>1. Init => LinkInv
  <2>. SUFFICES ASSUME Init PROVE LinkInv
    OBVIOUS
  <2>1. charges = {} /\ seenInodes = {} /\ LinksOf({}) = {} /\ NodesOf({}) = {}
    BY DEF Init, LinksOf, NodesOf
  <2>2. SumFunctionOnSet(Blocks, {}) = 0 /\ Total("disk", {}) = 0
    BY SumEmpty DEF Total
  <2>. QED
    BY <2>1, <2>2, FS_EmptySet DEF LinkInv
<1>2. WalkInv /\ RowsInv /\ SumInv /\ LinkInv /\ [Next]_vars => LinkInv'
  <2>. SUFFICES ASSUME WalkInv, RowsInv, SumInv, LinkInv, [Next]_vars
                PROVE  LinkInv'
    OBVIOUS
  <2>1. CASE KeepsLinks
    BY <2>1 DEF KeepsLinks, LinkInv
  <2>2. CASE hadFailure' = TRUE /\ seenInodes' = seenInodes
    BY <2>2 DEF LinkInv
  <2>. QED
    BY <2>1, <2>2, LinkCounted, LinkKinds
<1>. QED
  BY <1>1, <1>2, WalkInvariance, RowsInvariance, SumInvariance, PTL DEF Spec

\* The disk usage a COMPLETE scan of any filesystem reports for its root is that
\* of its inodes, each counted once however many links to it the scan met.
THEOREM RootCountsLikeDu == Spec => []CountsLikeDu
<1>1. Reported /\ RowsInv /\ SumInv /\ LinkInv => CountsLikeDu
  <2>. SUFFICES ASSUME Reported, RowsInv, SumInv, LinkInv, status = "complete"
                PROVE  Last(rows).usage["disk"] =
                         Total("disk", charges \ LinksOf(charges))
                           + SumFunctionOnSet(Blocks, NodesOf(LinksOf(charges)))
    BY DEF CountsLikeDu, LinksOf, NodesOf, Blocks
  <2>1. phase = "done" /\ hadFailure # TRUE
    BY DEF Reported
  <2>2. rows # <<>> /\ Last(rows).path = <<>>
    BY <2>1 DEF RowsInv, TreeInv, Scanned
  <2>3. PICK i \in DOMAIN rows : Last(rows) = rows[i]
    <3>1. IsSequence(rows)
      BY DEF RowsInv, PlaceInv
    <3>2. Len(rows) \in DOMAIN rows
      BY <2>2, <3>1, ReplaceLast
    <3>. QED
      BY <3>2 DEF Last
  <2>4. Inside(charges, <<>>) = charges
    <3>1. \A c \in charges : c.path \in Seq(NameSet)
      BY DEF RowsInv, PlaceInv, Visited
    <3>. QED
      BY <3>1, RootPrefix DEF Inside
  <2>5. "disk" \in Measures /\ Itself("disk") = 0
    BY DEF Measures, Itself
  <2>6. PICK A : A = LinksOf(charges)
    OBVIOUS
  <2>7. PICK B : B = charges \ A
    OBVIOUS
  <2>8. /\ IsFiniteSet(charges) /\ \A c \in charges : c.usage \in Usages
        /\ Last(rows).usage["disk"] = Total("disk", charges) - 0
    BY <2>2, <2>3, <2>4, <2>5 DEF SumInv
  <2>9. A \subseteq charges /\ B \subseteq charges /\ A \intersect B = {} /\ A \union B = charges
    BY <2>6, <2>7 DEF LinksOf
  <2>10. IsFiniteSet(A) /\ IsFiniteSet(B)
    BY <2>8, <2>9, FS_Subset
  <2>11. /\ Total("disk", A) \in Int /\ Total("disk", B) \in Int
         /\ Total("disk", A \union B) = Total("disk", A) + Total("disk", B)
    BY <2>5, <2>8, <2>9, <2>10, TotalUnion
  <2>12. /\ seenInodes = NodesOf(A)
         /\ Total("disk", A) = SumFunctionOnSet(Blocks, seenInodes)
    BY <2>1, <2>6 DEF LinkInv
  <2>13. Last(rows).usage["disk"] = Total("disk", B) + SumFunctionOnSet(Blocks, NodesOf(A))
    <3>1. Total("disk", charges) = Total("disk", A) + Total("disk", B)
      BY <2>9, <2>11
    <3>2. PICK a \in Int : a = Total("disk", A)
      BY <2>11
    <3>3. PICK b \in Int : b = Total("disk", B)
      BY <2>11
    <3>4. Last(rows).usage["disk"] = (a + b) - 0
      BY <2>8, <3>1, <3>2, <3>3
    <3>5. Last(rows).usage["disk"] = b + a
      BY <3>4
    <3>. QED
      BY <2>12, <3>2, <3>3, <3>5
  <2>. QED
    BY <2>6, <2>7, <2>13
<1>. QED
  BY <1>1, ReportedInvariance, RowsInvariance, SumInvariance, LinkInvariance, PTL
================================================================================
