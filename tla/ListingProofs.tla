---------------------------- MODULE ListingProofs ----------------------------
(***************************************************************************)
(* Proofs about Listing, for any tree, any limit of open directories and   *)
(* any failures.                                                           *)
(*                                                                         *)
(* CompleteAtEnd rests on where a file stands while the walk goes on       *)
(* (Accounted): in every directory on the stack that is above it, the      *)
(* next name of its path is either still to be read, and there is no       *)
(* record of the file; or it is the one in hand, or the next directory on  *)
(* the stack; or it was read, and there is one record.                     *)
(***************************************************************************)
EXTENDS Listing, SequenceTheorems, TLAPS

Upto(p, n) == SubSeq(p, 1, n)
InHand == pc \in {"open", "stat", "send"}

\* The directories on the stack lie in each other, and path in the last; the
\* names that led there are not read again.
StackInv ==
    /\ pc \in {"read", "stat", "send"} => stack # <<>>
    /\ pc \in {"idle", "end", "done", "failed"} => stack = <<>>
    /\ pc = "open" => path \in Dirs /\ (stack = <<>> => path = <<>>)
    /\ pc = "send" => path \in Files
    /\ \A j \in 1..Len(stack) :
         /\ Len(stack[j].dir) = j - 1
         /\ \A i \in 1 .. j - 1 : /\ Upto(stack[j].dir, i - 1) = stack[i].dir
                                  /\ stack[j].dir[i] \notin stack[i].must
    /\ InHand /\ stack # <<>> =>
         /\ Len(path) = Len(stack)
         /\ \A i \in 1..Len(stack) : /\ Upto(path, i - 1) = stack[i].dir
                                     /\ path[i] \notin stack[i].must

\* What a directory may or may not return was not there all the time.
MayInv == \A i \in 1..Len(stack) : \A s \in stack[i].may :
             Append(stack[i].dir, s) \in Files \ steady

Within(f, i) == i <= Len(f) /\ Upto(f, i - 1) = stack[i].dir

AccountedIn(f, i) ==
    IF f[i] \in stack[i].must THEN sent[f] = 0
    ELSE IF i < Len(stack) THEN stack[i + 1].dir = Upto(f, i) \/ sent[f] = 1
    ELSE sent[f] = IF InHand /\ path = Upto(f, i) THEN 0 ELSE 1

Accounted ==
    \A f \in steady :
        /\ stack = <<>> /\ pc = "open" => sent[f] = 0
        /\ pc \in {"end", "done"} => sent[f] = 1
        /\ \A i \in 1..Len(stack) : Within(f, i) => AccountedIn(f, i)

\* A name that leads nowhere was removed during this listing.
There(p) == p \in Dirs \cup present \/ "removed" \in trouble
ThereInv ==
    /\ \A i \in 1..Len(stack) : \A s \in stack[i].must \cup stack[i].may :
         There(Append(stack[i].dir, s))
    /\ pc = "stat" => There(path)
    /\ FailsForReason

IInv == /\ TypeOK /\ StackInv /\ MayInv /\ ThereInv /\ OnlyFailuresLeak
        /\ "cut" \notin trouble => Accounted

-----------------------------------------------------------------------------
(* Paths.                                                                  *)

LEMMA UptoOf ==
  ASSUME NEW p \in Seq(Segs), NEW n \in 0..Len(p)
  PROVE  /\ Upto(p, n) \in Seq(Segs) /\ Len(Upto(p, n)) = n
         /\ \A i \in 1..n : Upto(p, n)[i] = p[i]
<1>1. Upto(p, n) = [i \in 1..n |-> p[i]]
  BY DEF Upto
<1>2. \A i \in 1..n : p[i] \in Segs
  OBVIOUS
<1> QED BY <1>1, <1>2

LEMMA UptoUpto ==
  ASSUME NEW p \in Seq(Segs), NEW n \in 0..Len(p), NEW m \in 0..n
  PROVE  Upto(Upto(p, n), m) = Upto(p, m)
<1>1. Upto(p, m) = [i \in 1..m |-> p[i]]
  BY DEF Upto
<1>2. Upto(Upto(p, n), m) = [i \in 1..m |-> Upto(p, n)[i]]
  BY UptoOf DEF Upto
<1>3. \A i \in 1..m : Upto(p, n)[i] = p[i]
  BY UptoOf
<1> QED BY <1>1, <1>2, <1>3

LEMMA UptoAll ==
  ASSUME NEW p \in Seq(Segs)
  PROVE  Upto(p, Len(p)) = p /\ Upto(p, 0) = <<>>
BY DEF Upto

LEMMA UptoNext ==
  ASSUME NEW p \in Seq(Segs), NEW n \in 1..Len(p)
  PROVE  Upto(p, n) = Append(Upto(p, n - 1), p[n]) /\ p[n] \in Segs
<1>1. Upto(p, n) = [i \in 1..n |-> p[i]] /\ Upto(p, n - 1) = [i \in 1 .. n - 1 |-> p[i]]
  BY DEF Upto
<1>2. Len(Upto(p, n - 1)) = n - 1 /\ Upto(p, n - 1) \in Seq(Segs)
  BY UptoOf
<1>3. Append(Upto(p, n - 1), p[n]) = [i \in 1..n |-> IF i = n THEN p[n] ELSE Upto(p, n - 1)[i]]
  BY <1>2
<1> QED BY <1>1, <1>3

LEMMA AppendUpto ==
  ASSUME NEW d \in Seq(Segs), NEW s \in Segs
  PROVE  LET p == Append(d, s)
         IN  /\ p \in Seq(Segs) /\ Len(p) = Len(d) + 1 /\ p[Len(d) + 1] = s
             /\ \A i \in 1..Len(d) : p[i] = d[i]
             /\ \A i \in 0..Len(d) : Upto(p, i) = Upto(d, i)
             /\ Upto(p, Len(d)) = d
<1> DEFINE p == Append(d, s)
<1>1. p \in Seq(Segs) /\ Len(p) = Len(d) + 1 /\ p[Len(d) + 1] = s
      /\ \A i \in 1..Len(d) : p[i] = d[i]
  OBVIOUS
<1> HIDE DEF p
<1>2. ASSUME NEW i \in 0..Len(d) PROVE Upto(p, i) = Upto(d, i)
  <2>1. Upto(p, i) = [k \in 1..i |-> p[k]] /\ Upto(d, i) = [k \in 1..i |-> d[k]]
    BY <1>1 DEF Upto
  <2> QED BY <1>1, <2>1
<1>3. Upto(p, Len(d)) = d
  BY <1>2, UptoAll
<1> QED BY <1>1, <1>2, <1>3 DEF p

LEMMA AppendSame ==
  ASSUME NEW d \in Seq(Segs), NEW s \in Segs, NEW e \in Seq(Segs), NEW t \in Segs,
         Append(d, s) = Append(e, t)
  PROVE  d = e /\ s = t
BY AppendUpto

\* Nothing is below a file, and everything above one is a directory.
LEMMA AboveFile ==
  ASSUME NEW f \in Files
  PROVE  /\ f \in Seq(Segs) /\ Len(f) >= 1
         /\ \A n \in 0 .. Len(f) - 1 : Upto(f, n) \in Dirs /\ Upto(f, n) \notin Files
         /\ \A n \in 0..Len(f) : Upto(f, n) \in Files => Upto(f, n) = f
<1>1. f \in Seq(Segs) /\ f # <<>>
  BY ListingAssumption
<1>2. Len(f) >= 1
  BY <1>1
<1>3. ASSUME NEW n \in 0 .. Len(f) - 1 PROVE Upto(f, n) \in Dirs /\ Upto(f, n) \notin Files
  BY ListingAssumption DEF Upto
<1>4. ASSUME NEW n \in 0..Len(f), Upto(f, n) \in Files PROVE Upto(f, n) = f
  <2>1. n = Len(f)
    BY <1>1, <1>3, <1>4
  <2> QED BY <1>1, <2>1, UptoAll
<1> QED BY <1>1, <1>2, <1>3, <1>4

LEMMA ParentOf ==
  ASSUME NEW f \in Files
  PROVE  /\ Name(f) \in Segs /\ Parent(f) \in Seq(Segs)
         /\ Append(Parent(f), Name(f)) = f
<1>1. f \in Seq(Segs) /\ Len(f) \in 1..Len(f)
  BY AboveFile
<1>2. Upto(f, Len(f)) = Append(Upto(f, Len(f) - 1), f[Len(f)]) /\ f[Len(f)] \in Segs
  BY <1>1, UptoNext
<1>3. Upto(f, Len(f)) = f /\ Upto(f, Len(f) - 1) \in Seq(Segs)
  BY <1>1, UptoAll, UptoOf
<1> QED BY <1>2, <1>3 DEF Parent, Name, Upto

-----------------------------------------------------------------------------
(* Types, and the calls on the stack.                                      *)

LEMMA FrameTypes ==
  ASSUME TypeOK
  PROVE  /\ Len(stack) \in Nat
         /\ \A i \in 1..Len(stack) : /\ stack[i] \in Frame
                                     /\ stack[i].dir \in Dirs /\ stack[i].dir \in Seq(Segs)
                                     /\ stack[i].must \subseteq Segs /\ stack[i].may \subseteq Segs
         /\ stack # <<>> => Len(stack) >= 1
         /\ \A d \in Dirs : Children(d) \subseteq Segs
<1>1. Len(stack) \in Nat /\ \A i \in 1..Len(stack) : stack[i] \in Frame
  BY DEF TypeOK
<1>2. stack # <<>> => Len(stack) >= 1
  BY DEF TypeOK
<1> QED BY <1>1, <1>2, ListingAssumption DEF Frame, Children

\* A call more.
LEMMA Pushed ==
  ASSUME TypeOK, NEW d \in Dirs,
         stack' = Append(stack, [dir |-> d, must |-> Children(d), may |-> {}])
  PROVE  /\ stack' \in Seq(Frame) /\ Len(stack') = Len(stack) + 1
         /\ \A i \in 1..Len(stack) : stack'[i] = stack[i]
         /\ stack'[Len(stack) + 1] = [dir |-> d, must |-> Children(d), may |-> {}]
         /\ stack' # <<>>
<1>1. [dir |-> d, must |-> Children(d), may |-> {}] \in Frame
  BY FrameTypes DEF Frame
<1>2. stack \in Seq(Frame)
  BY DEF TypeOK
<1> QED BY <1>1, <1>2

\* The last call reads one name.
LEMMA ReadOne ==
  ASSUME TypeOK, stack # <<>>, NEW s, stack' = [stack EXCEPT ![Len(stack)] = Taken(s)]
  PROVE  /\ stack' \in Seq(Frame) /\ Len(stack') = Len(stack)
         /\ \A i \in 1..Len(stack) : stack'[i].dir = stack[i].dir
         /\ \A i \in 1 .. Len(stack) - 1 : stack'[i] = stack[i]
         /\ stack'[Len(stack)].must = stack[Len(stack)].must \ {s}
         /\ stack'[Len(stack)].may = stack[Len(stack)].may \ {s}
         /\ stack' # <<>>
<1>1. stack \in Seq(Frame) /\ Len(stack) >= 1 /\ Len(stack) \in 1..Len(stack) /\ Top \in Frame
  BY FrameTypes DEF TypeOK, Top
<1>2. /\ Taken(s) \in Frame /\ Taken(s).dir = Top.dir
      /\ Taken(s).must = Top.must \ {s} /\ Taken(s).may = Top.may \ {s}
  BY <1>1 DEF Taken, Frame
<1>3. /\ stack' \in Seq(Frame) /\ Len(stack') = Len(stack)
      /\ \A i \in 1 .. Len(stack) - 1 : stack'[i] = stack[i]
      /\ stack'[Len(stack)] = Taken(s)
  BY <1>1, <1>2
<1>4. ASSUME NEW i \in 1..Len(stack) PROVE stack'[i].dir = stack[i].dir
  <2>1. CASE i = Len(stack)
    BY <1>2, <1>3, <2>1 DEF Top
  <2>2. CASE i # Len(stack)
    <3>1. i \in 1 .. Len(stack) - 1
      BY <1>1, <2>2
    <3> QED BY <1>3, <3>1
  <2> QED BY <2>1, <2>2
<1>5. stack' # <<>>
  <2>1. Len(stack') >= 1
    BY <1>1, <1>3
  <2> QED BY <2>1
<1> QED BY <1>2, <1>3, <1>4, <1>5 DEF Top

\* The last call returns.
LEMMA Popped ==
  ASSUME TypeOK, stack # <<>>, Leave
  PROVE  /\ stack' \in Seq(Frame) /\ Len(stack') = Len(stack) - 1
         /\ \A i \in 1 .. Len(stack) - 1 : stack'[i] = stack[i]
         /\ stack' = <<>> <=> Len(stack) = 1
         /\ pc' = IF stack' = <<>> THEN "end" ELSE "read"
<1>1. stack \in Seq(Frame) /\ Len(stack) >= 1
  BY FrameTypes DEF TypeOK
<1>2. /\ stack' \in Seq(Frame) /\ Len(stack') = Len(stack) - 1
      /\ \A i \in 1 .. Len(stack) - 1 : stack'[i] = stack[i]
  <2>1. Len(stack) - 1 \in 0..Len(stack)
    BY <1>1
  <2>2. stack' = [i \in 1 .. Len(stack) - 1 |-> stack[i]]
    BY <1>1, <2>1 DEF Leave
  <2>3. \A i \in 1 .. Len(stack) - 1 : stack[i] \in Frame
    BY <1>1
  <2>4. Len(stack) - 1 \in Nat
    BY <1>1
  <2> HIDE DEF Leave
  <2> QED BY <2>2, <2>3, <2>4
<1>3. stack' = <<>> <=> Len(stack) = 1
  BY <1>1, <1>2
<1> QED BY <1>2, <1>3 DEF Leave

\* A file came or went.
LEMMA NoticedOf ==
  ASSUME TypeOK, NEW f \in Files, stack' = Noticed(f)
  PROVE  /\ stack' \in Seq(Frame) /\ Len(stack') = Len(stack)
         /\ stack' = <<>> <=> stack = <<>>
         /\ \A i \in 1..Len(stack) :
              /\ stack'[i].dir = stack[i].dir
              /\ stack[i].dir # Parent(f) => stack'[i] = stack[i]
              /\ stack[i].dir = Parent(f) => /\ stack'[i].must = stack[i].must \ {Name(f)}
                                             /\ stack'[i].may = stack[i].may \cup {Name(f)}
<1>1. \A i \in 1..Len(stack) : stack[i] \in Frame
  BY FrameTypes
<1>2. Name(f) \in Segs
  BY ParentOf
<1>3. ASSUME NEW i \in 1..Len(stack)
      PROVE  /\ Noticed(f)[i] \in Frame
             /\ stack'[i].dir = stack[i].dir
             /\ stack[i].dir # Parent(f) => stack'[i] = stack[i]
             /\ stack[i].dir = Parent(f) => /\ stack'[i].must = stack[i].must \ {Name(f)}
                                            /\ stack'[i].may = stack[i].may \cup {Name(f)}
  <2>1. stack'[i] = IF stack[i].dir = Parent(f)
                    THEN [stack[i] EXCEPT !.must = @ \ {Name(f)}, !.may = @ \cup {Name(f)}]
                    ELSE stack[i]
    BY DEF Noticed
  <2>2. Noticed(f)[i] = stack'[i]
    OBVIOUS
  <2>3. CASE stack[i].dir = Parent(f)
    <3>1. stack[i] = [dir |-> stack[i].dir, must |-> stack[i].must, may |-> stack[i].may]
          /\ stack[i].dir \in Dirs /\ stack[i].must \subseteq Segs /\ stack[i].may \subseteq Segs
      BY <1>1 DEF Frame
    <3>2. stack'[i] = [dir |-> stack[i].dir, must |-> stack[i].must \ {Name(f)},
                       may |-> stack[i].may \cup {Name(f)}]
      BY <2>1, <2>3, <3>1
    <3> QED BY <1>2, <2>2, <2>3, <3>1, <3>2 DEF Frame
  <2>4. CASE stack[i].dir # Parent(f)
    BY <1>1, <2>1, <2>2, <2>4
  <2> QED BY <2>3, <2>4
<1>4. stack' \in Seq(Frame) /\ Len(stack') = Len(stack)
  <2>1. stack' = [i \in 1..Len(stack) |-> Noticed(f)[i]]
    BY DEF Noticed
  <2>2. Len(stack) \in Nat /\ \A i \in 1..Len(stack) : Noticed(f)[i] \in Frame
    BY <1>3, FrameTypes
  <2> QED BY <2>1, <2>2
<1>5. stack' = <<>> <=> stack = <<>>
  BY <1>4 DEF TypeOK
<1> QED BY <1>3, <1>4, <1>5

LEMMA StepTypes == IInv /\ [Next]_vars => TypeOK' /\ OnlyFailuresLeak'
<1> SUFFICES ASSUME IInv, [Next]_vars PROVE TypeOK' /\ OnlyFailuresLeak'
  OBVIOUS
<1> USE DEF history, world
<1>0. TypeOK /\ OnlyFailuresLeak /\ (pc \in {"read", "stat", "send"} => stack # <<>>)
      /\ (pc \in {"idle", "end", "done", "failed"} => stack = <<>>)
      /\ (pc = "open" => path \in Dirs) /\ (pc = "send" => path \in Files)
  BY DEF IInv, StackInv
<1>1. CASE Start
  BY <1>0, <1>1, ListingAssumption DEF Start, TypeOK, OnlyFailuresLeak, Pcs, Troubles
<1>F. ASSUME NEW why \in SUBSET Troubles, Fail(why) PROVE TypeOK' /\ OnlyFailuresLeak'
  BY <1>0, <1>F, FrameTypes DEF Fail, TypeOK, OnlyFailuresLeak, Pcs
<1>2. CASE Opendir
  <2>1. stack' \in Seq(Frame) /\ Len(stack') = Len(stack) + 1
    BY <1>0, <1>2, Pushed DEF Opendir
  <2>2. opened' = opened + 1 /\ opened' \in 0..MaxOpen
    BY <1>0, <1>2, ListingAssumption DEF Opendir, TypeOK
  <2> QED BY <1>0, <1>2, <2>1, <2>2, FrameTypes DEF Opendir, TypeOK, OnlyFailuresLeak, Pcs
<1>3. CASE OpendirFails
  BY <1>3, <1>F DEF OpendirFails, Troubles
<1>4. CASE Readdir
  <2>1. PICK s \in Top.must \cup Top.may :
           path' = Append(Top.dir, s) /\ stack' = [stack EXCEPT ![Len(stack)] = Taken(s)]
    BY <1>4 DEF Readdir
  <2>2. stack' \in Seq(Frame) /\ Len(stack') = Len(stack) /\ stack # <<>>
    BY <1>0, <1>4, <2>1, ReadOne DEF Readdir
  <2>3. path' \in Seq(Segs)
    BY <1>0, <2>1, <2>2, FrameTypes DEF Top
  <2> QED BY <1>0, <1>4, <2>2, <2>3 DEF Readdir, TypeOK, OnlyFailuresLeak, Pcs
<1>5. CASE Closedir \/ ReaddirFails
  <2>1. /\ pc = "read" /\ Leave /\ opened' = opened - 1
        /\ UNCHANGED <<path, sent, listings, world, lost>>
        /\ trouble' \in {trouble, trouble \cup {"cut"}}
    BY <1>5 DEF Closedir, ReaddirFails
  <2>2. stack' \in Seq(Frame) /\ Len(stack') = Len(stack) - 1 /\ pc' \in Pcs
    BY <1>0, <2>1, Popped DEF Pcs
  <2>3. Len(stack) >= 1 /\ Len(stack) \in Nat
    BY <1>0, <2>1, FrameTypes
  <2>4. opened' \in 0..MaxOpen
    BY <1>0, <2>1, <2>3, ListingAssumption DEF TypeOK, OnlyFailuresLeak
  <2> QED BY <1>0, <2>1, <2>2, <2>3, <2>4 DEF TypeOK, OnlyFailuresLeak, Troubles
<1>6. CASE Stat
  BY <1>0, <1>6 DEF Stat, TypeOK, OnlyFailuresLeak, Pcs
<1>7. CASE StatFails
  BY <1>7, <1>F DEF StatFails
<1>8. CASE Send
  <2>1. sent' \in [Files -> Nat]
    BY <1>0, <1>8 DEF Send, TypeOK
  <2> QED BY <1>0, <1>8, <2>1 DEF Send, TypeOK, OnlyFailuresLeak, Pcs
<1>9. CASE SendFails
  BY <1>9, <1>F DEF SendFails, Troubles
<1>10. CASE SendEnd
  BY <1>0, <1>10 DEF SendEnd, TypeOK, OnlyFailuresLeak, Pcs
<1>11. ASSUME NEW f \in Files, Remove(f) PROVE TypeOK' /\ OnlyFailuresLeak'
  <2>1. stack' \in Seq(Frame) /\ Len(stack') = Len(stack)
    BY <1>0, <1>11, NoticedOf DEF Remove
  <2> QED BY <1>0, <1>11, <2>1, ListingAssumption DEF Remove, TypeOK, OnlyFailuresLeak, Troubles
<1>12. ASSUME NEW f \in Files, Create(f) PROVE TypeOK' /\ OnlyFailuresLeak'
  <2>1. stack' \in Seq(Frame) /\ Len(stack') = Len(stack)
    BY <1>0, <1>12, NoticedOf DEF Create
  <2> QED BY <1>0, <1>12, <2>1, ListingAssumption DEF Create, TypeOK, OnlyFailuresLeak
<1>13. CASE UNCHANGED vars
  BY <1>0, <1>13 DEF vars, TypeOK, OnlyFailuresLeak
<1> QED BY <1>1, <1>2, <1>3, <1>4, <1>5, <1>6, <1>7, <1>8, <1>9, <1>10, <1>11, <1>12, <1>13
        DEF Next, Walk

-----------------------------------------------------------------------------
(* Where the calls are.                                                    *)

\* A step that keeps the directories on the stack and adds to no must.
LEMMA SameCalls ==
  ASSUME TypeOK, StackInv, Len(stack') = Len(stack), stack' = <<>> <=> stack = <<>>,
         \A i \in 1..Len(stack) : /\ stack'[i].dir = stack[i].dir
                                  /\ stack'[i].must \subseteq stack[i].must,
         UNCHANGED <<pc, path>>
  PROVE  StackInv'
<1>1. Len(stack) \in Nat
  BY FrameTypes
<1>2. ASSUME NEW j \in 1..Len(stack')
      PROVE  /\ Len(stack'[j].dir) = j - 1
             /\ \A i \in 1 .. j - 1 : /\ Upto(stack'[j].dir, i - 1) = stack'[i].dir
                                      /\ stack'[j].dir[i] \notin stack'[i].must
  <2>1. j \in 1..Len(stack)
    OBVIOUS
  <2>2. stack'[j].dir = stack[j].dir /\ Len(stack[j].dir) = j - 1
    BY <2>1 DEF StackInv
  <2>3. ASSUME NEW i \in 1 .. j - 1
        PROVE  Upto(stack'[j].dir, i - 1) = stack'[i].dir /\ stack'[j].dir[i] \notin stack'[i].must
    <3>1. i \in 1..Len(stack)
      BY <1>1, <2>1
    <3>2. Upto(stack[j].dir, i - 1) = stack[i].dir /\ stack[j].dir[i] \notin stack[i].must
      BY <2>1 DEF StackInv
    <3> QED BY <2>2, <3>1, <3>2
  <2> QED BY <2>2, <2>3
<1>3. InHand /\ stack # <<>> =>
         /\ Len(path) = Len(stack)
         /\ \A i \in 1..Len(stack') : /\ Upto(path, i - 1) = stack'[i].dir
                                      /\ path[i] \notin stack'[i].must
  BY DEF StackInv
<1> QED BY <1>2, <1>3 DEF StackInv, InHand

LEMMA StackSafe == IInv /\ [Next]_vars => StackInv'
<1> SUFFICES ASSUME IInv, [Next]_vars PROVE StackInv'
  OBVIOUS
<1> USE DEF history, world
<1>0. TypeOK /\ StackInv
  BY DEF IInv
<1>E. ASSUME stack' = <<>>, pc' \in {"idle", "end", "done", "failed"} PROVE StackInv'
  <2>1. Len(stack') = 0 /\ 1..0 = {}
    BY <1>E
  <2> QED BY <1>E, <2>1 DEF StackInv, InHand
<1>1. CASE Start
  <2>1. stack' = <<>> /\ pc' = "open" /\ path' = <<>> /\ Len(stack') = 0 /\ 1..0 = {}
    BY <1>0, <1>1 DEF Start, StackInv
  <2> QED BY <2>1, ListingAssumption DEF StackInv, InHand
<1>F. ASSUME NEW why, Fail(why) PROVE StackInv'
  BY <1>E, <1>F DEF Fail
<1>2. CASE Opendir
  <2> DEFINE n == Len(stack)
  <2>1. /\ n \in Nat /\ Len(stack') = n + 1 /\ stack' # <<>>
        /\ \A i \in 1..n : stack'[i] = stack[i]
        /\ stack'[n + 1].dir = path
    <3>1. path \in Dirs
      BY <1>0, <1>2 DEF Opendir, StackInv
    <3>2. stack' = Append(stack, [dir |-> path, must |-> Children(path), may |-> {}])
      BY <1>2 DEF Opendir
    <3>3. stack'[n + 1] = [dir |-> path, must |-> Children(path), may |-> {}]
      BY <1>0, <3>1, <3>2, Pushed
    <3> QED BY <1>0, <3>1, <3>2, <3>3, FrameTypes, Pushed
  <2>2. /\ Len(path) = n
        /\ \A i \in 1..n : Upto(path, i - 1) = stack[i].dir /\ path[i] \notin stack[i].must
    <3>1. CASE stack = <<>>
      BY <1>0, <1>2, <3>1 DEF Opendir, StackInv
    <3>2. CASE stack # <<>>
      BY <1>0, <1>2, <3>2 DEF Opendir, StackInv, InHand
    <3> QED BY <3>1, <3>2
  <2>3. ASSUME NEW j \in 1..n + 1
        PROVE  /\ Len(stack'[j].dir) = j - 1
               /\ \A i \in 1 .. j - 1 : /\ Upto(stack'[j].dir, i - 1) = stack'[i].dir
                                        /\ stack'[j].dir[i] \notin stack'[i].must
    <3>1. CASE j = n + 1
      <4>1. j - 1 = n
        BY <2>1, <3>1
      <4> QED BY <2>1, <2>2, <3>1, <4>1
    <3>2. CASE j # n + 1
      <4>1. j \in 1..n /\ \A i \in 1 .. j - 1 : i \in 1..n
        BY <2>1, <3>2
      <4> QED BY <1>0, <2>1, <4>1 DEF StackInv
    <3> QED BY <3>1, <3>2
  <2>4. pc' = "read"
    BY <1>2 DEF Opendir
  <2> QED BY <2>1, <2>3, <2>4 DEF StackInv, InHand
<1>3. CASE OpendirFails
  BY <1>3, <1>F DEF OpendirFails
<1>4. CASE Readdir
  <2> DEFINE n == Len(stack)
  <2>1. PICK s \in Top.must \cup Top.may :
           path' = Append(Top.dir, s) /\ stack' = [stack EXCEPT ![Len(stack)] = Taken(s)]
    BY <1>4 DEF Readdir
  <2>2. stack # <<>> /\ pc' = "stat" /\ n \in Nat /\ n >= 1 /\ n \in 1..n
    BY <1>0, <1>4, FrameTypes DEF Readdir, StackInv
  <2>3. /\ Len(stack') = n /\ stack' # <<>>
        /\ \A i \in 1..n : stack'[i].dir = stack[i].dir
        /\ \A i \in 1 .. n - 1 : stack'[i] = stack[i]
        /\ stack'[n].must = stack[n].must \ {s}
    BY <1>0, <2>1, <2>2, ReadOne
  <2>4. s \in Segs /\ Top.dir \in Seq(Segs) /\ Len(Top.dir) = n - 1 /\ Top.dir = stack[n].dir
    BY <1>0, <2>1, <2>2, FrameTypes DEF Top, StackInv
  <2>5. /\ Len(path') = n /\ path'[n] = s
        /\ \A i \in 1 .. n - 1 : path'[i] = Top.dir[i]
        /\ \A i \in 0 .. n - 1 : Upto(path', i) = Upto(Top.dir, i)
        /\ Upto(path', n - 1) = Top.dir
    <3>1. Len(Top.dir) + 1 = n
      BY <2>2, <2>4
    <3>2. LET p == Append(Top.dir, s)
          IN  /\ Len(p) = Len(Top.dir) + 1 /\ p[Len(Top.dir) + 1] = s
              /\ \A i \in 1..Len(Top.dir) : p[i] = Top.dir[i]
              /\ \A i \in 0..Len(Top.dir) : Upto(p, i) = Upto(Top.dir, i)
              /\ Upto(p, Len(Top.dir)) = Top.dir
      BY <2>4, AppendUpto
    <3> QED BY <2>1, <2>4, <3>1, <3>2
  <2>6. \A i \in 1..n : stack'[i].must \subseteq stack[i].must
    <3>1. \A i \in 1..n : i = n \/ i \in 1 .. n - 1
      BY <2>2
    <3> QED BY <2>3, <3>1
  <2>7. ASSUME NEW j \in 1..n
        PROVE  /\ Len(stack'[j].dir) = j - 1
               /\ \A i \in 1 .. j - 1 : /\ Upto(stack'[j].dir, i - 1) = stack'[i].dir
                                        /\ stack'[j].dir[i] \notin stack'[i].must
    <3>1. Len(stack'[j].dir) = j - 1 /\ stack'[j].dir = stack[j].dir
      BY <1>0, <2>3 DEF StackInv
    <3>2. ASSUME NEW i \in 1 .. j - 1
          PROVE  Upto(stack'[j].dir, i - 1) = stack'[i].dir /\ stack'[j].dir[i] \notin stack'[i].must
      <4>1. i \in 1..n
        BY <2>2
      <4>2. Upto(stack[j].dir, i - 1) = stack[i].dir /\ stack[j].dir[i] \notin stack[i].must
        BY <1>0 DEF StackInv
      <4> QED BY <2>3, <2>6, <3>1, <4>1, <4>2
    <3> QED BY <3>1, <3>2
  <2>8. ASSUME NEW i \in 1..n
        PROVE  Upto(path', i - 1) = stack'[i].dir /\ path'[i] \notin stack'[i].must
    <3>1. CASE i = n
      BY <2>3, <2>4, <2>5, <3>1
    <3>2. CASE i # n
      <4>1. i \in 1 .. n - 1 /\ i - 1 \in 0 .. n - 1
        BY <2>2, <3>2
      <4>2. Upto(Top.dir, i - 1) = stack[i].dir /\ Top.dir[i] \notin stack[i].must
        BY <1>0, <2>2, <2>4, <4>1 DEF StackInv
      <4> QED BY <2>3, <2>5, <4>1, <4>2
    <3> QED BY <3>1, <3>2
  <2> QED BY <2>2, <2>3, <2>5, <2>7, <2>8 DEF StackInv, InHand
<1>5. CASE Closedir \/ ReaddirFails
  <2> DEFINE n == Len(stack)
  <2>1. stack # <<>> /\ Leave /\ n \in Nat /\ n >= 1
    BY <1>0, <1>5, FrameTypes DEF Closedir, ReaddirFails, StackInv
  <2>2. /\ Len(stack') = n - 1
        /\ \A i \in 1 .. n - 1 : stack'[i] = stack[i]
        /\ pc' = IF stack' = <<>> THEN "end" ELSE "read"
    BY <1>0, <2>1, Popped
  <2>3. ASSUME NEW j \in 1 .. n - 1
        PROVE  /\ Len(stack'[j].dir) = j - 1
               /\ \A i \in 1 .. j - 1 : /\ Upto(stack'[j].dir, i - 1) = stack'[i].dir
                                        /\ stack'[j].dir[i] \notin stack'[i].must
    <3>1. j \in 1..n /\ \A i \in 1 .. j - 1 : i \in 1 .. n - 1
      BY <2>1
    <3> QED BY <1>0, <2>2, <3>1 DEF StackInv
  <2> QED BY <2>2, <2>3 DEF StackInv, InHand
<1>6. CASE Stat
  <2>1. /\ UNCHANGED <<path, stack>> /\ stack # <<>> /\ InHand
        /\ \/ pc' = "open" /\ path \in Dirs
           \/ pc' = "send" /\ path \in Files
    <3>1. present \subseteq Files /\ stack # <<>>
      BY <1>0, <1>6 DEF Stat, TypeOK, StackInv
    <3> QED BY <1>6, <3>1 DEF Stat, InHand
  <2> QED BY <1>0, <2>1 DEF StackInv, InHand
<1>7. CASE StatFails
  BY <1>7, <1>F DEF StatFails
<1>8. CASE Send
  <2>1. UNCHANGED <<path, stack>> /\ stack # <<>> /\ pc' = "read"
    BY <1>0, <1>8 DEF Send, StackInv
  <2> QED BY <1>0, <2>1 DEF StackInv, InHand
<1>9. CASE SendFails
  BY <1>9, <1>F DEF SendFails
<1>10. CASE SendEnd
  BY <1>0, <1>10, <1>E DEF SendEnd, StackInv
<1>11. ASSUME NEW f \in Files, Remove(f) \/ Create(f) PROVE StackInv'
  <2>1. stack' = Noticed(f) /\ UNCHANGED <<pc, path>>
    BY <1>11 DEF Remove, Create
  <2>2. \A i \in 1..Len(stack) : stack'[i].must \subseteq stack[i].must
    BY <1>0, <2>1, NoticedOf
  <2> QED BY <1>0, <2>1, <2>2, NoticedOf, SameCalls
<1>12. CASE UNCHANGED vars
  BY <1>0, <1>12 DEF vars, StackInv, InHand
<1> QED BY <1>1, <1>2, <1>3, <1>4, <1>5, <1>6, <1>7, <1>8, <1>9, <1>10, <1>11, <1>12
        DEF Next, Walk

-----------------------------------------------------------------------------
(* What readdir() may return, and what stat() may not find.                *)

\* A step that brings nothing new to the directories that are being read.
LEMMA NothingNew ==
  ASSUME TypeOK, MayInv, ThereInv,
         \A i \in 1..Len(stack') :
            /\ i \in 1..Len(stack) /\ stack'[i].dir = stack[i].dir
            /\ stack'[i].must \subseteq stack[i].must /\ stack'[i].may \subseteq stack[i].may,
         UNCHANGED <<present, steady>>, trouble \subseteq trouble',
         pc' = "stat" => There(path'),
         pc' = "failed" => pc = "failed" \/ trouble' \cap {"removed", "full", "fault"} # {}
  PROVE  MayInv' /\ ThereInv'
<1>1. MayInv'
  BY DEF MayInv
<1>2. \A p : There(p) => There(p)'
  BY DEF There
<1>3. \A i \in 1..Len(stack') : \A s \in stack'[i].must \cup stack'[i].may :
         There(Append(stack'[i].dir, s))
  BY DEF ThereInv
<1>4. FailsForReason'
  BY DEF ThereInv, FailsForReason
<1> QED BY <1>1, <1>2, <1>3, <1>4 DEF ThereInv, There

LEMMA MaySafe == IInv /\ [Next]_vars => MayInv' /\ ThereInv'
<1> SUFFICES ASSUME IInv, [Next]_vars PROVE MayInv' /\ ThereInv'
  OBVIOUS
<1> USE DEF history, world
<1>0. /\ TypeOK /\ StackInv /\ MayInv /\ ThereInv
      /\ pc \in {"read", "stat", "send"} => stack # <<>>
      /\ pc \in {"idle", "end", "done", "failed"} => stack = <<>>
  BY DEF IInv, StackInv
<1>E. ASSUME stack' = <<>>, pc' # "stat", FailsForReason' PROVE MayInv' /\ ThereInv'
  <2>1. Len(stack') = 0 /\ 1..0 = {}
    BY <1>E
  <2> QED BY <1>E, <2>1 DEF MayInv, ThereInv
<1>1. CASE Start
  BY <1>0, <1>1, <1>E DEF Start, FailsForReason
<1>2. CASE Opendir
  <2> DEFINE n == Len(stack)
  <2>1. path \in Dirs /\ pc' = "read" /\ UNCHANGED <<present, steady, trouble>>
    BY <1>0, <1>2 DEF Opendir, StackInv
  <2>2. stack' = Append(stack, [dir |-> path, must |-> Children(path), may |-> {}])
    BY <1>2 DEF Opendir
  <2>3. /\ Len(stack') = n + 1 /\ \A i \in 1..n : stack'[i] = stack[i]
        /\ stack'[n + 1] = [dir |-> path, must |-> Children(path), may |-> {}]
        /\ n \in Nat
    BY <1>0, <2>1, <2>2, Pushed, FrameTypes
  <2>4. \A i \in 1..Len(stack') : i \in 1..n \/ i = n + 1
    BY <2>3
  <2>5. MayInv'
    BY <1>0, <2>1, <2>3, <2>4 DEF MayInv
  <2>6. \A s \in Children(path) : There(Append(path, s))
    BY DEF Children, There
  <2>7. \A i \in 1..Len(stack') : \A s \in stack'[i].must \cup stack'[i].may :
           There(Append(stack'[i].dir, s))
    BY <1>0, <2>3, <2>4, <2>6 DEF ThereInv
  <2> QED BY <2>1, <2>5, <2>7 DEF ThereInv, There, FailsForReason
<1>3. CASE OpendirFails \/ SendFails
  BY <1>3, <1>E DEF OpendirFails, SendFails, Fail, FailsForReason
<1>4. CASE Readdir
  <2>1. PICK s \in Top.must \cup Top.may :
           path' = Append(Top.dir, s) /\ stack' = [stack EXCEPT ![Len(stack)] = Taken(s)]
    BY <1>4 DEF Readdir
  <2>2. stack # <<>> /\ Len(stack) \in 1..Len(stack) /\ Len(stack) \in Nat
    BY <1>0, <1>4, FrameTypes DEF Readdir
  <2>3. ASSUME NEW i \in 1..Len(stack')
        PROVE  /\ i \in 1..Len(stack) /\ stack'[i].dir = stack[i].dir
               /\ stack'[i].must \subseteq stack[i].must /\ stack'[i].may \subseteq stack[i].may
    <3>1. i \in 1 .. Len(stack) - 1 \/ i = Len(stack)
      BY <1>0, <2>1, <2>2, ReadOne
    <3> QED BY <1>0, <2>1, <2>2, <3>1, ReadOne
  <2>4. There(path')
    BY <1>0, <2>1, <2>2 DEF ThereInv, Top
  <2>5. UNCHANGED <<present, steady, trouble>> /\ pc' = "stat"
    BY <1>4 DEF Readdir
  <2> QED BY <1>0, <2>3, <2>4, <2>5, NothingNew
<1>5. CASE Closedir \/ ReaddirFails
  <2>1. /\ stack # <<>> /\ Leave /\ UNCHANGED <<present, steady>> /\ trouble \subseteq trouble'
        /\ Len(stack) \in Nat
    BY <1>0, <1>5, FrameTypes DEF Closedir, ReaddirFails
  <2>2. /\ \A i \in 1..Len(stack') : i \in 1..Len(stack) /\ stack'[i] = stack[i]
        /\ pc' \in {"end", "read"}
    BY <1>0, <2>1, Popped
  <2> QED BY <1>0, <2>1, <2>2, NothingNew
<1>6. CASE Stat \/ Send \/ SendEnd
  <2>1. UNCHANGED <<stack, present, steady, trouble>> /\ pc' \notin {"stat", "failed"}
    BY <1>6 DEF Stat, Send, SendEnd
  <2> QED BY <1>0, <2>1, NothingNew
<1>7. CASE StatFails
  <2>1. "removed" \in trouble
    BY <1>0, <1>7 DEF StatFails, ThereInv, There
  <2> QED BY <1>7, <2>1, <1>E DEF StatFails, Fail, FailsForReason
<1>8. ASSUME NEW f \in Files, Remove(f) PROVE MayInv' /\ ThereInv'
  <2>1. /\ stack' = Noticed(f) /\ UNCHANGED pc /\ steady' = steady \ {f}
        /\ "removed" \in trouble'
    BY <1>8 DEF Remove
  <2>2. ThereInv'
    BY <2>1 DEF ThereInv, There, FailsForReason
  <2>3. ASSUME NEW i \in 1..Len(stack'), NEW s \in stack'[i].may
        PROVE  Append(stack'[i].dir, s) \in Files \ steady'
    <3>1. i \in 1..Len(stack) /\ stack'[i].dir = stack[i].dir
      BY <1>0, <2>1, NoticedOf
    <3>2. CASE s \in stack[i].may
      BY <1>0, <2>1, <3>1, <3>2 DEF MayInv
    <3>3. CASE s \notin stack[i].may
      <4>1. stack[i].dir = Parent(f) /\ s = Name(f)
        BY <1>0, <2>1, <3>1, <3>3, NoticedOf
      <4> QED BY <2>1, <3>1, <4>1, ParentOf
    <3> QED BY <3>2, <3>3
  <2> QED BY <2>2, <2>3 DEF MayInv
<1>9. ASSUME NEW f \in Files, Create(f) PROVE MayInv' /\ ThereInv'
  <2>1. /\ stack' = Noticed(f) /\ UNCHANGED <<pc, path, steady, trouble>>
        /\ present' = present \cup {f} /\ f \notin steady
    BY <1>0, <1>9 DEF Create, TypeOK
  <2>2. ASSUME NEW i \in 1..Len(stack'), NEW s \in stack'[i].must \cup stack'[i].may
        PROVE  /\ s \in stack'[i].may => Append(stack'[i].dir, s) \in Files \ steady
               /\ \/ Append(stack'[i].dir, s) \in Dirs \cup present'
                  \/ "removed" \in trouble'
    <3>1. i \in 1..Len(stack) /\ stack'[i].dir = stack[i].dir
      BY <1>0, <2>1, NoticedOf
    <3>2. CASE Append(stack[i].dir, s) = f
      BY <2>1, <3>1, <3>2 DEF There
    <3>3. CASE Append(stack[i].dir, s) # f
      <4>1. stack[i].dir # Parent(f) \/ s # Name(f)
        BY <3>3, ParentOf
      <4>2. /\ s \in stack'[i].may => s \in stack[i].may
            /\ s \in stack'[i].must => s \in stack[i].must
        BY <1>0, <2>1, <3>1, <4>1, NoticedOf
      <4> QED BY <1>0, <2>1, <3>1, <4>2 DEF MayInv, ThereInv, There
    <3> QED BY <3>2, <3>3
  <2>3. MayInv'
    BY <2>1, <2>2 DEF MayInv
  <2>4. (pc = "stat" => There(path)') /\ FailsForReason'
    BY <1>0, <2>1 DEF ThereInv, There, FailsForReason
  <2> QED BY <2>1, <2>2, <2>3, <2>4 DEF ThereInv, There
<1>10. CASE UNCHANGED vars
  BY <1>0, <1>10 DEF vars, MayInv, ThereInv, There, FailsForReason
<1> QED BY <1>1, <1>2, <1>3, <1>4, <1>5, <1>6, <1>7, <1>8, <1>9, <1>10 DEF Next, Walk

-----------------------------------------------------------------------------
(* The accounts.                                                           *)

LEMMA SteadyTypes ==
  ASSUME TypeOK, NEW f \in steady
  PROVE  /\ f \in Files /\ f \in present /\ f \in Seq(Segs) /\ Len(f) \in Nat /\ Len(f) >= 1
         /\ \A n \in 1..Len(f) : Upto(f, n) = Append(Upto(f, n - 1), f[n]) /\ f[n] \in Segs
         /\ \A n \in 0..Len(f) : Upto(f, n) \in Dirs => n < Len(f)
<1>1. f \in Files /\ f \in present
  BY DEF TypeOK
<1>2. f \in Seq(Segs) /\ Len(f) >= 1 /\ Len(f) \in Nat
  BY <1>1, AboveFile
<1>3. \A n \in 1..Len(f) : Upto(f, n) = Append(Upto(f, n - 1), f[n]) /\ f[n] \in Segs
  BY <1>2, UptoNext
<1>4. ASSUME NEW n \in 0..Len(f), Upto(f, n) \in Dirs PROVE n < Len(f)
  <2>1. n = Len(f) => Upto(f, n) = f
    BY <1>2, UptoAll
  <2> QED BY <1>1, <1>2, <1>4, <2>1, ListingAssumption
<1> QED BY <1>1, <1>2, <1>3, <1>4

LEMMA OpendirAccounts ==
  ASSUME IInv, Accounted, Opendir
  PROVE  Accounted'
<1> DEFINE n == Len(stack)
<1>0. /\ TypeOK /\ StackInv /\ path \in Dirs /\ pc = "open" /\ pc' = "read" /\ InHand /\ ~InHand'
      /\ UNCHANGED <<sent, steady, path, present>>
  BY DEF IInv, Opendir, StackInv, InHand, world
<1>1. stack' = Append(stack, [dir |-> path, must |-> Children(path), may |-> {}])
  BY DEF Opendir
<1>2. /\ Len(stack') = n + 1 /\ stack' # <<>> /\ n \in Nat
      /\ \A i \in 1..n : stack'[i] = stack[i]
      /\ stack'[n + 1].dir = path /\ stack'[n + 1].must = Children(path)
  <2>1. stack'[n + 1] = [dir |-> path, must |-> Children(path), may |-> {}]
    BY <1>0, <1>1, Pushed
  <2> QED BY <1>0, <1>1, <2>1, Pushed, FrameTypes
<1>3. SUFFICES ASSUME NEW f \in steady, NEW i \in 1 .. n + 1, Within(f, i)'
               PROVE  AccountedIn(f, i)'
  BY <1>0, <1>2 DEF Accounted
<1>4. CASE i = n + 1
  <2>1. n + 1 <= Len(f) /\ Upto(f, n) = path
    BY <1>0, <1>2, <1>3, <1>4 DEF Within
  <2>2. Append(path, f[n + 1]) = Upto(f, n + 1) /\ f[n + 1] \in Segs
    <3>1. n + 1 \in 1..Len(f) /\ (n + 1) - 1 = n
      BY <1>0, <1>2, <2>1, SteadyTypes
    <3> QED BY <1>0, <2>1, <3>1, SteadyTypes
  <2>3. Upto(f, n + 1) \in Dirs \cup present
    <3>1. CASE n + 1 = Len(f)
      BY <1>0, <3>1, SteadyTypes, UptoAll
    <3>2. CASE n + 1 # Len(f)
      <4>1. n + 1 \in 0 .. Len(f) - 1
        BY <1>0, <1>2, <2>1, <3>2, SteadyTypes
      <4> QED BY <1>0, <4>1, SteadyTypes, AboveFile
    <3> QED BY <3>1, <3>2
  <2>4. f[n + 1] \in Children(path)
    BY <2>2, <2>3 DEF Children
  <2>5. sent[f] = 0
    <3>1. CASE n = 0
      BY <1>0, <3>1, FrameTypes DEF Accounted
    <3>2. CASE n # 0
      <4>1. n \in 1..n /\ n - 1 \in 0..n /\ n \in 0..Len(f) /\ stack # <<>> /\ n <= Len(f)
        BY <1>0, <1>2, <2>1, <3>2, SteadyTypes
      <4>2. Upto(path, n - 1) = stack[n].dir
        BY <1>0, <4>1 DEF StackInv
      <4>3. Upto(path, n - 1) = Upto(f, n - 1)
        BY <1>0, <2>1, <4>1, SteadyTypes, UptoUpto
      <4>4. AccountedIn(f, n)
        BY <4>1, <4>2, <4>3 DEF Accounted, Within
      <4> QED BY <1>0, <1>2, <2>1, <4>4 DEF AccountedIn
    <3> QED BY <3>1, <3>2
  <2> QED BY <1>0, <1>2, <1>4, <2>4, <2>5 DEF AccountedIn
<1>5. CASE i # n + 1
  <2>1. i \in 1..n /\ stack'[i] = stack[i]
    BY <1>2, <1>5
  <2>2. AccountedIn(f, i)
    BY <1>0, <1>3, <2>1 DEF Accounted, Within
  <2>3. CASE i = n
    BY <1>0, <1>2, <2>1, <2>2, <2>3 DEF AccountedIn
  <2>4. CASE i # n
    <3>1. i + 1 \in 1..n /\ i < n /\ i < n + 1
      BY <1>2, <2>1, <2>4
    <3>2. stack'[i + 1] = stack[i + 1]
      BY <1>2, <3>1
    <3> QED BY <1>0, <1>2, <2>1, <2>2, <3>1, <3>2 DEF AccountedIn
  <2> QED BY <2>3, <2>4
<1> QED BY <1>4, <1>5

LEMMA ReaddirAccounts ==
  ASSUME IInv, Accounted, Readdir
  PROVE  Accounted'
<1> DEFINE n == Len(stack)
<1>0. /\ TypeOK /\ StackInv /\ MayInv /\ stack # <<>> /\ pc = "read" /\ pc' = "stat"
      /\ UNCHANGED <<sent, steady>> /\ n \in Nat /\ n >= 1 /\ n \in 1..n /\ ~InHand /\ InHand'
  <2>1. TypeOK /\ StackInv /\ MayInv /\ stack # <<>> /\ pc = "read" /\ pc' = "stat"
        /\ UNCHANGED <<sent, steady>>
    BY DEF IInv, Readdir, StackInv, world
  <2> QED BY <2>1, FrameTypes DEF InHand
<1>1. PICK s \in Top.must \cup Top.may :
         path' = Append(Top.dir, s) /\ stack' = [stack EXCEPT ![Len(stack)] = Taken(s)]
  BY DEF Readdir
<1>2. /\ Len(stack') = n /\ stack' # <<>>
      /\ \A i \in 1..n : stack'[i].dir = stack[i].dir
      /\ \A i \in 1 .. n - 1 : stack'[i] = stack[i]
      /\ stack'[n].must = stack[n].must \ {s}
  BY <1>0, <1>1, ReadOne
<1>3. s \in Segs /\ stack[n].dir \in Seq(Segs) /\ path' = Append(stack[n].dir, s)
      /\ s \in stack[n].must \cup stack[n].may
  BY <1>0, <1>1, FrameTypes DEF Top
<1>4. SUFFICES ASSUME NEW f \in steady, NEW i \in 1..n, Within(f, i) PROVE AccountedIn(f, i)'
  BY <1>0, <1>2 DEF Accounted, Within
<1>5. AccountedIn(f, i) /\ Within(f, i)
  BY <1>4 DEF Accounted
<1>6. CASE i = n
  <2>1. n \in 1..Len(f) /\ Upto(f, n) = Append(stack[n].dir, f[n]) /\ f[n] \in Segs
    <3>1. n \in 1..Len(f) /\ Upto(f, n - 1) = stack[n].dir
      BY <1>0, <1>4, <1>6, SteadyTypes DEF Within
    <3> QED BY <1>0, <3>1, SteadyTypes
  <2>2. path' = Upto(f, n) <=> f[n] = s
    BY <1>3, <2>1, AppendSame
  <2>3. f[n] \in stack[n].must => sent[f] = 0
    BY <1>5, <1>6 DEF AccountedIn
  <2>4. f[n] \notin stack[n].must => sent[f] = 1
    BY <1>0, <1>5, <1>6 DEF AccountedIn
  <2>5. CASE f[n] = s
    <3>1. s \in stack[n].must
      <4> SUFFICES ASSUME s \notin stack[n].must PROVE FALSE
        OBVIOUS
      <4>1. Upto(f, n) \in Files \ steady
        BY <1>0, <1>3, <2>1, <2>5 DEF MayInv
      <4>2. n \in 0..Len(f)
        BY <1>0, <2>1, SteadyTypes
      <4>3. Upto(f, n) = f
        BY <1>0, <4>1, <4>2, SteadyTypes, AboveFile
      <4> QED BY <4>1, <4>3
    <3> QED BY <1>0, <1>2, <1>6, <2>2, <2>3, <2>5, <3>1 DEF AccountedIn
  <2>6. CASE f[n] # s
    BY <1>0, <1>2, <1>6, <2>2, <2>3, <2>4, <2>6 DEF AccountedIn
  <2> QED BY <2>5, <2>6
<1>7. CASE i # n
  <2>1. i \in 1 .. n - 1 /\ i + 1 \in 1..n /\ i < n
    BY <1>0, <1>7
  <2>2. stack'[i] = stack[i] /\ stack'[i + 1].dir = stack[i + 1].dir
    BY <1>2, <2>1
  <2> QED BY <1>0, <1>2, <1>5, <2>1, <2>2 DEF AccountedIn
<1> QED BY <1>6, <1>7

LEMMA ClosedirAccounts ==
  ASSUME IInv, Accounted, Closedir
  PROVE  Accounted'
<1> DEFINE n == Len(stack)
<1>0. /\ TypeOK /\ StackInv /\ stack # <<>> /\ pc = "read" /\ Leave /\ Top.must = {}
      /\ UNCHANGED <<sent, steady>>
  BY DEF IInv, Closedir, StackInv, world
<1>1. n \in Nat /\ n >= 1 /\ n \in 1..n /\ ~InHand /\ stack[n].must = {}
  BY <1>0, FrameTypes DEF InHand, Top
<1>2. /\ Len(stack') = n - 1
      /\ \A i \in 1 .. n - 1 : stack'[i] = stack[i]
      /\ stack' = <<>> <=> n = 1
      /\ pc' = IF stack' = <<>> THEN "end" ELSE "read"
      /\ ~InHand'
  BY <1>0, Popped DEF InHand
<1>3. ASSUME NEW f \in steady, Within(f, n) PROVE sent[f] = 1
  <2>1. AccountedIn(f, n)
    BY <1>1, <1>3 DEF Accounted
  <2> QED BY <1>1, <2>1 DEF AccountedIn
<1>4. ASSUME NEW f \in steady, n = 1 PROVE sent[f] = 1
  <2>1. Len(stack[1].dir) = 0 /\ stack[1].dir \in Seq(Segs)
    BY <1>0, <1>1, <1>4, FrameTypes DEF StackInv
  <2>2. stack[1].dir = <<>>
    BY <2>1
  <2>3. Upto(f, 0) = <<>> /\ 1 <= Len(f)
    BY <1>0, SteadyTypes, UptoAll
  <2> QED BY <1>3, <1>4, <2>2, <2>3 DEF Within
<1>5. ASSUME NEW f \in steady, NEW i \in 1 .. n - 1, Within(f, i) PROVE AccountedIn(f, i)'
  <2>1. AccountedIn(f, i) /\ i \in 1..n /\ i < n /\ stack'[i] = stack[i]
    BY <1>1, <1>2, <1>5 DEF Accounted
  <2>2. CASE i < n - 1
    <3>1. i + 1 \in 1 .. n - 1
      BY <1>1, <2>2
    <3> QED BY <1>0, <1>2, <2>1, <2>2, <3>1 DEF AccountedIn
  <2>3. CASE i = n - 1
    <3>1. CASE f[i] \in stack[i].must
      BY <1>0, <2>1, <3>1 DEF AccountedIn
    <3>2. CASE f[i] \notin stack[i].must
      <4>1. i + 1 = n /\ (stack[n].dir = Upto(f, i) \/ sent[f] = 1)
        BY <1>1, <2>1, <2>3, <3>2 DEF AccountedIn
      <4>2. stack[n].dir = Upto(f, i) => sent[f] = 1
        <5> SUFFICES ASSUME stack[n].dir = Upto(f, i) PROVE sent[f] = 1
          OBVIOUS
        <5>1. Upto(f, i) \in Dirs /\ i \in 0..Len(f)
          BY <1>0, <1>1, <1>5, FrameTypes, SteadyTypes DEF Within
        <5>2. i < Len(f) /\ Len(f) \in Nat
          BY <1>0, <5>1, SteadyTypes
        <5>3. n <= Len(f) /\ n - 1 = i
          BY <1>1, <2>3, <5>2
        <5> QED BY <1>3, <5>3 DEF Within
      <4> QED BY <1>0, <1>1, <1>2, <2>1, <2>3, <3>2, <4>1, <4>2 DEF AccountedIn
    <3> QED BY <3>1, <3>2
  <2> QED BY <1>1, <2>2, <2>3
<1>6. ASSUME NEW f \in steady
      PROVE  /\ pc' \in {"end", "done"} => sent[f] = 1
             /\ \A i \in 1..Len(stack') : Within(f, i)' => AccountedIn(f, i)'
  <2>1. pc' \in {"end", "done"} => n = 1
    BY <1>2
  <2>2. ASSUME NEW i \in 1 .. n - 1, Within(f, i)' PROVE AccountedIn(f, i)'
    <3>1. Within(f, i)
      BY <1>2, <2>2 DEF Within
    <3> QED BY <1>5, <3>1
  <2> QED BY <1>2, <1>4, <2>1, <2>2
<1>7. pc' # "open"
  BY <1>2
<1> QED BY <1>0, <1>6, <1>7 DEF Accounted

LEMMA SendAccounts ==
  ASSUME IInv, Accounted, Send
  PROVE  Accounted'
<1> DEFINE n == Len(stack)
<1>0. /\ TypeOK /\ StackInv /\ stack # <<>> /\ pc = "send" /\ pc' = "read" /\ path \in Files
      /\ UNCHANGED <<stack, steady, path>> /\ sent' = [sent EXCEPT ![path] = @ + 1]
      /\ InHand /\ ~InHand'
  BY DEF IInv, Send, StackInv, InHand, world
<1>1. n \in Nat /\ n >= 1 /\ n \in 1..n /\ sent \in [Files -> Nat]
  BY <1>0, FrameTypes DEF TypeOK
<1>2. SUFFICES ASSUME NEW f \in steady, NEW i \in 1..n, Within(f, i) PROVE AccountedIn(f, i)'
  BY <1>0 DEF Accounted, Within
<1>3. AccountedIn(f, i)
  BY <1>2 DEF Accounted
<1>4. CASE f = path
  <2>1. Len(path) = n /\ f[i] \notin stack[i].must /\ Upto(path, n - 1) = stack[n].dir
    BY <1>0, <1>1, <1>4 DEF StackInv
  <2>2. Upto(f, n) = path
    BY <1>0, <1>4, <2>1, SteadyTypes, UptoAll
  <2>3. sent[f] = 0
    <3>0. path[n] \notin stack[n].must
      BY <1>0, <1>1 DEF StackInv
    <3>1. Within(f, n) /\ f[n] \notin stack[n].must
      BY <1>1, <1>4, <2>1, <3>0 DEF Within
    <3>2. AccountedIn(f, n)
      BY <1>1, <3>1 DEF Accounted
    <3> QED BY <1>0, <1>1, <2>2, <3>1, <3>2 DEF AccountedIn
  <2>4. sent'[f] = 1
    BY <1>0, <1>1, <1>4, <2>3
  <2> QED BY <1>0, <2>1, <2>4 DEF AccountedIn
<1>5. CASE f # path
  <2>1. sent'[f] = sent[f]
    BY <1>0, <1>1, <1>5, SteadyTypes
  <2>2. Upto(f, i) # path
    <3>1. i \in 0..Len(f)
      BY <1>0, <1>2, SteadyTypes DEF Within
    <3> QED BY <1>0, <1>5, <3>1, SteadyTypes, AboveFile
  <2> QED BY <1>0, <1>3, <2>1, <2>2 DEF AccountedIn
<1> QED BY <1>4, <1>5

LEMMA ChurnAccounts ==
  ASSUME IInv, Accounted, NEW g \in Files, Remove(g) \/ Create(g)
  PROVE  Accounted'
<1>0. /\ TypeOK /\ stack' = Noticed(g) /\ UNCHANGED <<pc, path, sent>>
      /\ steady' \subseteq steady /\ g \notin steady' /\ InHand' = InHand
  BY DEF IInv, Remove, Create, TypeOK, InHand
<1>1. /\ Len(stack') = Len(stack) /\ (stack' = <<>> <=> stack = <<>>)
      /\ \A i \in 1..Len(stack) : stack'[i].dir = stack[i].dir
      /\ Len(stack) \in Nat
  BY <1>0, NoticedOf, FrameTypes
<1>2. SUFFICES ASSUME NEW f \in steady', NEW i \in 1..Len(stack), Within(f, i)
               PROVE  AccountedIn(f, i)'
  BY <1>0, <1>1 DEF Accounted, Within
<1>3. AccountedIn(f, i) /\ f \in steady /\ f # g
  BY <1>0, <1>2 DEF Accounted
<1>4. f[i] \in stack'[i].must <=> f[i] \in stack[i].must
  <2>1. CASE stack[i].dir # Parent(g)
    BY <1>0, <2>1, NoticedOf
  <2>2. CASE stack[i].dir = Parent(g)
    <3>1. i \in 1..Len(f) /\ i \in 0..Len(f) /\ Upto(f, i - 1) = stack[i].dir
      BY <1>0, <1>2, <1>3, SteadyTypes DEF Within
    <3>2. Upto(f, i) = Append(Parent(g), f[i])
      BY <1>0, <1>3, <2>2, <3>1, SteadyTypes
    <3>3. f[i] # Name(g)
      <4> SUFFICES ASSUME f[i] = Name(g) PROVE FALSE
        OBVIOUS
      <4>1. Upto(f, i) = g
        BY <3>2, ParentOf
      <4> QED BY <1>0, <1>3, <3>1, <4>1, SteadyTypes, AboveFile
    <3>4. stack'[i].must = stack[i].must \ {Name(g)}
      BY <1>0, <2>2, NoticedOf
    <3> QED BY <3>3, <3>4
  <2> QED BY <2>1, <2>2
<1>5. CASE i < Len(stack)
  <2>1. i + 1 \in 1..Len(stack)
    BY <1>1, <1>5
  <2> QED BY <1>0, <1>1, <1>3, <1>4, <1>5, <2>1 DEF AccountedIn
<1>6. CASE ~(i < Len(stack))
  BY <1>0, <1>1, <1>3, <1>4, <1>6 DEF AccountedIn
<1> QED BY <1>5, <1>6

LEMMA AccountsKept == IInv /\ [Next]_vars => ("cut" \notin trouble' => Accounted')
<1> SUFFICES ASSUME IInv, [Next]_vars, "cut" \notin trouble' PROVE Accounted'
  OBVIOUS
<1> USE DEF history, world
<1>0. TypeOK /\ StackInv
  BY DEF IInv
<1>E. ASSUME stack' = <<>>, pc' \notin {"open", "end", "done"} PROVE Accounted'
  <2>1. Len(stack') = 0 /\ 1..0 = {}
    BY <1>E
  <2> QED BY <1>E, <2>1 DEF Accounted
<1>1. CASE Start
  <2>1. /\ stack' = <<>> /\ pc' = "open" /\ Len(stack') = 0 /\ 1..0 = {}
        /\ \A f \in steady' : sent'[f] = 0
    BY <1>0, <1>1 DEF Start, StackInv, TypeOK
  <2> QED BY <2>1 DEF Accounted
<1>2. CASE UNCHANGED vars
  BY <1>2 DEF IInv, vars, Accounted, Within, AccountedIn, InHand
<1>3. CASE ~Start /\ ~UNCHANGED vars
  <2>1. "cut" \notin trouble
    BY <1>3 DEF Next, Walk, Opendir, OpendirFails, Readdir, ReaddirFails, Stat, StatFails, Send,
       SendFails, Closedir, SendEnd, Fail, Remove, Create
  <2>2. Accounted
    BY <2>1 DEF IInv
  <2>3. CASE Opendir \/ Readdir \/ Closedir \/ Send
    BY <2>2, <2>3, OpendirAccounts, ReaddirAccounts, ClosedirAccounts, SendAccounts
  <2>4. CASE OpendirFails \/ StatFails \/ SendFails
    BY <2>4, <1>E DEF OpendirFails, StatFails, SendFails, Fail
  <2>5. CASE ReaddirFails
    BY <2>5 DEF ReaddirFails
  <2>6. CASE Stat
    <3>1. UNCHANGED <<path, stack, sent, steady>> /\ stack # <<>> /\ pc' \in {"open", "send"}
          /\ InHand /\ InHand'
      BY <1>0, <2>6 DEF Stat, StackInv, InHand
    <3> QED BY <2>2, <3>1 DEF Accounted, Within, AccountedIn
  <2>7. CASE SendEnd
    <3>1. UNCHANGED <<path, stack, sent, steady>> /\ stack = <<>> /\ pc = "end" /\ pc' = "done"
          /\ Len(stack) = 0 /\ 1..0 = {}
      BY <1>0, <2>7 DEF SendEnd, StackInv
    <3> QED BY <2>2, <3>1 DEF Accounted
  <2>8. CASE \E f \in Files : Remove(f) \/ Create(f)
    BY <2>2, <2>8, ChurnAccounts
  <2> QED BY <1>3, <2>3, <2>4, <2>5, <2>6, <2>7, <2>8 DEF Next, Walk
<1> QED BY <1>1, <1>2, <1>3

-----------------------------------------------------------------------------
(* The theorems.                                                           *)

LEMMA InitSafe == Init => IInv
<1> SUFFICES ASSUME Init PROVE IInv
  OBVIOUS
<1>1. Len(stack) = 0 /\ stack = <<>> /\ 1..0 = {}
  BY DEF Init
<1>2. TypeOK
  BY ListingAssumption DEF Init, TypeOK, Pcs
<1>3. StackInv /\ MayInv /\ ThereInv /\ OnlyFailuresLeak /\ Accounted
  BY <1>1 DEF Init, StackInv, MayInv, ThereInv, OnlyFailuresLeak, Accounted, InHand, FailsForReason
<1> QED BY <1>2, <1>3 DEF IInv

LEMMA AlwaysSafe == Spec => []IInv
<1>1. IInv /\ [Next]_vars => IInv'
  BY StepTypes, StackSafe, MaySafe, AccountsKept DEF IInv
<1> QED BY <1>1, InitSafe, PTL DEF Spec

\* The types, and the limit of open directories (opendir, closedir).
THEOREM ListingTypes == Spec => []TypeOK
<1>1. IInv => TypeOK
  BY DEF IInv
<1> QED BY <1>1, AlwaysSafe, PTL

\* In any tree, whatever files come and go: a listing that ends with its mark
\* names every file that stayed, once (the walk of DataDeal_fileListDeal).
THEOREM ListingComplete == Spec => []CompleteAtEnd
<1>1. IInv => CompleteAtEnd
  BY DEF IInv, Accounted, CompleteAtEnd
<1> QED BY <1>1, AlwaysSafe, PTL

\* A listing fails only for a removed file, a failed call or the limit.
THEOREM ListingFailsForReason == Spec => []FailsForReason
<1>1. IInv => FailsForReason
  BY DEF IInv, ThereInv
<1> QED BY <1>1, AlwaysSafe, PTL

\* Directories stay open only behind listings that failed.
THEOREM LeaksOnlyByFailure == Spec => []OnlyFailuresLeak
<1>1. IInv => OnlyFailuresLeak
  BY DEF IInv
<1> QED BY <1>1, AlwaysSafe, PTL
=============================================================================
