-------------------------- MODULE CreditLedgerProofs --------------------------
(***************************************************************************)
(* What the ledger file promises for every hierarchy, every set of         *)
(* requests and every interleaving of them with crashes and restarts:      *)
(* the numbers of its lines grow as long as the CLI keeps off a running    *)
(* service; an acknowledged line is never lost, a start never refused, the *)
(* balances in memory are those of the file and nobody's is below nothing, *)
(* as long as a torn line is never taken for a whole one; a payment        *)
(* answered as a duplicate was credited; and in a hierarchy with one admin *)
(* who alone creates, nobody's credits are left behind by a deletion.      *)
(***************************************************************************)
EXTENDS CreditLedger, SequenceTheorems, FiniteSetTheorems, WellFoundedInduction, TLAPS

\* A sequence, whatever its lines are made of.
IsFile(f) == f \in Seq({f[i] : i \in DOMAIN f})

LEMMA FileLength ==
  ASSUME NEW f, IsFile(f)
  PROVE  /\ Len(f) \in Nat
         /\ DOMAIN f = 1..Len(f)
         /\ f = <<>> <=> Len(f) = 0
<1>1. Len(f) \in Nat /\ DOMAIN f = 1..Len(f)
  BY LenProperties DEF IsFile
<1>2. f # <<>> => Len(f) # 0
  BY EmptySeq DEF IsFile
<1>3. Len(<<>>) = 0
  BY EmptySeq
<1> QED BY <1>1, <1>2, <1>3

LEMMA FileOfEntries ==
  ASSUME NEW S, NEW f \in Seq(S)
  PROVE  IsFile(f)
<1>1. f \in [1..Len(f) -> S] /\ Len(f) \in Nat /\ DOMAIN f = 1..Len(f)
  BY LenProperties
<1>2. f \in [1..Len(f) -> {f[i] : i \in DOMAIN f}]
  BY <1>1
<1>3. f \in UNION {[1..n -> {f[i] : i \in DOMAIN f}] : n \in Nat}
  BY <1>1, <1>2
<1> QED BY <1>3, SeqDef DEF IsFile

LEMMA AppendToFile ==
  ASSUME NEW f, IsFile(f), NEW l
  PROVE  /\ IsFile(Append(f, l))
         /\ Len(Append(f, l)) = Len(f) + 1
         /\ \A i \in 1..Len(f) : Append(f, l)[i] = f[i]
         /\ Append(f, l)[Len(f) + 1] = l
<1> DEFINE S == {f[i] : i \in DOMAIN f} \union {l}
<1>1. f \in Seq(S)
  BY SeqMonotonic DEF IsFile
<1>2. l \in S
  OBVIOUS
<1> HIDE DEF S
<1>3. /\ Append(f, l) \in Seq(S)
      /\ Len(Append(f, l)) = Len(f) + 1
      /\ \A i \in 1..Len(f) : Append(f, l)[i] = f[i]
      /\ Append(f, l)[Len(f) + 1] = l
  BY <1>1, <1>2, AppendProperties
<1>4. IsFile(Append(f, l))
  BY <1>3, FileOfEntries
<1> QED BY <1>3, <1>4

LEMMA FrontOfFile ==
  ASSUME NEW f, IsFile(f), f # <<>>
  PROVE  /\ IsFile(Front(f))
         /\ Len(Front(f)) = Len(f) - 1
         /\ \A i \in 1..(Len(f) - 1) : Front(f)[i] = f[i]
<1> DEFINE S == {f[i] : i \in DOMAIN f}
           n == Len(f) - 1
<1>1. Len(f) \in Nat \ {0} /\ DOMAIN f = 1..Len(f)
  BY FileLength
<1>2. n \in Int /\ \A i \in 1..n : f[i] \in S
  BY <1>1
<1>3. /\ SubSeq(f, 1, n) \in Seq(S)
      /\ Len(SubSeq(f, 1, n)) = IF 1 <= n THEN n - 1 + 1 ELSE 0
      /\ \A i \in 1..(n - 1 + 1) : SubSeq(f, 1, n)[i] = f[1 + i - 1]
  <2> HIDE DEF S, n
  <2> QED BY <1>2, SubSeqProperties
<1>4. IsFile(SubSeq(f, 1, n))
  BY <1>3, FileOfEntries
<1> QED BY <1>1, <1>3, <1>4 DEF Front

\* A line that is glued to an unfinished one makes one bad line of the two.
LEMMA GluedFile ==
  ASSUME NEW f, IsFile(f), NEW o \in BOOLEAN, o => f # <<>>, NEW l
  PROVE  LET g == GluedTo([lines |-> f, open |-> o], l)
         IN /\ IsFile(g)
            /\ o => /\ Len(g) = Len(f)
                    /\ \A i \in 1..(Len(f) - 1) : g[i] = f[i]
                    /\ g[Len(f)] = Garbage
            /\ ~o => /\ Len(g) = Len(f) + 1
                     /\ \A i \in 1..Len(f) : g[i] = f[i]
                     /\ g[Len(f) + 1] = l
<1>0. Len(f) \in Nat
  BY FileLength
<1>1. CASE o
  <2>1. GluedTo([lines |-> f, open |-> o], l) = Append(Front(f), Garbage)
    BY <1>1 DEF GluedTo
  <2>2. /\ IsFile(Front(f)) /\ Len(Front(f)) = Len(f) - 1
        /\ \A i \in 1..(Len(f) - 1) : Front(f)[i] = f[i]
    BY <1>1, FrontOfFile
  <2>3. /\ IsFile(Append(Front(f), Garbage))
        /\ Len(Append(Front(f), Garbage)) = Len(Front(f)) + 1
        /\ \A i \in 1..Len(Front(f)) : Append(Front(f), Garbage)[i] = Front(f)[i]
        /\ Append(Front(f), Garbage)[Len(Front(f)) + 1] = Garbage
    BY <2>2, AppendToFile
  <2>4. /\ IsFile(Append(Front(f), Garbage))
        /\ Len(Append(Front(f), Garbage)) = Len(f)
        /\ \A i \in 1..(Len(f) - 1) : Append(Front(f), Garbage)[i] = f[i]
        /\ Append(Front(f), Garbage)[Len(f)] = Garbage
    <3> HIDE DEF Garbage
    <3> QED BY <1>0, <2>2, <2>3
  <2> QED BY <1>1, <2>1, <2>4
<1>2. CASE ~o
  BY <1>2, AppendToFile DEF GluedTo
<1> QED BY <1>1, <1>2

\* What the boot scan keeps is a prefix of the file that lacks at most a bad
\* last line, and, when the scan does not refuse, has no bad line at all.
LEMMA DroppedTail ==
  ASSUME IsFile(file), open \in BOOLEAN, open => file # <<>>
  PROVE  /\ IsFile(DropTail.lines)
         /\ Len(DropTail.lines) \in {Len(file) - 1, Len(file)}
         /\ \A i \in 1..Len(DropTail.lines) : DropTail.lines[i] = file[i]
         /\ Len(DropTail.lines) # Len(file) => file[Len(file)] = Garbage
         /\ DropTail.open \in BOOLEAN
         /\ DropTail.open => DropTail.lines # <<>> /\ open
                             /\ file[Len(file)] # Garbage
         /\ Scans => \A i \in 1..Len(DropTail.lines) : DropTail.lines[i] # Garbage
<1>0. Len(file) \in Nat /\ (file = <<>> <=> Len(file) = 0)
  BY FileLength
<1>1. CASE TornTail
  <2>1. file # <<>> /\ file[Len(file)] = Garbage
    BY <1>1 DEF TornTail, Last
  <2>2. DropTail.lines = Front(file) /\ DropTail.open = FALSE
    BY <1>1 DEF DropTail
  <2>3. /\ IsFile(Front(file)) /\ Len(Front(file)) = Len(file) - 1
        /\ \A i \in 1..(Len(file) - 1) : Front(file)[i] = file[i]
    BY <2>1, FrontOfFile
  <2> QED BY <1>0, <2>1, <2>2, <2>3 DEF Scans
<1>2. CASE ~TornTail
  <2>1. DropTail.lines = file /\ DropTail.open = open
    BY <1>2 DEF DropTail
  <2>2. file = <<>> \/ file[Len(file)] # Garbage
    BY <1>2 DEF TornTail, Last
  <2>3. Scans => \A i \in 1..Len(file) : file[i] # Garbage
    BY <1>0, <2>2 DEF Scans
  <2> QED BY <1>0, <2>1, <2>2, <2>3
<1> QED BY <1>1, <1>2
-----------------------------------------------------------------------------
(* The shape of the file, and the numbers of its lines.                    *)

\* The file is a sequence; only a file with a line in it can end in an
\* unfinished one; the lines that parse are numbered from 1.
FileShape ==
  /\ IsFile(file)
  /\ open \in BOOLEAN /\ up \in BOOLEAN
  /\ open => file # <<>>
  /\ \A i \in 1..Len(file) : file[i] # Garbage => file[i].seq \in Nat \ {0}
  /\ nextSeq \in Nat \ {0}

\* The inductive invariant under SeqGrows: besides growing, the numbers stay
\* below the one the running service gives next.
SeqInv ==
  /\ FileShape
  /\ SeqGrows
  /\ up => \A i \in 1..Len(file) : file[i] # Garbage => file[i].seq < nextSeq

\* The steps that leave file, open and nextSeq alone, or only die.
Quiet ==
  /\ UNCHANGED <<file, open, acked>>
  /\ UNCHANGED <<up, nextSeq, bal>> \/ (up' = FALSE /\ nextSeq' = 1)

\* Every step is one of five on the file, whatever request takes it.
FileStep ==
  \/ Quiet
  \/ \E l : l.seq = nextSeq /\ l # Garbage /\ AppendReturns(l) /\ up /\ UNCHANGED up
  \/ up /\ Throws /\ UNCHANGED <<up, nextSeq, bal, acked>>
  \/ \E l : /\ up /\ up' = FALSE /\ l.seq = nextSeq /\ l # Garbage
            /\ \/ file' = Glued(l) /\ open' = FALSE
               \/ "tornPart" \in Faults /\ file' = Glued(Garbage) /\ open' = TRUE
               \/ "tornEnd" \in Faults /\ file' = Glued(l) /\ open' = TRUE
            /\ nextSeq' = 1 /\ UNCHANGED acked
  \/ Boot
  \/ CliMint

LEMMA LineFacts ==
  ASSUME NEW n, NEW mv, NEW ev, n # 0
  PROVE  Line(n, mv, ev).seq = n /\ Line(n, mv, ev) # Garbage
BY DEF Line, Garbage

LEMMA NextIsFileStep ==
  ASSUME FileShape, [Next]_vars
  PROVE  FileStep
<1>0. up \in BOOLEAN /\ nextSeq # 0
  BY DEF FileShape
<1> DEFINE tx(c) == TxOf(req[c].q)
<1>t. \A c : tx(c).seq = nextSeq /\ tx(c) # Garbage
  BY <1>0, LineFacts DEF TxOf
<1>1. CASE UNCHANGED vars
  BY <1>1 DEF vars, FileStep, Quiet
<1>2. ASSUME NEW c \in Client, Arrive(c) PROVE FileStep
  BY <1>2 DEF Arrive, FileStep, Quiet
<1>3. ASSUME NEW c \in Client, Serve(c) PROVE FileStep
  <2>1. CASE Refuse(c) \/ AskPanel(c) \/ PanelRefuses(c) \/ RunNoLine(c)
             \/ RemovePrincipal(c) \/ NoteSeen(c)
    BY <2>1 DEF Refuse, AskPanel, PanelRefuses, RunNoLine, RemovePrincipal, NoteSeen,
                FileStep, Quiet
  <2>2. CASE RunAppend(c)
    <3>1. AppendReturns(tx(c)) /\ up /\ UNCHANGED up
      BY <2>2 DEF RunAppend
    <3> HIDE DEF tx
    <3> QED BY <1>t, <3>1 DEF FileStep
  <2>3. CASE RunAppendFails(c)
    BY <2>3 DEF RunAppendFails, FileStep
  <2> QED BY <1>3, <2>1, <2>2, <2>3 DEF Serve
<1>4. ASSUME NEW c \in Client, CrashInAppend(c) PROVE FileStep
  <2>1. /\ up /\ up' = FALSE /\ nextSeq' = 1 /\ UNCHANGED acked
        /\ \/ file' = Glued(tx(c)) /\ open' = FALSE
           \/ "tornPart" \in Faults /\ file' = Glued(Garbage) /\ open' = TRUE
           \/ "tornEnd" \in Faults /\ file' = Glued(tx(c)) /\ open' = TRUE
    BY <1>4 DEF CrashInAppend, Die
  <2> HIDE DEF tx
  <2> QED BY <1>t, <2>1 DEF FileStep
<1>5. CASE Crash
  BY <1>5 DEF Crash, Die, FileStep, Quiet
<1>6. CASE Boot \/ CliMint
  BY <1>6 DEF FileStep
<1> QED BY <1>1, <1>2, <1>3, <1>4, <1>5, <1>6 DEF Next

\* A write to the file keeps its lines, spoils some, or adds l at the end.
KeptOrNew(g, f, l) ==
  \A i \in 1..Len(g) : \/ g[i] = Garbage
                       \/ i \in 1..Len(f) /\ g[i] = f[i]
                       \/ i = Len(g) /\ g[i] = l

LEMMA GluedKeeps ==
  ASSUME NEW f, IsFile(f), NEW o \in BOOLEAN, o => f # <<>>, NEW l
  PROVE  LET g == GluedTo([lines |-> f, open |-> o], l)
         IN IsFile(g) /\ g # <<>> /\ KeptOrNew(g, f, l)
<1> DEFINE g == GluedTo([lines |-> f, open |-> o], l)
<1>1. /\ IsFile(g)
      /\ o => /\ Len(g) = Len(f)
              /\ \A i \in 1..(Len(f) - 1) : g[i] = f[i]
              /\ g[Len(f)] = Garbage
      /\ ~o => /\ Len(g) = Len(f) + 1
               /\ \A i \in 1..Len(f) : g[i] = f[i]
               /\ g[Len(f) + 1] = l
  BY GluedFile
<1> HIDE DEF g
<1>2. Len(f) \in Nat /\ (f # <<>> => Len(f) # 0)
  BY FileLength
<1>3. g # <<>>
  BY <1>1, <1>2, FileLength
<1>4. KeptOrNew(g, f, l)
  BY <1>1, <1>2 DEF KeptOrNew
<1>5. IsFile(g) /\ g # <<>> /\ KeptOrNew(g, f, l)
  BY <1>1, <1>3, <1>4
<1> QED BY <1>5 DEF g

LEMMA CliWrites ==
  ASSUME FileShape, CliMint
  PROVE  \E l : /\ l.seq = NextSeqOf(DropTail.lines) /\ l.ev = NoEvent
               /\ IsFile(file') /\ file' # <<>> /\ open' = FALSE
               /\ KeptOrNew(file', DropTail.lines, l)
               /\ file' = GluedTo(DropTail, l)
               /\ acked' = acked \union {l}
<1>1. PICK p \in principals, n \in Amounts :
        LET l == Line(NextSeqOf(DropTail.lines), Credit(p, n), NoEvent) IN
          /\ file' = GluedTo(DropTail, l) /\ open' = FALSE
          /\ acked' = acked \union {l}
  BY DEF CliMint
<1> DEFINE l == Line(NextSeqOf(DropTail.lines), Credit(p, n), NoEvent)
<1>2. l.seq = NextSeqOf(DropTail.lines) /\ l.ev = NoEvent
  BY DEF Line
<1>3. DropTail = [lines |-> DropTail.lines, open |-> DropTail.open]
  BY DEF DropTail
<1>4. /\ IsFile(DropTail.lines) /\ DropTail.open \in BOOLEAN
      /\ DropTail.open => DropTail.lines # <<>>
  BY DroppedTail DEF FileShape
<1>5. file' = GluedTo(DropTail, l) /\ open' = FALSE /\ acked' = acked \union {l}
  BY <1>1
<1> HIDE DEF l
<1>6. /\ IsFile(GluedTo(DropTail, l)) /\ GluedTo(DropTail, l) # <<>>
      /\ KeptOrNew(GluedTo(DropTail, l), DropTail.lines, l)
  BY <1>3, <1>4, GluedKeeps
<1> QED BY <1>2, <1>5, <1>6

\* The scan of a file it does not refuse numbers the next line above all.
LEMMA NextAbove ==
  ASSUME FileShape, Scans
  PROVE  /\ NextSeqOf(DropTail.lines) \in Nat \ {0}
         /\ SeqGrows => \A i \in 1..Len(DropTail.lines) :
                          DropTail.lines[i].seq < NextSeqOf(DropTail.lines)
<1> DEFINE d == DropTail.lines
<1>0. Len(file) \in Nat /\ DOMAIN file = 1..Len(file)
  BY FileLength DEF FileShape
<1>1. /\ IsFile(d) /\ Len(d) \in {Len(file) - 1, Len(file)}
      /\ \A i \in 1..Len(d) : d[i] = file[i] /\ d[i] # Garbage
  BY DroppedTail DEF FileShape
<1> HIDE DEF d
<1>2. Len(d) \in Nat /\ (d = <<>> <=> Len(d) = 0)
  BY <1>1, FileLength
<1>s. Len(d) <= Len(file) /\ \A i \in 1..Len(d) : i \in 1..Len(file)
  <2>1. Len(d) \in {Len(file) - 1, Len(file)}
    BY <1>1
  <2> DEFINE n == Len(file)
             k == Len(d)
  <2>a. n \in Nat /\ (k = n - 1 \/ k = n)
    BY <1>0, <2>1
  <2> HIDE DEF n, k
  <2>b. k <= n
    BY <2>a
  <2>2. Len(d) <= Len(file)
    BY <2>b DEF n, k
  <2> QED BY <1>0, <1>2, <2>2
<1>3. ASSUME NEW i \in 1..Len(d)
      PROVE  d[i].seq \in Nat \ {0} /\ d[i] = file[i] /\ file[i] # Garbage
  <2>1. i \in 1..Len(file) /\ d[i] = file[i] /\ file[i] # Garbage
    BY <1>1, <1>s
  <2>2. file[i].seq \in Nat \ {0}
    BY <2>1 DEF FileShape
  <2> QED BY <2>1, <2>2
<1>4. CASE d = <<>>
  <2>1. NextSeqOf(d) = 1 /\ Len(d) = 0
    BY <1>2, <1>4 DEF NextSeqOf
  <2> QED BY <2>1 DEF d
<1>5. CASE d # <<>>
  <2>1. NextSeqOf(d) = d[Len(d)].seq + 1 /\ Len(d) \in 1..Len(d)
    BY <1>2, <1>5 DEF NextSeqOf, Last
  <2>2. ASSUME SeqGrows, NEW i \in 1..Len(d)
        PROVE  d[i].seq <= d[Len(d)].seq
    <3>1. i \in DOMAIN file /\ Len(d) \in DOMAIN file
      BY <1>0, <1>s, <2>1
    <3>2. CASE i = Len(d)
      BY <1>3, <2>1, <3>2
    <3>3. CASE i < Len(d)
      BY <1>3, <2>1, <2>2, <3>1, <3>3 DEF SeqGrows
    <3> QED BY <1>2, <3>2, <3>3
  <2>3. NextSeqOf(d) \in Nat \ {0}
    BY <1>3, <2>1
  <2>4. SeqGrows => \A i \in 1..Len(d) : d[i].seq < NextSeqOf(d)
    BY <1>3, <2>1, <2>2
  <2> QED BY <2>3, <2>4 DEF d
<1> QED BY <1>4, <1>5

LEMMA DroppedSeqs ==
  ASSUME FileShape
  PROVE  /\ \A i \in 1..Len(DropTail.lines) : i \in 1..Len(file)
         /\ \A i \in 1..Len(DropTail.lines) :
              DropTail.lines[i] # Garbage => DropTail.lines[i].seq \in Nat \ {0}
<1> DEFINE d == DropTail.lines
           n == Len(file)
           k == Len(d)
<1>1. IsFile(d) /\ IsFile(file) /\ k \in {n - 1, n} /\ \A i \in 1..k : d[i] = file[i]
  BY DroppedTail DEF FileShape
<1>2. n \in Nat /\ k \in Nat
  BY <1>1, FileLength
<1>3. \A i \in 1..n : file[i] # Garbage => file[i].seq \in Nat \ {0}
  BY DEF FileShape
<1>4. k = n - 1 \/ k = n
  BY <1>1
<1> HIDE DEF n, k, d
<1>5. \A i \in 1..k : i \in 1..n
  BY <1>2, <1>4
<1>6. \A i \in 1..k : d[i] # Garbage => d[i].seq \in Nat \ {0}
  BY <1>1, <1>3, <1>5
<1> QED BY <1>5, <1>6 DEF n, k, d

LEMMA InitShape == Init => FileShape
<1> SUFFICES ASSUME Init PROVE FileShape
  OBVIOUS
<1>1. <<>> \in Seq({}) /\ Len(<<>>) = 0
  BY EmptySeq
<1>2. IsFile(<<>>)
  BY <1>1, FileOfEntries
<1>3. open \in BOOLEAN /\ up \in BOOLEAN /\ (open => file # <<>>) /\ nextSeq = 1
  BY DEF Init
<1>4. Len(file) = 0 /\ IsFile(file)
  BY <1>1, <1>2 DEF Init
<1>5. \A i \in 1..Len(file) : file[i] # Garbage => file[i].seq \in Nat \ {0}
  BY <1>4
<1>6. nextSeq \in Nat \ {0}
  BY <1>3
<1> QED BY <1>3, <1>4, <1>5, <1>6 DEF FileShape

LEMMA ShapeOfNew ==
  ASSUME FileShape, NEW g, NEW l,
         IsFile(g), KeptOrNew(g, file, l), l # Garbage => l.seq \in Nat \ {0}
  PROVE  \A i \in 1..Len(g) : g[i] # Garbage => g[i].seq \in Nat \ {0}
BY DEF FileShape, KeptOrNew

LEMMA GluedShape ==
  ASSUME FileShape, NEW l
  PROVE  IsFile(Glued(l)) /\ Glued(l) # <<>> /\ KeptOrNew(Glued(l), file, l)
<1>1. IsFile(file) /\ open \in BOOLEAN /\ (open => file # <<>>)
  BY DEF FileShape
<1> QED BY <1>1, GluedKeeps DEF Glued

LEMMA ShapeStep ==
  ASSUME FileShape, FileStep
  PROVE  FileShape'
<1>0. nextSeq \in Nat \ {0} /\ up \in BOOLEAN
  BY DEF FileShape
<1>1. CASE Quiet
  <2>a. up' = up \/ up' = FALSE
    BY <1>1 DEF Quiet
  <2>b. nextSeq' = nextSeq \/ nextSeq' = 1
    BY <1>1 DEF Quiet
  <2>c. up' \in BOOLEAN
    BY <1>0, <2>a
  <2>1. up' \in BOOLEAN /\ nextSeq' \in Nat \ {0}
    BY <1>0, <2>b, <2>c
  <2>2. file' = file /\ open' = open
    BY <1>1 DEF Quiet
  <2> QED BY <2>1, <2>2 DEF FileShape
<1>2. ASSUME NEW l, l.seq = nextSeq, l # Garbage, AppendReturns(l), up, up' = up
      PROVE  FileShape'
  <2>1. file' = Glued(l) /\ open' = FALSE /\ nextSeq' = nextSeq + 1 /\ up' \in BOOLEAN
    BY <1>2 DEF AppendReturns, FileShape
  <2>2. IsFile(file') /\ KeptOrNew(file', file, l)
    BY <2>1, GluedShape
  <2>3. \A i \in 1..Len(file') : file'[i] # Garbage => file'[i].seq \in Nat \ {0}
    BY <1>0, <1>2, <2>2, ShapeOfNew
  <2>4. nextSeq' \in Nat \ {0}
    BY <1>0, <2>1
  <2>5. open' \in BOOLEAN /\ up' \in BOOLEAN /\ ~open'
    BY <1>0, <1>2, <2>1
  <2> QED BY <2>2, <2>3, <2>4, <2>5 DEF FileShape
<1>3. CASE up /\ Throws /\ UNCHANGED <<up, nextSeq, bal, acked>>
  <2>1. CASE UNCHANGED <<file, open>>
    BY <1>3, <2>1 DEF FileShape
  <2>2. CASE file' = Glued(Garbage) /\ open' = TRUE
    <3>1. IsFile(file') /\ file' # <<>> /\ KeptOrNew(file', file, Garbage)
      BY <2>2, GluedShape
    <3>2. \A i \in 1..Len(file') : file'[i] # Garbage => file'[i].seq \in Nat \ {0}
      BY <3>1, ShapeOfNew
    <3> QED BY <1>0, <1>3, <2>2, <3>1, <3>2 DEF FileShape
  <2> QED BY <1>3, <2>1, <2>2 DEF Throws
<1>4. ASSUME NEW l, NEW x, up, up' = FALSE, l.seq = nextSeq, l # Garbage,
             x \in {l, Garbage}, file' = Glued(x), open' \in BOOLEAN, nextSeq' = 1
      PROVE  FileShape'
  <2>1. IsFile(file') /\ file' # <<>> /\ KeptOrNew(file', file, x)
    BY <1>4, GluedShape
  <2>2. \A i \in 1..Len(file') : file'[i] # Garbage => file'[i].seq \in Nat \ {0}
    BY <1>0, <1>4, <2>1, ShapeOfNew
  <2>3. up' \in BOOLEAN
    BY <1>4
  <2> QED BY <1>4, <2>1, <2>2, <2>3 DEF FileShape
<1>5. CASE Boot
  <2>1. /\ file' = DropTail.lines /\ open' = DropTail.open /\ up' = TRUE
        /\ nextSeq' = NextSeqOf(DropTail.lines) /\ Scans
    BY <1>5 DEF Boot
  <2>2. /\ IsFile(DropTail.lines) /\ DropTail.open \in BOOLEAN
        /\ DropTail.open => DropTail.lines # <<>>
    BY DroppedTail DEF FileShape
  <2>3. NextSeqOf(DropTail.lines) \in Nat \ {0}
    BY <2>1, NextAbove
  <2>4. \A i \in 1..Len(DropTail.lines) :
          DropTail.lines[i] # Garbage => DropTail.lines[i].seq \in Nat \ {0}
    BY DroppedSeqs
  <2> QED BY <2>1, <2>2, <2>3, <2>4 DEF FileShape
<1>6. CASE CliMint
  <2>1. PICK l : /\ l.seq = NextSeqOf(DropTail.lines)
                 /\ IsFile(file') /\ file' # <<>> /\ open' = FALSE
                 /\ KeptOrNew(file', DropTail.lines, l)
    BY <1>6, CliWrites
  <2>2. Scans /\ UNCHANGED <<up, nextSeq>>
    BY <1>6 DEF CliMint
  <2>3. l.seq \in Nat \ {0}
    BY <2>1, <2>2, NextAbove
  <2>4. \A i \in 1..Len(DropTail.lines) :
          DropTail.lines[i] # Garbage => DropTail.lines[i].seq \in Nat \ {0}
    BY DroppedSeqs
  <2>5. \A i \in 1..Len(file') : file'[i] # Garbage => file'[i].seq \in Nat \ {0}
    BY <2>1, <2>3, <2>4 DEF KeptOrNew
  <2> QED BY <1>0, <2>1, <2>2, <2>5 DEF FileShape
<1>7. CASE \E l : /\ up /\ up' = FALSE /\ l.seq = nextSeq /\ l # Garbage
                 /\ \/ file' = Glued(l) /\ open' = FALSE
                    \/ "tornPart" \in Faults /\ file' = Glued(Garbage) /\ open' = TRUE
                    \/ "tornEnd" \in Faults /\ file' = Glued(l) /\ open' = TRUE
                 /\ nextSeq' = 1 /\ UNCHANGED acked
  BY <1>4, <1>7
<1> QED BY <1>1, <1>2, <1>3, <1>5, <1>6, <1>7 DEF FileStep

-----------------------------------------------------------------------------
(* The numbers of the lines.                                               *)

\* Spoiling lines and adding one with a larger number keeps the growth.
LEMMA GrowthKept ==
  ASSUME NEW f, NEW g, NEW l, NEW b,
         IsFile(f), IsFile(g), KeptOrNew(g, f, l),
         \A i, j \in DOMAIN f :
           i < j /\ f[i] # Garbage /\ f[j] # Garbage => f[i].seq < f[j].seq,
         \A i \in 1..Len(f) : f[i] # Garbage => f[i].seq < b,
         l # Garbage => l.seq = b
  PROVE  \A i, j \in DOMAIN g :
           i < j /\ g[i] # Garbage /\ g[j] # Garbage => g[i].seq < g[j].seq
<1>1. DOMAIN f = 1..Len(f) /\ DOMAIN g = 1..Len(g) /\ Len(f) \in Nat /\ Len(g) \in Nat
  BY FileLength
<1> SUFFICES ASSUME NEW i \in DOMAIN g, NEW j \in DOMAIN g,
                    i < j, g[i] # Garbage, g[j] # Garbage
             PROVE  g[i].seq < g[j].seq
  OBVIOUS
<1>2. i \in 1..Len(g) /\ j \in 1..Len(g) /\ i # Len(g)
  BY <1>1
<1>3. i \in 1..Len(f) /\ g[i] = f[i]
  BY <1>2 DEF KeptOrNew
<1>4. CASE j \in 1..Len(f) /\ g[j] = f[j]
  BY <1>1, <1>3, <1>4
<1>5. CASE g[j] = l
  BY <1>3, <1>5
<1> QED BY <1>2, <1>4, <1>5 DEF KeptOrNew

LEMMA BoundKept ==
  ASSUME NEW f, NEW g, NEW l, NEW b \in Nat, KeptOrNew(g, f, l),
         \A i \in 1..Len(f) : f[i] # Garbage => f[i].seq \in Nat /\ f[i].seq < b,
         l # Garbage => l.seq = b
  PROVE  \A i \in 1..Len(g) : g[i] # Garbage => g[i].seq < b + 1
<1> SUFFICES ASSUME NEW i \in 1..Len(g), g[i] # Garbage
             PROVE  g[i].seq < b + 1
  OBVIOUS
<1>1. CASE i \in 1..Len(f) /\ g[i] = f[i]
  BY <1>1
<1>2. CASE g[i] = l
  BY <1>2
<1> QED BY <1>1, <1>2 DEF KeptOrNew

LEMMA SeqInvStep ==
  ASSUME "cliLive" \notin Faults, SeqInv, FileStep
  PROVE  SeqInv'
<1>0. /\ FileShape /\ FileShape' /\ SeqGrows
      /\ IsFile(file) /\ IsFile(file') /\ nextSeq \in Nat \ {0}
  <2>1. FileShape /\ SeqGrows
    BY DEF SeqInv
  <2>2. FileShape'
    BY <2>1, ShapeStep
  <2> QED BY <2>1, <2>2 DEF FileShape
<1>a. \A i, j \in DOMAIN file :
        i < j /\ file[i] # Garbage /\ file[j] # Garbage => file[i].seq < file[j].seq
  BY <1>0 DEF SeqGrows
<1>b. up => \A i \in 1..Len(file) :
              file[i] # Garbage => file[i].seq \in Nat /\ file[i].seq < nextSeq
  BY DEF SeqInv, FileShape
<1>1. CASE Quiet
  <2>1. file' = file /\ (up' = FALSE \/ (up' = up /\ nextSeq' = nextSeq))
    BY <1>1 DEF Quiet
  <2> QED BY <1>0, <2>1 DEF SeqInv, SeqGrows
<1>2. ASSUME NEW l, NEW x, up, l.seq = nextSeq, x \in {l, Garbage}, file' = Glued(x)
      PROVE  /\ SeqGrows'
             /\ \A i \in 1..Len(file') : file'[i] # Garbage => file'[i].seq < nextSeq + 1
  <2>1. KeptOrNew(file', file, x)
    BY <1>0, <1>2, GluedShape
  <2>2. x # Garbage => x.seq = nextSeq
    BY <1>2
  <2>3. \A i \in 1..Len(file) :
          file[i] # Garbage => file[i].seq \in Nat /\ file[i].seq < nextSeq
    BY <1>b, <1>2
  <2>4. \A i, j \in DOMAIN file' :
          i < j /\ file'[i] # Garbage /\ file'[j] # Garbage => file'[i].seq < file'[j].seq
    BY <1>0, <1>a, <2>1, <2>2, <2>3, GrowthKept
  <2>5. \A i \in 1..Len(file') : file'[i] # Garbage => file'[i].seq < nextSeq + 1
    BY <1>0, <2>1, <2>2, <2>3, BoundKept
  <2> QED BY <2>4, <2>5 DEF SeqGrows
<1>3. ASSUME NEW l, l.seq = nextSeq, AppendReturns(l), up
      PROVE  SeqInv'
  <2>1. file' = Glued(l) /\ nextSeq' = nextSeq + 1
    BY <1>3 DEF AppendReturns
  <2> QED BY <1>0, <1>2, <1>3, <2>1 DEF SeqInv
<1>4. CASE up /\ Throws /\ UNCHANGED <<up, nextSeq, bal, acked>>
  <2>1. CASE UNCHANGED <<file, open>>
    <3>1. file' = file /\ nextSeq' = nextSeq /\ up' = up
      BY <1>4, <2>1
    <3> QED BY <1>0, <3>1 DEF SeqInv, SeqGrows
  <2>2. CASE file' = Glued(Garbage) /\ open' = TRUE
    <3>1. KeptOrNew(file', file, Garbage)
      BY <1>0, <2>2, GluedShape
    <3>2. \A i \in 1..Len(file') : file'[i] # Garbage => file'[i].seq < nextSeq
      BY <1>b, <1>4, <3>1 DEF KeptOrNew
    <3>3. \A i, j \in DOMAIN file' :
            i < j /\ file'[i] # Garbage /\ file'[j] # Garbage => file'[i].seq < file'[j].seq
      BY <1>0, <1>a, <1>b, <1>4, <3>1, GrowthKept
    <3> QED BY <1>0, <1>4, <3>2, <3>3 DEF SeqInv, SeqGrows
  <2> QED BY <1>4, <2>1, <2>2 DEF Throws
<1>5. ASSUME NEW l, NEW x, up, up' = FALSE, l.seq = nextSeq, x \in {l, Garbage},
             file' = Glued(x)
      PROVE  SeqInv'
  BY <1>0, <1>2, <1>5 DEF SeqInv
<1>d. /\ IsFile(DropTail.lines)
      /\ \A i \in 1..Len(DropTail.lines) : DropTail.lines[i] = file[i]
      /\ \A i \in 1..Len(DropTail.lines) : i \in 1..Len(file)
      /\ DOMAIN file = 1..Len(file)
      /\ DOMAIN DropTail.lines = 1..Len(DropTail.lines)
  BY <1>0, DroppedTail, DroppedSeqs, FileLength DEF FileShape
<1>e. \A i, j \in DOMAIN DropTail.lines :
        i < j /\ DropTail.lines[i] # Garbage /\ DropTail.lines[j] # Garbage
          => DropTail.lines[i].seq < DropTail.lines[j].seq
  BY <1>a, <1>d
<1>6. CASE Boot
  <2>1. file' = DropTail.lines /\ nextSeq' = NextSeqOf(DropTail.lines) /\ Scans
    BY <1>6 DEF Boot
  <2>2. \A i \in 1..Len(DropTail.lines) : DropTail.lines[i].seq < NextSeqOf(DropTail.lines)
    BY <1>0, <2>1, NextAbove
  <2> QED BY <1>0, <1>e, <2>1, <2>2 DEF SeqInv, SeqGrows
<1>7. CASE CliMint
  <2>1. ~up /\ up' = up /\ Scans
    BY <1>7 DEF CliMint
  <2>2. PICK l : l.seq = NextSeqOf(DropTail.lines) /\ KeptOrNew(file', DropTail.lines, l)
    BY <1>0, <1>7, CliWrites
  <2>3. \A i \in 1..Len(DropTail.lines) : DropTail.lines[i].seq < NextSeqOf(DropTail.lines)
    BY <1>0, <2>1, NextAbove
  <2>4. \A i, j \in DOMAIN file' :
          i < j /\ file'[i] # Garbage /\ file'[j] # Garbage => file'[i].seq < file'[j].seq
    BY <1>0, <1>d, <1>e, <2>2, <2>3, GrowthKept
  <2> QED BY <1>0, <2>1, <2>4 DEF SeqInv, SeqGrows
<1> QED BY <1>1, <1>3, <1>4, <1>5, <1>6, <1>7 DEF FileStep

\* The numbers of the lines only ever grow, for any number of requests,
\* crashes and torn or failed appends, as long as nobody mints with the CLI
\* while the service runs (ledger.js:5-6).
THEOREM SequenceInvariant ==
  ASSUME "cliLive" \notin Faults
  PROVE  Spec => []SeqGrows
<1>1. Init => SeqInv
  <2> SUFFICES ASSUME Init PROVE SeqInv
    OBVIOUS
  <2>1. FileShape /\ file = <<>>
    BY InitShape DEF Init
  <2>2. Len(file) = 0 /\ DOMAIN file = 1..Len(file)
    BY <2>1, FileLength DEF FileShape
  <2> QED BY <2>1, <2>2 DEF SeqInv, SeqGrows
<1>2. SeqInv /\ [Next]_vars => SeqInv'
  BY SeqInvStep, NextIsFileStep DEF SeqInv
<1>3. SeqInv => SeqGrows
  BY DEF SeqInv
<1> QED BY <1>1, <1>2, <1>3, PTL DEF Spec

-----------------------------------------------------------------------------
(* Durability.                                                             *)

\* The inductive invariant under AckedSurvives and CanStart: the one bad line
\* there may be is the last, unfinished, of a service that is not running.
TailInv ==
  /\ FileShape
  /\ \A i \in 1..Len(file) : file[i] = Garbage => i = Len(file) /\ open
  /\ open => ~up /\ file[Len(file)] = Garbage
  /\ AckedSurvives
  /\ \A l \in acked : l # Garbage

\* A line added to a file of whole lines keeps every line of it.
LEMMA WholeAppend ==
  ASSUME NEW f, IsFile(f), NEW l,
         \A i \in 1..Len(f) : f[i] # Garbage
  PROVE  LET g == GluedTo([lines |-> f, open |-> FALSE], l)
         IN /\ \A i \in 1..Len(g) : g[i] = Garbage => i = Len(g) /\ l = Garbage
            /\ g[Len(g)] = l
            /\ \A i \in DOMAIN f : i \in DOMAIN g /\ g[i] = f[i]
            /\ \E i \in DOMAIN g : g[i] = l
<1> DEFINE g == GluedTo([lines |-> f, open |-> FALSE], l)
<1>1. /\ IsFile(g) /\ Len(g) = Len(f) + 1
      /\ \A i \in 1..Len(f) : g[i] = f[i]
      /\ g[Len(f) + 1] = l
  <2>1. g = Append(f, l)
    BY DEF GluedTo
  <2>2. /\ IsFile(Append(f, l)) /\ Len(Append(f, l)) = Len(f) + 1
        /\ \A i \in 1..Len(f) : Append(f, l)[i] = f[i]
        /\ Append(f, l)[Len(f) + 1] = l
    BY AppendToFile
  <2> HIDE DEF g
  <2> QED BY <2>1, <2>2
<1>2. Len(f) \in Nat /\ DOMAIN f = 1..Len(f)
  BY FileLength
<1> HIDE DEF g
<1>3. DOMAIN g = 1..Len(g)
  BY <1>1, FileLength
<1>4. \A i \in 1..Len(g) : g[i] = Garbage => i = Len(g) /\ l = Garbage
  <2> SUFFICES ASSUME NEW i \in 1..Len(g), g[i] = Garbage
               PROVE  i = Len(g) /\ l = Garbage
    OBVIOUS
  <2>1. i \in 1..Len(f) \/ i = Len(f) + 1
    BY <1>1, <1>2
  <2> QED BY <1>1, <2>1
<1>5. \A i \in DOMAIN f : i \in DOMAIN g /\ g[i] = f[i]
  BY <1>1, <1>2, <1>3
<1>6. Len(f) + 1 \in DOMAIN g
  BY <1>1, <1>2, <1>3
<1> QED BY <1>1, <1>4, <1>5, <1>6 DEF g

\* The boot scan drops no acknowledged line and leaves no bad one.
LEMMA ScanKeeps ==
  ASSUME TailInv, Scans
  PROVE  /\ DropTail.open = FALSE
         /\ \A i \in 1..Len(DropTail.lines) : DropTail.lines[i] # Garbage
         /\ \A l \in acked : \E i \in DOMAIN DropTail.lines : DropTail.lines[i] = l
<1> DEFINE d == DropTail.lines
           n == Len(file)
           k == Len(d)
<1>1. /\ IsFile(d) /\ k \in {n - 1, n}
      /\ \A i \in 1..k : d[i] = file[i] /\ d[i] # Garbage
      /\ k # n => file[n] = Garbage
      /\ DropTail.open \in BOOLEAN
      /\ DropTail.open => open /\ file[n] # Garbage
  BY DroppedTail DEF TailInv, FileShape
<1>2. DropTail.open = FALSE
  BY <1>1 DEF TailInv
<1>3. n \in Nat /\ DOMAIN file = 1..n
  BY FileLength DEF TailInv, FileShape
<1>4. DOMAIN d = 1..k /\ k \in Nat
  BY <1>1, FileLength
<1>5. ASSUME NEW l \in acked
      PROVE  \E i \in DOMAIN d : d[i] = l
  <2>1. PICK i \in DOMAIN file : file[i] = l
    BY DEF TailInv, AckedSurvives
  <2>2. l # Garbage
    BY DEF TailInv
  <2> HIDE DEF d, n, k
  <2>3. i \in 1..n /\ (i = n => k = n)
    BY <1>1, <1>3, <2>1, <2>2
  <2>4. i \in 1..k
    BY <1>1, <1>3, <1>4, <2>3
  <2> QED BY <1>1, <1>4, <2>1, <2>4
<1> QED BY <1>1, <1>2, <1>5

LEMMA TailInvStep ==
  ASSUME "tornEnd" \notin Faults, "appendTears" \notin Faults, TailInv, FileStep
  PROVE  TailInv'
<1>0. /\ FileShape /\ FileShape' /\ IsFile(file) /\ open \in BOOLEAN
      /\ up \in BOOLEAN /\ open' \in BOOLEAN /\ up' \in BOOLEAN
  <2>1. FileShape
    BY DEF TailInv
  <2>2. FileShape'
    BY <2>1, ShapeStep
  <2> QED BY <2>1, <2>2 DEF FileShape
<1>1. ASSUME UNCHANGED <<file, open, acked>>, up' = up \/ up' = FALSE
      PROVE  TailInv'
  <2>1. file' = file /\ open' = open /\ acked' = acked
    BY <1>1
  <2>2. /\ \A i \in 1..Len(file) : file[i] = Garbage => i = Len(file) /\ open
        /\ open => ~up /\ file[Len(file)] = Garbage
        /\ AckedSurvives /\ \A l \in acked : l # Garbage
    BY DEF TailInv
  <2>3. open' => ~up'
    BY <1>0, <1>1, <2>1, <2>2
  <2>4. AckedSurvives'
    BY <2>1, <2>2 DEF AckedSurvives
  <2>5. open' => file'[Len(file')] = Garbage
    BY <2>1, <2>2
  <2>6. \A i \in 1..Len(file') : file'[i] = Garbage => i = Len(file') /\ open'
    BY <2>1, <2>2
  <2>7. \A l \in acked' : l # Garbage
    BY <2>1, <2>2
  <2> QED BY <1>0, <2>3, <2>4, <2>5, <2>6, <2>7 DEF TailInv
<1>2. ASSUME NEW l, up, file' = Glued(l), open' = (l = Garbage),
             acked' = (IF l = Garbage THEN acked ELSE acked \union {l})
                \/ acked' = acked,
             l = Garbage => up' = FALSE
      PROVE  TailInv'
  <2>1. open = FALSE /\ \A i \in 1..Len(file) : file[i] # Garbage
    BY <1>0, <1>2 DEF TailInv
  <2>2. file' = GluedTo([lines |-> file, open |-> FALSE], l)
    BY <1>2, <2>1 DEF Glued
  <2>3. /\ \A i \in 1..Len(file') : file'[i] = Garbage => i = Len(file') /\ l = Garbage
        /\ file'[Len(file')] = l
        /\ \A i \in DOMAIN file : i \in DOMAIN file' /\ file'[i] = file[i]
        /\ \E i \in DOMAIN file' : file'[i] = l
    BY <1>0, <2>1, <2>2, WholeAppend
  <2>4. \A k \in acked' : (k \in acked \/ k = l) /\ k # Garbage
    BY <1>2 DEF TailInv
  <2>5. AckedSurvives'
    BY <2>3, <2>4 DEF TailInv, AckedSurvives
  <2> QED BY <1>0, <1>2, <2>3, <2>4, <2>5 DEF TailInv
<1>3. CASE Quiet
  BY <1>1, <1>3 DEF Quiet
<1>4. ASSUME NEW l, l # Garbage, AppendReturns(l), up
      PROVE  TailInv'
  <2>1. file' = Glued(l) /\ open' = FALSE /\ acked' = acked \union {l}
    BY <1>4 DEF AppendReturns
  <2> QED BY <1>2, <1>4, <2>1
<1>5. CASE up /\ Throws /\ UNCHANGED <<up, nextSeq, bal, acked>>
  BY <1>1, <1>5 DEF Throws
<1>6. ASSUME NEW l, up, up' = FALSE, l # Garbage, UNCHANGED acked,
             \/ file' = Glued(l) /\ open' = FALSE
             \/ "tornPart" \in Faults /\ file' = Glued(Garbage) /\ open' = TRUE
             \/ "tornEnd" \in Faults /\ file' = Glued(l) /\ open' = TRUE
      PROVE  TailInv'
  <2>1. CASE file' = Glued(l) /\ open' = FALSE
    BY <1>2, <1>6, <2>1
  <2>2. CASE file' = Glued(Garbage) /\ open' = TRUE
    BY <1>2, <1>6, <2>2
  <2> QED BY <1>6, <2>1, <2>2
<1>7. CASE Boot
  <2>1. file' = DropTail.lines /\ open' = DropTail.open /\ Scans /\ acked' = acked
    BY <1>7 DEF Boot
  <2>2. /\ DropTail.open = FALSE
        /\ \A i \in 1..Len(DropTail.lines) : DropTail.lines[i] # Garbage
        /\ \A l \in acked : \E i \in DOMAIN DropTail.lines : DropTail.lines[i] = l
    BY <2>1, ScanKeeps
  <2> HIDE DEF DropTail
  <2> QED BY <1>0, <2>1, <2>2 DEF TailInv, AckedSurvives
<1>8. CASE CliMint
  <2>1. PICK l : /\ l.seq = NextSeqOf(DropTail.lines) /\ open' = FALSE
                 /\ file' = GluedTo(DropTail, l) /\ acked' = acked \union {l}
    BY <1>0, <1>8, CliWrites
  <2>2. Scans
    BY <1>8 DEF CliMint
  <2>3. l # Garbage
    <3>1. l.seq \in Nat \ {0}
      BY <1>0, <2>1, <2>2, NextAbove
    <3> QED BY <3>1 DEF Garbage
  <2>4. /\ DropTail.open = FALSE
        /\ \A i \in 1..Len(DropTail.lines) : DropTail.lines[i] # Garbage
        /\ \A k \in acked : \E i \in DOMAIN DropTail.lines : DropTail.lines[i] = k
    BY <2>2, ScanKeeps
  <2>5. IsFile(DropTail.lines)
    BY <1>0, DroppedTail DEF FileShape
  <2>6. DropTail = [lines |-> DropTail.lines, open |-> FALSE]
    BY <2>4 DEF DropTail
  <2>7. file' = GluedTo([lines |-> DropTail.lines, open |-> FALSE], l)
    BY <2>1, <2>6
  <2>8. /\ \A i \in 1..Len(file') : file'[i] = Garbage => i = Len(file') /\ l = Garbage
        /\ \A i \in DOMAIN DropTail.lines :
             i \in DOMAIN file' /\ file'[i] = DropTail.lines[i]
        /\ \E i \in DOMAIN file' : file'[i] = l
    BY <2>4, <2>5, <2>7, WholeAppend
  <2>9. AckedSurvives' /\ \A k \in acked' : k # Garbage
    BY <2>1, <2>3, <2>4, <2>8 DEF TailInv, AckedSurvives
  <2> QED BY <1>0, <2>1, <2>3, <2>8, <2>9 DEF TailInv
<1> QED BY <1>3, <1>4, <1>5, <1>6, <1>7, <1>8 DEF FileStep

LEMMA TailInvariant ==
  ASSUME "tornEnd" \notin Faults, "appendTears" \notin Faults
  PROVE  Spec => []TailInv
<1>1. Init => TailInv
  <2> SUFFICES ASSUME Init PROVE TailInv
    OBVIOUS
  <2>1. FileShape /\ file = <<>> /\ open = FALSE /\ acked = {}
    BY InitShape DEF Init
  <2>2. Len(file) = 0
    BY <2>1, FileLength DEF FileShape
  <2> QED BY <2>1, <2>2 DEF TailInv, AckedSurvives
<1>2. TailInv /\ [Next]_vars => TailInv'
  BY TailInvStep, NextIsFileStep DEF TailInv
<1> QED BY <1>1, <1>2, PTL DEF Spec

\* No transaction whose append returned is ever lost, through any number of
\* crashes in the middle of a line, repairs at boot and mints with the CLI,
\* provided a line on disk has its newline and a failed append wrote nothing
\* (ledger.js:20-22); MCCreditLedgerTornEnd shows what happens without.
THEOREM Durability ==
  ASSUME "tornEnd" \notin Faults, "appendTears" \notin Faults
  PROVE  Spec => []AckedSurvives
<1>1. TailInv => AckedSurvives
  BY DEF TailInv
<1> QED BY <1>1, TailInvariant, PTL

\* Under the same provisos the boot scan never refuses the file a crash left.
THEOREM RestartAllowed ==
  ASSUME "tornEnd" \notin Faults, "appendTears" \notin Faults
  PROVE  Spec => []CanStart
<1>1. TailInv => CanStart
  <2> SUFFICES ASSUME TailInv, NEW i \in 1..(Len(file) - 1)
               PROVE  file[i] # Garbage
    BY DEF CanStart
  <2>1. Len(file) \in Nat
    BY FileLength DEF TailInv, FileShape
  <2> QED BY <2>1 DEF TailInv
<1> QED BY <1>1, TailInvariant, PTL

-----------------------------------------------------------------------------
(* What a scan of the file derives: sums over its lines.                   *)

\* A set of numbers that is not empty has a least one.
LEMMA LeastNumber ==
  ASSUME NEW T \in SUBSET Nat, T # {}
  PROVE  \E m \in T : \A k \in T : m <= k
<1> DEFINE R == OpToRel(<, Nat)
<1>1. IsWellFoundedOn(R, Nat)
  BY NatLessThanWellFounded
<1>2. \A i, j \in Nat : i < j => <<i, j>> \in R
  BY DEF OpToRel
<1> HIDE DEF R
<1>3. \E x \in T : \A y \in T : ~ (<<y, x>> \in R)
  BY <1>1, WFMin
<1>4. PICK x \in T : \A y \in T : ~ (<<y, x>> \in R)
  BY <1>3
<1>5. \A y \in T : y \in Nat /\ x \in Nat /\ ~ (y < x)
  BY <1>2, <1>4
<1>6. \A y \in T : x <= y
  BY <1>5
<1> QED BY <1>6

\* Induction, as a fact about sets of numbers.
LEMMA SetInduction ==
  ASSUME NEW T, 0 \in T, \A n \in Nat : n \in T => n + 1 \in T
  PROVE  Nat \subseteq T
<1> SUFFICES ASSUME Nat \ T # {} PROVE FALSE
  OBVIOUS
<1>1. PICK m \in Nat \ T : \A k \in Nat \ T : m <= k
  BY LeastNumber
<1>2. m - 1 \in Nat /\ m - 1 \in T
  BY <1>1
<1> QED BY <1>1, <1>2

\* s holds the running sums of d.
IsSum(s, d, N) == s = [n \in 0..N |-> IF n = 0 THEN 0 ELSE s[n - 1] + d[n]]

LEMMA SumExists ==
  ASSUME NEW N \in Nat, NEW d
  PROVE  \E s : IsSum(s, d, N)
<1> DEFINE T == {n \in Nat : \E s : IsSum(s, d, n)}
<1>1. 0 \in T
  <2> DEFINE s == [n \in 0..0 |-> 0]
  <2>1. s = [n \in 0..0 |-> IF n = 0 THEN 0 ELSE s[n - 1] + d[n]]
    OBVIOUS
  <2> QED BY <2>1 DEF IsSum
<1>2. ASSUME NEW n \in Nat, n \in T
      PROVE  n + 1 \in T
  <2>1. PICK s : IsSum(s, d, n)
    BY <1>2
  <2> DEFINE t == [k \in 0..(n + 1) |-> IF k = n + 1 THEN s[n] + d[n + 1] ELSE s[k]]
  <2>2. \A k \in 0..n : s[k] = IF k = 0 THEN 0 ELSE s[k - 1] + d[k]
    BY <2>1 DEF IsSum
  <2>3. ASSUME NEW k \in 0..(n + 1)
        PROVE  t[k] = IF k = 0 THEN 0 ELSE t[k - 1] + d[k]
    <3>1. CASE k = n + 1
      <4>1. k # 0 /\ k - 1 = n /\ n \in 0..(n + 1) /\ n # n + 1
        BY <3>1
      <4>2. t[k - 1] = s[n] /\ t[k] = s[n] + d[n + 1]
        BY <3>1, <4>1
      <4> QED BY <3>1, <4>1, <4>2
    <3>2. CASE k # n + 1
      <4>1. k \in 0..n /\ t[k] = s[k]
        BY <3>2
      <4>2. k # 0 => k - 1 \in 0..(n + 1) /\ k - 1 # n + 1
        BY <4>1
      <4>3. k # 0 => t[k - 1] = s[k - 1]
        BY <4>2
      <4> QED BY <2>2, <4>1, <4>3
    <3> QED BY <3>1, <3>2
  <2>4. t = [k \in 0..(n + 1) |-> t[k]]
    OBVIOUS
  <2> HIDE DEF t
  <2>5. t = [k \in 0..(n + 1) |-> IF k = 0 THEN 0 ELSE t[k - 1] + d[k]]
    BY <2>3, <2>4
  <2>6. IsSum(t, d, n + 1)
    BY <2>5 DEF IsSum
  <2> QED BY <2>6
<1>3. Nat \subseteq T
  <2> HIDE DEF T
  <2> QED BY <1>1, <1>2, SetInduction
<1> QED BY <1>3

\* Two running sums of the same numbers are the same, as far as both go.
LEMMA SumAgrees ==
  ASSUME NEW N \in Nat, NEW M \in Nat, N <= M, NEW s, NEW t, NEW d, NEW e,
         IsSum(s, d, N), IsSum(t, e, M), \A n \in 1..N : d[n] = e[n]
  PROVE  s[N] = t[N]
<1> DEFINE T == {n \in Nat : n <= N => s[n] = t[n]}
<1>1. \A k \in 0..N : s[k] = IF k = 0 THEN 0 ELSE s[k - 1] + d[k]
  BY DEF IsSum
<1>2. \A k \in 0..M : t[k] = IF k = 0 THEN 0 ELSE t[k - 1] + e[k]
  BY DEF IsSum
<1>3. 0 \in T
  BY <1>1, <1>2
<1>4. ASSUME NEW n \in Nat, n \in T
      PROVE  n + 1 \in T
  <2> SUFFICES ASSUME n + 1 <= N PROVE s[n + 1] = t[n + 1]
    OBVIOUS
  <2>1. n + 1 \in 0..N /\ n + 1 \in 0..M /\ n + 1 \in 1..N /\ n + 1 # 0 /\ (n + 1) - 1 = n
    OBVIOUS
  <2>2. s[n + 1] = s[n] + d[n + 1] /\ t[n + 1] = t[n] + e[n + 1]
    BY <1>1, <1>2, <2>1
  <2>3. s[n] = t[n]
    BY <1>4, <2>1
  <2> QED BY <2>1, <2>2, <2>3
<1>5. Nat \subseteq T
  <2> HIDE DEF T
  <2> QED BY <1>3, <1>4, SetInduction
<1> QED BY <1>5

LEMMA SumInt ==
  ASSUME NEW N \in Nat, NEW s, NEW d, IsSum(s, d, N), \A n \in 1..N : d[n] \in Int
  PROVE  s[N] \in Int
<1> DEFINE T == {n \in Nat : n <= N => s[n] \in Int}
<1>1. \A k \in 0..N : s[k] = IF k = 0 THEN 0 ELSE s[k - 1] + d[k]
  BY DEF IsSum
<1>2. 0 \in T
  BY <1>1
<1>3. ASSUME NEW n \in Nat, n \in T
      PROVE  n + 1 \in T
  <2> SUFFICES ASSUME n + 1 <= N PROVE s[n + 1] \in Int
    OBVIOUS
  <2>1. n + 1 \in 0..N /\ n + 1 \in 1..N /\ n + 1 # 0 /\ (n + 1) - 1 = n
    OBVIOUS
  <2>2. s[n + 1] = s[n] + d[n + 1]
    BY <1>1, <2>1
  <2> QED BY <1>3, <2>1, <2>2
<1>4. Nat \subseteq T
  <2> HIDE DEF T
  <2> QED BY <1>2, <1>3, SetInduction
<1> QED BY <1>4

\* The shares a file gives p.
Shares(f, p) == [n \in 1..Len(f) |-> Share(f[n], p)]

LEMMA BalanceSum ==
  ASSUME NEW f, IsFile(f), NEW p
  PROVE  \E s : IsSum(s, Shares(f, p), Len(f)) /\ BalanceIn(f, p) = s[Len(f)]
<1>1. Len(f) \in Nat
  BY FileLength
<1> DEFINE eq(s) == s = [n \in 0..Len(f) |-> IF n = 0 THEN 0 ELSE s[n - 1] + Share(f[n], p)]
<1>2. ASSUME NEW s PROVE IsSum(s, Shares(f, p), Len(f)) <=> eq(s)
  <2>1. \A n \in 0..Len(f) : n # 0 => Shares(f, p)[n] = Share(f[n], p)
    BY <1>1 DEF Shares
  <2>2. [n \in 0..Len(f) |-> IF n = 0 THEN 0 ELSE s[n - 1] + Shares(f, p)[n]]
          = [n \in 0..Len(f) |-> IF n = 0 THEN 0 ELSE s[n - 1] + Share(f[n], p)]
    BY <2>1
  <2> QED BY <2>2 DEF IsSum
<1>3. \E s : eq(s)
  <2>1. PICK s : IsSum(s, Shares(f, p), Len(f))
    BY <1>1, SumExists
  <2> QED BY <1>2, <2>1
<1>4. eq(CHOOSE s : eq(s))
  BY <1>3
<1>5. BalanceIn(f, p) = (CHOOSE s : eq(s))[Len(f)]
  BY DEF BalanceIn
<1> HIDE DEF eq
<1> QED BY <1>2, <1>4, <1>5

LEMMA BalanceOfNone == \A p : BalanceIn(<<>>, p) = 0
<1> SUFFICES ASSUME NEW p PROVE BalanceIn(<<>>, p) = 0
  OBVIOUS
<1>1. <<>> \in Seq({}) /\ Len(<<>>) = 0
  BY EmptySeq
<1>2. PICK s : IsSum(s, Shares(<<>>, p), 0) /\ BalanceIn(<<>>, p) = s[0]
  BY <1>1, FileOfEntries, BalanceSum
<1> QED BY <1>2 DEF IsSum

LEMMA BalanceOfAppend ==
  ASSUME NEW f, IsFile(f), NEW l, NEW p
  PROVE  BalanceIn(Append(f, l), p) = BalanceIn(f, p) + Share(l, p)
<1> DEFINE g == Append(f, l)
<1>1. /\ IsFile(g) /\ Len(g) = Len(f) + 1
      /\ \A i \in 1..Len(f) : g[i] = f[i]
      /\ g[Len(f) + 1] = l
  BY AppendToFile
<1> HIDE DEF g
<1>2. Len(f) \in Nat
  BY FileLength
<1>3. PICK s : IsSum(s, Shares(f, p), Len(f)) /\ BalanceIn(f, p) = s[Len(f)]
  BY BalanceSum
<1>4. PICK t : IsSum(t, Shares(g, p), Len(g)) /\ BalanceIn(g, p) = t[Len(g)]
  BY <1>1, BalanceSum
<1>5. \A n \in 1..Len(f) : Shares(f, p)[n] = Shares(g, p)[n]
  BY <1>1, <1>2 DEF Shares
<1>6. s[Len(f)] = t[Len(f)]
  BY <1>1, <1>2, <1>3, <1>4, <1>5, SumAgrees
<1>7. t[Len(g)] = t[Len(g) - 1] + Shares(g, p)[Len(g)]
  BY <1>1, <1>2, <1>4 DEF IsSum
<1>8. Shares(g, p)[Len(g)] = Share(l, p) /\ Len(g) - 1 = Len(f)
  BY <1>1, <1>2 DEF Shares
<1> QED BY <1>3, <1>4, <1>6, <1>7, <1>8 DEF g

LEMMA BalanceIsInt ==
  ASSUME NEW f, IsFile(f), NEW p, \A i \in 1..Len(f) : Share(f[i], p) \in Int
  PROVE  BalanceIn(f, p) \in Int
<1>1. Len(f) \in Nat
  BY FileLength
<1>2. PICK s : IsSum(s, Shares(f, p), Len(f)) /\ BalanceIn(f, p) = s[Len(f)]
  BY BalanceSum
<1>3. \A n \in 1..Len(f) : Shares(f, p)[n] \in Int
  BY DEF Shares
<1> QED BY <1>1, <1>2, <1>3, SumInt

-----------------------------------------------------------------------------
(* Memory and file.                                                        *)

\* What the running service has in memory is what its file says; TailInv
\* makes every line of that file one that parses.
MemInv ==
  /\ TailInv
  /\ up => /\ \A p \in Principal : bal[p] = BalanceIn(file, p)
           /\ nextSeq = NextSeqOf(file)

\* A file of whole lines is what the boot scan keeps of it.
LEMMA WholeFile ==
  ASSUME TailInv, up
  PROVE  DropTail.lines = file /\ ~open /\ \A i \in 1..Len(file) : file[i] # Garbage
<1>1. IsFile(file) /\ open = FALSE /\ \A i \in 1..Len(file) : file[i] # Garbage
  BY DEF TailInv, FileShape
<1>2. file # <<>> => Len(file) \in 1..Len(file)
  BY <1>1, FileLength
<1>3. ~TornTail
  BY <1>1, <1>2 DEF TornTail, Last
<1> QED BY <1>1, <1>3 DEF DropTail

LEMMA MemInvStep ==
  ASSUME "tornEnd" \notin Faults, "appendTears" \notin Faults, "cliLive" \notin Faults,
         MemInv, FileStep
  PROVE  MemInv'
<1>0. TailInv /\ TailInv' /\ IsFile(file)
  BY TailInvStep DEF MemInv, TailInv, FileShape
<1>1. CASE Quiet
  BY <1>0, <1>1 DEF MemInv, Quiet
<1>2. ASSUME NEW l, l.seq = nextSeq, l # Garbage, AppendReturns(l), up
      PROVE  MemInv'
  <2>1. /\ file' = Glued(l) /\ nextSeq' = nextSeq + 1 /\ bal' = BalancesAfter(l)
    BY <1>2 DEF AppendReturns
  <2>2. file' = Append(file, l)
    BY <1>0, <1>2, <2>1, WholeFile DEF Glued, GluedTo
  <2>3. ASSUME NEW p \in Principal PROVE bal'[p] = BalanceIn(file', p)
    <3>1. bal'[p] = bal[p] + l.move[p]
      BY <2>1 DEF BalancesAfter
    <3>2. BalanceIn(file', p) = BalanceIn(file, p) + Share(l, p)
      BY <1>0, <2>2, BalanceOfAppend
    <3>3. bal[p] = BalanceIn(file, p) /\ Share(l, p) = l.move[p]
      BY <1>2 DEF MemInv, Share
    <3> QED BY <3>1, <3>2, <3>3
  <2>4. nextSeq' = NextSeqOf(file')
    <3>1. /\ IsFile(file') /\ Len(file') = Len(file) + 1 /\ file'[Len(file) + 1] = l
      BY <1>0, <2>2, AppendToFile
    <3>2. file' # <<>> /\ file'[Len(file')] = l
      BY <1>0, <3>1, FileLength
    <3> QED BY <1>2, <2>1, <3>2 DEF NextSeqOf, Last
  <2> QED BY <1>0, <2>3, <2>4 DEF MemInv
<1>3. CASE up /\ Throws /\ UNCHANGED <<up, nextSeq, bal, acked>>
  BY <1>0, <1>3 DEF MemInv, Throws
<1>4. CASE up' = FALSE
  BY <1>0, <1>4 DEF MemInv
<1>5. CASE Boot
  <2>1. /\ file' = DropTail.lines /\ nextSeq' = NextSeqOf(DropTail.lines)
        /\ bal' = [p \in Principal |-> BalanceIn(DropTail.lines, p)]
    BY <1>5 DEF Boot
  <2> HIDE DEF DropTail
  <2> QED BY <1>0, <2>1 DEF MemInv
<1>6. CASE CliMint
  BY <1>0, <1>6 DEF CliMint, MemInv
<1> QED BY <1>1, <1>2, <1>3, <1>4, <1>5, <1>6 DEF FileStep

LEMMA MemInvInit == Init => MemInv
<1> SUFFICES ASSUME Init PROVE MemInv
  OBVIOUS
<1>1. FileShape /\ file = <<>> /\ open = FALSE /\ acked = {} /\ nextSeq = 1
      /\ bal = [p \in Principal |-> 0]
  BY InitShape DEF Init, ZeroBalances
<1>2. Len(file) = 0
  BY <1>1, FileLength DEF FileShape
<1>3. TailInv
  BY <1>1, <1>2 DEF TailInv, AckedSurvives
<1>4. \A p \in Principal : bal[p] = BalanceIn(file, p)
  BY <1>1, BalanceOfNone
<1> QED BY <1>1, <1>3, <1>4 DEF MemInv, NextSeqOf

\* While the service runs, its balances and its next number are those a boot
\* would read from the file, for any history of transactions, kills, repairs
\* and failed appends, provided the file is cut at whole lines and the CLI
\* keeps off a running service (ledger.js:5-8).
THEOREM MemoryFollowsFile ==
  ASSUME "tornEnd" \notin Faults, "appendTears" \notin Faults, "cliLive" \notin Faults
  PROVE  Spec => []MemoryIsTheFile
<1>1. Init => MemInv
  BY MemInvInit
<1>2. MemInv /\ [Next]_vars => MemInv'
  BY MemInvStep, NextIsFileStep DEF MemInv, TailInv
<1>3. MemInv => MemoryIsTheFile
  BY WholeFile DEF MemInv, MemoryIsTheFile
<1> QED BY <1>1, <1>2, <1>3, PTL DEF Spec

-----------------------------------------------------------------------------
(* Top-ups.                                                                *)

\* The lines of a file that credit an event: what TopUpOnce counts.
Credited(f, e) == {i \in DOMAIN f : f[i] # Garbage /\ f[i].ev = e}

\* Who is past its check holds the mutex; only a spend waits for the panel.
MutexHeld ==
  /\ chain \in Seq(Client) /\ DOMAIN req = Client
  /\ \A c \in Client : \/ req[c] = Idle \/ req[c].pc = "queued"
                       \/ Turn(c) /\ req[c].pc \in {"panel", "seen", "remove"}
  /\ \A c \in Client : req[c].pc = "panel" => req[c].q.op = "spend"

\* A write of the file that adds no line of the event counts none.
LEMMA CountKept ==
  ASSUME NEW f, NEW g, IsFile(f), IsFile(g), NEW l, NEW e, KeptOrNew(g, f, l),
         l = Garbage \/ l.ev # e
  PROVE  ~(Cardinality(Credited(g, e)) > Cardinality(Credited(f, e)))
<1>1. /\ DOMAIN f = 1..Len(f) /\ DOMAIN g = 1..Len(g) /\ Len(f) \in Nat /\ Len(g) \in Nat
  BY FileLength
<1>2. Credited(g, e) \subseteq Credited(f, e) /\ Credited(f, e) \subseteq 1..Len(f)
  BY <1>1 DEF Credited, KeptOrNew
<1>3. IsFiniteSet(Credited(f, e))
  <2>1. IsFiniteSet(1..Len(f))
    BY <1>1, FS_Interval
  <2> QED BY <1>2, <2>1, FS_Subset
<1>4. /\ IsFiniteSet(Credited(g, e))
      /\ Cardinality(Credited(g, e)) <= Cardinality(Credited(f, e))
  BY <1>2, <1>3, FS_Subset
<1>5. Cardinality(Credited(f, e)) \in Nat /\ Cardinality(Credited(g, e)) \in Nat
  BY <1>3, <1>4, FS_CardinalityType
<1> QED BY <1>4, <1>5

\* The head of the mutex stays while others queue behind it.
LEMMA HeadStays ==
  ASSUME NEW s \in Seq(Client), NEW c \in Client
  PROVE  /\ Append(s, c) \in Seq(Client)
         /\ s # <<>> => Append(s, c) # <<>> /\ Head(Append(s, c)) = Head(s)
         /\ s # <<>> => Tail(s) \in Seq(Client)
OBVIOUS

\* Every step keeps the mutex.
LEMMA MutexStep == MutexHeld /\ [Next]_vars => MutexHeld'
<1> SUFFICES ASSUME MutexHeld, [Next]_vars PROVE MutexHeld'
  OBVIOUS
<1>i. Idle.pc = "idle"
  BY DEF Idle
<1>1. ASSUME NEW c \in Client, Turn(c), req' = [req EXCEPT ![c] = Idle], chain' = Tail(chain)
      PROVE  MutexHeld'
  <2>1. chain' \in Seq(Client)
    BY <1>1, HeadStays DEF MutexHeld, Turn
  <2>2. \A d \in Client : d # c => req'[d] = req[d] /\ (req[d] = Idle \/ req[d].pc = "queued")
    BY <1>1 DEF MutexHeld, Turn
  <2>3. req'[c] = Idle /\ DOMAIN req' = Client
    BY <1>1 DEF MutexHeld
  <2> QED BY <2>1, <2>2, <2>3, <1>i DEF MutexHeld
<1>2. ASSUME NEW c \in Client, Turn(c), UNCHANGED chain, NEW pc \in {"panel", "seen", "remove"},
             req' = [req EXCEPT ![c] = [pc |-> pc, q |-> req[c].q]],
             pc = "panel" => req[c].q.op = "spend"
      PROVE  MutexHeld'
  <2>1. /\ req'[c].pc = pc /\ req'[c].q = req[c].q /\ DOMAIN req' = Client
        /\ \A d \in Client : d # c => req'[d] = req[d]
    BY <1>2 DEF MutexHeld
  <2>2. Turn(c)'
    BY <1>2 DEF Turn
  <2>3. \A d \in Client : Turn(d)' <=> Turn(d)
    BY <1>2 DEF Turn
  <2> QED BY <1>2, <2>1, <2>2, <2>3 DEF MutexHeld
<1>3. ASSUME NEW c \in Client, Arrive(c) PROVE MutexHeld'
  <2>1. PICK q : req' = [req EXCEPT ![c] = [pc |-> "queued", q |-> q]]
    BY <1>3 DEF Arrive
  <2>2. chain' = Append(chain, c) /\ req[c] = Idle
    BY <1>3 DEF Arrive
  <2>3. \A d \in Client : Turn(d) => Turn(d)'
    BY <2>2, HeadStays DEF Turn, MutexHeld
  <2>4. /\ req'[c].pc = "queued" /\ DOMAIN req' = Client
        /\ \A d \in Client : d # c => req'[d] = req[d]
    BY <2>1 DEF MutexHeld
  <2>5. chain' \in Seq(Client)
    BY <2>2, HeadStays DEF MutexHeld
  <2> QED BY <2>3, <2>4, <2>5 DEF MutexHeld
<1>4. ASSUME NEW c \in Client, Serve(c) PROVE MutexHeld'
  <2>1. CASE Refuse(c) \/ PanelRefuses(c) \/ RunAppendFails(c)
    BY <1>1, <2>1 DEF Refuse, PanelRefuses, RunAppendFails, AtAppend, Failed, NextInChain
  <2>2. CASE RunNoLine(c) \/ RemovePrincipal(c) \/ NoteSeen(c)
    BY <1>1, <2>2 DEF RunNoLine, RemovePrincipal, NoteSeen, Done, NextInChain
  <2>3. CASE AskPanel(c)
    BY <1>2, <2>3 DEF AskPanel
  <2>4. CASE RunAppend(c)
    <3>1. Turn(c) /\ AfterAppend(c)
      BY <2>4 DEF RunAppend, AtAppend
    <3>2. \/ Done(c)
          \/ req' = [req EXCEPT ![c] = [pc |-> "seen", q |-> req[c].q]] /\ UNCHANGED chain
          \/ req' = [req EXCEPT ![c] = [pc |-> "remove", q |-> req[c].q]] /\ UNCHANGED chain
      BY <3>1 DEF AfterAppend
    <3> QED BY <1>1, <1>2, <3>1, <3>2 DEF Done, NextInChain
  <2> QED BY <1>4, <2>1, <2>2, <2>3, <2>4 DEF Serve
<1>5. ASSUME Die PROVE MutexHeld'
  <2>1. chain' \in Seq(Client) /\ DOMAIN req' = Client /\ \A c \in Client : req'[c] = Idle
    BY <1>5 DEF Die
  <2> QED BY <2>1, <1>i DEF MutexHeld
<1>6. ASSUME UNCHANGED <<req, chain>> PROVE MutexHeld'
  BY <1>6 DEF MutexHeld, Turn
<1> QED BY <1>3, <1>4, <1>5, <1>6 DEF Next, CrashInAppend, Crash, Boot, CliMint, vars

\* A step that credits an event finds it unseen, and nobody else at it.
LEMMA CreditStep ==
  ASSUME FileShape, FileShape', MutexHeld, [Next]_vars, NEW e \in Event,
         Cardinality(Credited(file', e)) > Cardinality(Credited(file, e))
  PROVE  /\ \A i \in DOMAIN seen : seen[i] # e
         /\ \A c \in Client : req[c] # Idle /\ req[c].pc = "seen" => req[c].q.ev # e
<1>0. IsFile(file) /\ IsFile(file') /\ e # NoEvent
  BY NoEventAssumption DEF FileShape
<1>1. ASSUME NEW l, KeptOrNew(file', file, l), l = Garbage \/ l.ev # e PROVE FALSE
  BY <1>0, <1>1, CountKept
<1>2. ASSUME UNCHANGED file PROVE FALSE
  <2>1. KeptOrNew(file', file, Garbage)
    BY <1>2 DEF KeptOrNew
  <2> QED BY <1>1, <2>1
<1>3. ASSUME NEW c \in Client, Turn(c), AtAppend(c), TxOf(req[c].q).ev = e
      PROVE  /\ \A i \in DOMAIN seen : seen[i] # e
             /\ \A d \in Client : req[d] # Idle /\ req[d].pc = "seen" => req[d].q.ev # e
  <2>1. req[c].q.op = "topup" /\ req[c].q.ev = e
    BY <1>0, <1>3 DEF TxOf, Line
  <2>2. req[c].pc = "queued" /\ Accepted(req[c].q)
    BY <1>3, <2>1 DEF AtAppend, MutexHeld
  <2>3. \A i \in DOMAIN seen : seen[i] # e
    BY <2>1, <2>2 DEF Accepted, SeenBefore
  <2>4. \A d \in Client : req[d] # Idle /\ req[d].pc = "seen" => d = c
    BY <1>3 DEF MutexHeld, Turn
  <2> QED BY <2>2, <2>3, <2>4
<1>4. \A l : KeptOrNew(Glued(l), file, l)
  BY GluedShape
<1>5. ASSUME NEW c \in Client, RunAppend(c)
      PROVE  Turn(c) /\ AtAppend(c) /\ TxOf(req[c].q).ev = e
  <2>1. Turn(c) /\ AtAppend(c) /\ file' = Glued(TxOf(req[c].q))
    BY <1>5 DEF RunAppend, AtAppend, AppendReturns
  <2> QED BY <1>1, <1>4, <2>1
<1>6. ASSUME NEW c \in Client, CrashInAppend(c)
      PROVE  Turn(c) /\ AtAppend(c) /\ TxOf(req[c].q).ev = e
  <2>1. Turn(c) /\ AtAppend(c) /\ (file' = Glued(TxOf(req[c].q)) \/ file' = Glued(Garbage))
    BY <1>6 DEF CrashInAppend, AtAppend
  <2> QED BY <1>1, <1>4, <2>1
<1>7. ASSUME Throws PROVE FALSE
  BY <1>1, <1>2, <1>4, <1>7 DEF Throws
<1>8. /\ IsFile(DropTail.lines) /\ Len(DropTail.lines) \in {Len(file) - 1, Len(file)}
      /\ \A i \in 1..Len(DropTail.lines) : DropTail.lines[i] = file[i]
  BY DroppedTail DEF FileShape
<1>9. Len(file) \in Nat /\ Len(DropTail.lines) \in Nat
  BY <1>0, <1>8, FileLength
<1>10. KeptOrNew(DropTail.lines, file, Garbage)
  BY <1>8, <1>9 DEF KeptOrNew
<1>11. ASSUME Boot PROVE FALSE
  BY <1>1, <1>10, <1>11 DEF Boot
<1>12. ASSUME CliMint PROVE FALSE
  <2>1. PICK l : l.ev = NoEvent /\ KeptOrNew(file', DropTail.lines, l)
    BY <1>12, CliWrites
  <2>2. ~(Cardinality(Credited(file', e)) > Cardinality(Credited(DropTail.lines, e)))
    BY <1>0, <1>8, <2>1, CountKept
  <2>3. ~(Cardinality(Credited(DropTail.lines, e)) > Cardinality(Credited(file, e)))
    BY <1>0, <1>8, <1>10, CountKept
  <2>4. \A f : IsFile(f) => Cardinality(Credited(f, e)) \in Nat
    <3> SUFFICES ASSUME NEW f, IsFile(f) PROVE Cardinality(Credited(f, e)) \in Nat
      OBVIOUS
    <3>1. Credited(f, e) \subseteq 1..Len(f) /\ Len(f) \in Nat
      BY FileLength DEF Credited
    <3>2. IsFiniteSet(1..Len(f))
      BY <3>1, FS_Interval
    <3>3. IsFiniteSet(Credited(f, e))
      BY <3>1, <3>2, FS_Subset
    <3> QED BY <3>3, FS_CardinalityType
  <2> QED BY <1>0, <1>8, <2>2, <2>3, <2>4
<1>13. ASSUME NEW c \in Client, Serve(c), ~RunAppend(c) PROVE FALSE
  BY <1>2, <1>7, <1>13 DEF Serve, Refuse, AskPanel, PanelRefuses, RunAppendFails, RunNoLine,
     RemovePrincipal, NoteSeen
<1>14. \E c \in Client : RunAppend(c) \/ CrashInAppend(c)
  <2>1. ASSUME NEW c \in Client, Arrive(c) PROVE FALSE
    BY <1>2, <2>1 DEF Arrive
  <2>2. CASE Crash
    BY <1>2, <2>2 DEF Crash
  <2>3. CASE UNCHANGED vars
    BY <1>2, <2>3 DEF vars
  <2> QED BY <1>11, <1>12, <1>13, <2>1, <2>2, <2>3 DEF Next
<1> QED BY <1>3, <1>5, <1>6, <1>14

\* While the service lives an event of the payment provider is credited once,
\* however its deliveries overlap, for any number of requests, kills, torn
\* lines and offline mints (control-server.js, the payment webhook).
THEOREM TopUpsCredited == Spec => TopUpOnce
<1>1. Init => FileShape /\ MutexHeld
  <2> SUFFICES ASSUME Init PROVE FileShape /\ MutexHeld
    OBVIOUS
  <2>1. chain \in Seq(Client) /\ DOMAIN req = Client /\ \A c \in Client : req[c] = Idle
    BY DEF Init
  <2> QED BY <2>1, InitShape DEF MutexHeld, Idle
<1>2. FileShape /\ MutexHeld /\ [Next]_vars => (FileShape /\ MutexHeld)'
  BY NextIsFileStep, ShapeStep, MutexStep
<1>3. FileShape /\ MutexHeld /\ [Next]_vars /\ (FileShape /\ MutexHeld)' =>
        [\A e \in Event :
           Cardinality({i \in DOMAIN file' : file'[i] # Garbage /\ file'[i].ev = e})
             > Cardinality({i \in DOMAIN file : file[i] # Garbage /\ file[i].ev = e})
           => /\ \A i \in DOMAIN seen : seen[i] # e
              /\ \A c \in Client : req[c] # Idle /\ req[c].pc = "seen" => req[c].q.ev # e]_vars
  BY CreditStep DEF Credited
<1> QED BY <1>1, <1>2, <1>3, PTL DEF Spec, TopUpOnce

-----------------------------------------------------------------------------
(* Types.                                                                  *)

\* What is typed of a request: how far it may have come for what it asks.
ReqTyped(c) ==
  \/ req[c] = Idle
  \/ /\ req[c] = [pc |-> req[c].pc, q |-> req[c].q]
     /\ req[c].q \in Requests
     /\ req[c].pc \in {"queued", "panel", "seen", "remove"}
     /\ req[c].pc = "seen" => req[c].q.op = "topup"
     /\ req[c].pc = "remove" => req[c].q.op = "delete" /\ req[c].q.to # Root

LinesTyped(f) == \A i \in 1..Len(f) : f[i] = Garbage \/ IsLine(f[i])

TypeInv ==
  /\ FileShape /\ MutexHeld
  /\ LinesTyped(file)
  /\ bal \in [Principal -> Int]
  /\ principals \subseteq Principal /\ Root \in principals
  /\ seen \in Seq(Event)
  /\ \A c \in Client : ReqTyped(c)

LEMMA AtWork ==
  ASSUME TypeInv, NEW c \in Client, req[c].pc # "idle"
  PROVE  /\ req[c].q \in Requests
         /\ req[c].pc = "seen" => req[c].q.op = "topup"
         /\ req[c].pc = "remove" => req[c].q.op = "delete" /\ req[c].q.to # Root
<1>1. ReqTyped(c)
  BY DEF TypeInv
<1>2. Idle.pc = "idle"
  BY DEF Idle
<1> QED BY <1>1, <1>2 DEF ReqTyped

LEMMA RequestFields ==
  ASSUME NEW q \in Requests
  PROVE  /\ q.op \in AllOps
         /\ q.op # "spend" => q.to \in Principal
         /\ q.op # "topup" => q.me \in Principal
         /\ q.op \in {"mint", "transfer", "reclaim", "spend", "topup"} => q.n \in Nat \ {0}
         /\ q.op = "adjust" => q.n \in Adjusts /\ q.n \in Int
         /\ q.op = "topup" => q.ev \in Event
<1>1. CASE q \in [op : {"mint"}, me : AdminTier, to : Principal, n : Amounts]
  BY <1>1, PrincipalAssumption, AmountAssumption DEF AllOps
<1>2. CASE q \in [op : {"transfer", "reclaim"}, me : Principal, to : Principal, n : Amounts]
  BY <1>2, AmountAssumption DEF AllOps
<1>3. CASE q \in [op : {"adjust"}, me : AdminTier, to : Principal, n : Adjusts]
  BY <1>3, PrincipalAssumption, AmountAssumption DEF AllOps
<1>4. CASE q \in [op : {"delete", "create"}, me : Principal, to : Principal]
  BY <1>4 DEF AllOps
<1>5. CASE q \in [op : {"spend"}, me : Principal \ AdminTier, n : Amounts]
  BY <1>5, AmountAssumption DEF AllOps
<1>6. CASE q \in {[op |-> "topup", ev |-> e, to |-> EventTo[e], n |-> n] : e \in Event, n \in Amounts}
  <2>1. PICK e \in Event, n \in Amounts : q = [op |-> "topup", ev |-> e, to |-> EventTo[e], n |-> n]
    BY <1>6
  <2>2. q.op = "topup" /\ q.ev = e /\ q.to = EventTo[e] /\ q.n = n
    BY <2>1
  <2> QED BY <2>2, EventAssumption, AmountAssumption DEF AllOps
<1> QED BY <1>1, <1>2, <1>3, <1>4, <1>5, <1>6 DEF Requests

LEMMA MoveTyped ==
  ASSUME NEW q \in Requests, q.op # "create", bal \in [Principal -> Int]
  PROVE  Move(q) \in [Principal -> Int]
<1>1. CASE q.op \in {"mint", "adjust", "topup"}
  <2>1. q.n \in Int /\ Move(q) = Credit(q.to, q.n)
    BY <1>1, RequestFields DEF Move
  <2> QED BY <2>1 DEF Credit
<1>2. CASE q.op = "transfer"
  <2>1. q.n \in Int /\ -q.n \in Int /\ Move(q) = Pair(q.me, q.to, q.n)
    BY <1>2, RequestFields DEF Move
  <2> QED BY <2>1 DEF Pair
<1>3. CASE q.op = "reclaim"
  <2>1. q.n \in Int /\ q.to \in Principal /\ Move(q) = Pair(q.to, q.me, Least(q.n, bal[q.to]))
    BY <1>3, RequestFields DEF Move
  <2>2. Least(q.n, bal[q.to]) \in Int /\ -Least(q.n, bal[q.to]) \in Int
    BY <2>1 DEF Least
  <2> QED BY <2>1, <2>2 DEF Pair
<1>4. CASE q.op = "delete"
  <2>1. q.to \in Principal /\ Move(q) = Pair(q.to, q.me, bal[q.to])
    BY <1>4, RequestFields DEF Move
  <2> QED BY <2>1 DEF Pair
<1>5. CASE q.op = "spend"
  <2>1. q.n \in Int /\ -q.n \in Int /\ Move(q) = Credit(q.me, -q.n)
    BY <1>5, RequestFields DEF Move
  <2> QED BY <2>1 DEF Credit
<1> QED BY <1>1, <1>2, <1>3, <1>4, <1>5, RequestFields DEF AllOps

\* The line of a request at its append.
LEMMA TxTyped ==
  ASSUME TypeInv, NEW c \in Client, AtAppend(c)
  PROVE  /\ IsLine(TxOf(req[c].q)) /\ TxOf(req[c].q).move = Move(req[c].q)
         /\ req[c].q \in Requests /\ req[c].q.op # "create"
<1> DEFINE q == req[c].q
           l == TxOf(q)
<1>1. req[c].pc \in {"queued", "panel"}
  BY DEF AtAppend
<1>2. q \in Requests
  BY <1>1, AtWork
<1>3. q.op # "create"
  BY DEF AtAppend, WritesLine, TypeInv, MutexHeld
<1>4. /\ l = Line(nextSeq, Move(q), IF q.op = "topup" THEN q.ev ELSE NoEvent)
      /\ l.seq = nextSeq /\ l.move = Move(q)
      /\ l.ev = IF q.op = "topup" THEN q.ev ELSE NoEvent
  BY DEF TxOf, Line
<1>5. l.ev \in Event \union {NoEvent} /\ l.move \in [Principal -> Int] /\ l.seq \in Nat \ {0}
  BY <1>2, <1>3, <1>4, RequestFields, MoveTyped DEF TypeInv, FileShape
<1> HIDE DEF q, l
<1>6. IsLine(l)
  BY <1>4, <1>5 DEF IsLine
<1> QED BY <1>2, <1>3, <1>4, <1>6 DEF q, l

LEMMA LinesKept ==
  ASSUME NEW f, NEW g, NEW l, LinesTyped(f), KeptOrNew(g, f, l), l = Garbage \/ IsLine(l)
  PROVE  LinesTyped(g)
BY DEF LinesTyped, KeptOrNew

LEMMA ScanTyped ==
  ASSUME FileShape, LinesTyped(file)
  PROVE  /\ LinesTyped(DropTail.lines) /\ IsFile(DropTail.lines)
         /\ \A p \in Principal : BalanceIn(DropTail.lines, p) \in Int
<1>1. /\ IsFile(DropTail.lines)
      /\ \A i \in 1..Len(DropTail.lines) : DropTail.lines[i] = file[i] /\ i \in 1..Len(file)
  BY DroppedTail, DroppedSeqs DEF FileShape
<1>2. LinesTyped(DropTail.lines)
  BY <1>1 DEF LinesTyped
<1>3. ASSUME NEW p \in Principal, NEW i \in 1..Len(DropTail.lines)
      PROVE  Share(DropTail.lines[i], p) \in Int
  BY <1>2 DEF LinesTyped, Share, IsLine
<1> QED BY <1>1, <1>2, <1>3, BalanceIsInt

\* The CLI writes a line of the right type.
LEMMA CliTyped ==
  ASSUME TypeInv, CliMint
  PROVE  LinesTyped(file')
<1>1. PICK p \in principals, n \in Amounts :
        file' = GluedTo(DropTail, Line(NextSeqOf(DropTail.lines), Credit(p, n), NoEvent))
  BY DEF CliMint
<1> DEFINE l == Line(NextSeqOf(DropTail.lines), Credit(p, n), NoEvent)
<1>2. n \in Int /\ Credit(p, n) \in [Principal -> Int]
  BY AmountAssumption DEF Credit
<1>3. NextSeqOf(DropTail.lines) \in Nat \ {0}
  BY NextAbove DEF CliMint, TypeInv
<1>4. /\ l.seq = NextSeqOf(DropTail.lines) /\ l.move = Credit(p, n) /\ l.ev = NoEvent
  BY DEF Line
<1>5. IsLine(l)
  BY <1>2, <1>3, <1>4 DEF IsLine
<1>6. LinesTyped(DropTail.lines)
  BY ScanTyped DEF TypeInv
<1>7. DropTail = [lines |-> DropTail.lines, open |-> DropTail.open]
  BY DEF DropTail
<1>8. /\ IsFile(DropTail.lines) /\ DropTail.open \in BOOLEAN
      /\ DropTail.open => DropTail.lines # <<>>
  BY DroppedTail DEF TypeInv, FileShape
<1>9. file' = GluedTo(DropTail, l)
  BY <1>1
<1> HIDE DEF l
<1>10. KeptOrNew(file', DropTail.lines, l)
  BY <1>7, <1>8, <1>9, GluedKeeps
<1> QED BY <1>5, <1>6, <1>10, LinesKept

LEMMA TypeInvStep == TypeInv /\ [Next]_vars => TypeInv'
<1> SUFFICES ASSUME TypeInv, [Next]_vars PROVE TypeInv'
  OBVIOUS
<1>0. FileShape' /\ MutexHeld' /\ FileShape /\ MutexHeld /\ DOMAIN req = Client
  BY NextIsFileStep, ShapeStep, MutexStep DEF TypeInv, MutexHeld
<1> DEFINE Data == UNCHANGED <<file, bal, principals, seen>>
<1>1. ASSUME NEW c \in Client, Data, NEW r, req' = [req EXCEPT ![c] = r], ReqTyped(c)'
      PROVE  TypeInv'
  <2>1. \A d \in Client : d # c => req'[d] = req[d]
    BY <1>0, <1>1
  <2>2. \A d \in Client : ReqTyped(d)'
    BY <1>1, <2>1 DEF TypeInv, ReqTyped
  <2> QED BY <1>0, <1>1, <2>2 DEF TypeInv
<1>2. ASSUME NEW c \in Client, req' = [req EXCEPT ![c] = Idle],
             LinesTyped(file'), bal' \in [Principal -> Int],
             principals' \subseteq Principal, Root \in principals', seen' \in Seq(Event)
      PROVE  TypeInv'
  <2>1. \A d \in Client : d # c => req'[d] = req[d]
    BY <1>0, <1>2
  <2>2. req'[c] = Idle
    BY <1>0, <1>2
  <2>3. \A d \in Client : ReqTyped(d)'
    BY <2>1, <2>2 DEF TypeInv, ReqTyped
  <2> QED BY <1>0, <1>2, <2>3 DEF TypeInv
<1>3. ASSUME NEW c \in Client, Arrive(c) PROVE TypeInv'
  <2>1. PICK q \in Requests : req' = [req EXCEPT ![c] = [pc |-> "queued", q |-> q]]
    BY <1>3 DEF Arrive
  <2>2. req'[c] = [pc |-> "queued", q |-> q]
    BY <1>0, <2>1
  <2>3. ReqTyped(c)'
    BY <2>2 DEF ReqTyped
  <2>4. Data
    BY <1>3 DEF Arrive
  <2> QED BY <1>1, <2>1, <2>3, <2>4
<1>4. ASSUME NEW c \in Client, Refuse(c) \/ PanelRefuses(c) PROVE TypeInv'
  <2>1. Data /\ req' = [req EXCEPT ![c] = Idle]
    BY <1>4 DEF Refuse, PanelRefuses, Failed
  <2> QED BY <1>2, <2>1 DEF TypeInv
<1>5. ASSUME NEW c \in Client, AskPanel(c) PROVE TypeInv'
  <2>1. Data /\ req' = [req EXCEPT ![c] = [pc |-> "panel", q |-> req[c].q]]
        /\ req[c].pc = "queued"
    BY <1>5 DEF AskPanel
  <2>2. req'[c] = [pc |-> "panel", q |-> req[c].q] /\ req[c].q \in Requests
    BY <1>0, <2>1, AtWork
  <2>3. ReqTyped(c)'
    BY <2>2 DEF ReqTyped
  <2> QED BY <1>1, <2>1, <2>3
<1>6. ASSUME NEW c \in Client, RunAppend(c) PROVE TypeInv'
  <2> DEFINE q == req[c].q
             l == TxOf(req[c].q)
  <2>1. AtAppend(c) /\ AppendReturns(l) /\ AfterAppend(c) /\ UNCHANGED <<seen, principals>>
    BY <1>6 DEF RunAppend
  <2>2. IsLine(l) /\ q \in Requests
    BY <2>1, TxTyped
  <2>3. LinesTyped(file')
    <3>1. file' = Glued(l)
      BY <2>1 DEF AppendReturns
    <3> HIDE DEF l
    <3>2. KeptOrNew(file', file, l)
      BY <1>0, <3>1, GluedShape
    <3> QED BY <2>2, <3>2, LinesKept DEF TypeInv
  <2>4. bal' \in [Principal -> Int]
    <3>1. bal' = [p \in Principal |-> bal[p] + l.move[p]]
      BY <2>1 DEF AppendReturns, BalancesAfter
    <3>2. l.move \in [Principal -> Int]
      BY <2>2 DEF IsLine
    <3> HIDE DEF l
    <3> QED BY <3>1, <3>2 DEF TypeInv
  <2>5. q.op = "delete" => q.to # Root
    <3>1. q.op = "delete" => Accepted(q)
      BY <1>0, <2>1 DEF AtAppend, MutexHeld
    <3> QED BY <3>1 DEF Accepted, CanManage
  <2>6. CASE Done(c)
    BY <1>2, <2>1, <2>3, <2>4, <2>6 DEF TypeInv, Done
  <2>7. ASSUME NEW pc \in {"seen", "remove"}, req' = [req EXCEPT ![c] = [pc |-> pc, q |-> q]],
               pc = "seen" => q.op = "topup", pc = "remove" => q.op = "delete"
        PROVE  TypeInv'
    <3>1. req'[c] = [pc |-> pc, q |-> q] /\ \A d \in Client : d # c => req'[d] = req[d]
      BY <1>0, <2>7
    <3> HIDE DEF l
    <3>2. ReqTyped(c)'
      BY <2>2, <2>5, <2>7, <3>1 DEF ReqTyped
    <3>3. \A d \in Client : ReqTyped(d)'
      BY <3>1, <3>2 DEF TypeInv, ReqTyped
    <3> QED BY <1>0, <2>1, <2>3, <2>4, <3>3 DEF TypeInv
  <2> QED BY <2>1, <2>6, <2>7 DEF AfterAppend
<1>7. ASSUME NEW c \in Client, RunAppendFails(c) PROVE TypeInv'
  <2>1. req' = [req EXCEPT ![c] = Idle] /\ UNCHANGED <<bal, principals, seen>>
        /\ (file' = file \/ file' = Glued(Garbage))
    BY <1>7 DEF RunAppendFails, Failed, Throws
  <2>2. LinesTyped(file')
    BY <1>0, <2>1, GluedShape, LinesKept DEF TypeInv
  <2> QED BY <1>2, <2>1, <2>2 DEF TypeInv
<1>8. ASSUME NEW c \in Client, RunNoLine(c) PROVE TypeInv'
  <2> DEFINE q == req[c].q
  <2>1. /\ req[c].pc = "queued" /\ Accepted(q) /\ ~WritesLine(q)
        /\ principals' = IF q.op = "create" THEN principals \union {q.to} ELSE principals \ {q.to}
        /\ req' = [req EXCEPT ![c] = Idle] /\ UNCHANGED <<file, bal, seen>>
    BY <1>8 DEF RunNoLine, Done
  <2>2. q \in Requests
    BY <2>1, AtWork
  <2>3. q.op = "create" \/ (q.op = "delete" /\ q.to # Root)
    BY <2>1 DEF WritesLine, Accepted, CanManage
  <2>4. q.op # "spend" /\ q.to \in Principal
    BY <2>2, <2>3, RequestFields
  <2>5. principals' \subseteq Principal /\ Root \in principals'
    BY <2>1, <2>3, <2>4 DEF TypeInv
  <2> QED BY <1>2, <2>1, <2>5 DEF TypeInv
<1>9. ASSUME NEW c \in Client, RemovePrincipal(c) PROVE TypeInv'
  <2>1. /\ req[c].pc = "remove" /\ principals' = principals \ {req[c].q.to}
        /\ req' = [req EXCEPT ![c] = Idle] /\ UNCHANGED <<file, bal, seen>>
    BY <1>9 DEF RemovePrincipal, Done
  <2>2. req[c].q.to # Root
    BY <2>1, AtWork
  <2> QED BY <1>2, <2>1, <2>2 DEF TypeInv
<1>10. ASSUME NEW c \in Client, NoteSeen(c) PROVE TypeInv'
  <2>1. /\ req[c].pc = "seen" /\ seen' = Pruned(Append(seen, req[c].q.ev))
        /\ req' = [req EXCEPT ![c] = Idle] /\ UNCHANGED <<file, bal, principals>>
    BY <1>10 DEF NoteSeen, Done
  <2>2. req[c].q.ev \in Event
    BY <2>1, AtWork, RequestFields
  <2>3. seen' \in Seq(Event)
    <3> DEFINE s == Append(seen, req[c].q.ev)
    <3>1. s \in Seq(Event)
      BY <2>2, AppendProperties DEF TypeInv
    <3>2. seen' = SubSeq(s, Len(s) - Least(Len(s), EventsMax) + 1, Len(s))
      BY <2>1 DEF Pruned
    <3> HIDE DEF s
    <3>3. Len(s) \in Nat /\ \A i \in 1..Len(s) : s[i] \in Event
      BY <3>1
    <3>4. Least(Len(s), EventsMax) \in Nat /\ Least(Len(s), EventsMax) <= Len(s)
      BY <3>3, BoundsAssumption DEF Least
    <3> DEFINE m == Len(s) - Least(Len(s), EventsMax) + 1
    <3>5. m \in Int /\ 1 <= m
      BY <3>3, <3>4
    <3> HIDE DEF m
    <3>6. SubSeq(s, m, Len(s)) \in Seq(Event)
      BY <3>3, <3>5, SubSeqProperties
    <3> QED BY <3>2, <3>6 DEF m
  <2> QED BY <1>2, <2>1, <2>3 DEF TypeInv
<1>11. ASSUME Die, LinesTyped(file') PROVE TypeInv'
  <2>1. /\ bal' = [p \in Principal |-> 0] /\ \A c \in Client : req'[c] = Idle
        /\ UNCHANGED <<seen, principals>>
    BY <1>11 DEF Die, ZeroBalances
  <2>2. bal' \in [Principal -> Int] /\ \A c \in Client : ReqTyped(c)'
    BY <2>1 DEF ReqTyped
  <2> QED BY <1>0, <1>11, <2>1, <2>2 DEF TypeInv
<1>12. ASSUME NEW c \in Client, CrashInAppend(c) PROVE TypeInv'
  <2>1. AtAppend(c) /\ Die /\ (file' = Glued(TxOf(req[c].q)) \/ file' = Glued(Garbage))
    BY <1>12 DEF CrashInAppend
  <2>2. IsLine(TxOf(req[c].q))
    BY <2>1, TxTyped
  <2>3. LinesTyped(file')
    BY <1>0, <2>1, <2>2, GluedShape, LinesKept DEF TypeInv
  <2> QED BY <1>11, <2>1, <2>3
<1>13. CASE Crash
  BY <1>11, <1>13 DEF Crash, TypeInv
<1>14. CASE Boot
  <2>1. /\ file' = DropTail.lines /\ UNCHANGED <<seen, principals, req>>
        /\ bal' = [p \in Principal |-> BalanceIn(DropTail.lines, p)]
    BY <1>14 DEF Boot
  <2>2. bal' \in [Principal -> Int] /\ LinesTyped(file')
    BY <2>1, ScanTyped DEF TypeInv
  <2>3. \A c \in Client : ReqTyped(c)'
    BY <2>1 DEF TypeInv, ReqTyped
  <2> QED BY <1>0, <2>1, <2>2, <2>3 DEF TypeInv
<1>15. CASE CliMint
  <2>1. LinesTyped(file') /\ UNCHANGED <<seen, principals, req, bal>>
    BY <1>15, CliTyped DEF CliMint
  <2>2. \A c \in Client : ReqTyped(c)'
    BY <2>1 DEF TypeInv, ReqTyped
  <2> QED BY <1>0, <2>1, <2>2 DEF TypeInv
<1>16. CASE UNCHANGED vars
  <2>1. \A c \in Client : ReqTyped(c)'
    BY <1>16 DEF TypeInv, ReqTyped, vars
  <2> QED BY <1>0, <1>16, <2>1 DEF TypeInv, vars
<1> QED BY <1>3, <1>4, <1>5, <1>6, <1>7, <1>8, <1>9, <1>10, <1>12, <1>13, <1>14, <1>15, <1>16
        DEF Next, Serve

LEMMA TypeInvInit == Init => TypeInv
<1> SUFFICES ASSUME Init PROVE TypeInv
  OBVIOUS
<1>1. FileShape /\ file = <<>> /\ \A c \in Client : req[c] = Idle
  BY InitShape DEF Init
<1>2. Len(file) = 0
  BY <1>1, FileLength DEF FileShape
<1>3. MutexHeld
  <2>1. chain \in Seq(Client) /\ DOMAIN req = Client
    BY DEF Init
  <2> QED BY <1>1, <2>1 DEF MutexHeld, Idle
<1>4. LinesTyped(file) /\ seen \in Seq(Event)
  BY <1>2 DEF LinesTyped, Init
<1>5. bal \in [Principal -> Int] /\ principals = Principal /\ Root \in Principal
  BY PrincipalAssumption DEF Init, ZeroBalances
<1>6. \A c \in Client : ReqTyped(c)
  BY <1>1 DEF ReqTyped
<1> QED BY <1>1, <1>3, <1>4, <1>5, <1>6 DEF TypeInv

\* The state keeps its types: a request that waits is one a client can make,
\* the root admin is never deleted, and a line is a transaction or a fragment.
THEOREM TypeInvariant == Spec => []TypeOK
<1>1. TypeInv => TypeOK
  <2> SUFFICES ASSUME TypeInv PROVE TypeOK
    OBVIOUS
  <2>1. \A i \in 1..Len(file) : file[i] = Garbage \/ IsLine(file[i])
    BY DEF TypeInv, LinesTyped
  <2>2. open \in BOOLEAN /\ up \in BOOLEAN /\ nextSeq \in Nat \ {0}
    BY DEF TypeInv, FileShape
  <2>3. \A i \in DOMAIN chain : chain[i] \in Client
    BY DEF TypeInv, MutexHeld
  <2>4. \A i \in DOMAIN seen : seen[i] \in Event
    BY DEF TypeInv
  <2>5. \A c \in Client : \/ req[c] = Idle
                          \/ req[c] = [pc |-> req[c].pc, q |-> req[c].q]
                             /\ req[c].q \in Requests
                             /\ req[c].pc \in {"queued", "panel", "seen", "remove"}
    BY DEF TypeInv, ReqTyped
  <2> QED BY <2>1, <2>2, <2>3, <2>4, <2>5 DEF TypeOK, TypeInv
<1> QED BY <1>1, TypeInvInit, TypeInvStep, PTL DEF Spec

-----------------------------------------------------------------------------
(* Solvency.                                                               *)

\* Who was found able to pay and waits for the panel still is; a service that
\* is down has no request in flight.
SolvInv ==
  /\ TypeInv /\ MemInv
  /\ NoOverdraft
  /\ \A c \in Client : req[c].pc = "panel" => up /\ bal[req[c].q.me] >= req[c].q.n

\* What a request appends leaves nobody below nothing.
LEMMA Affordable ==
  ASSUME SolvInv, up, Adjusts \subseteq Nat, NEW c \in Client, AtAppend(c), NEW p \in Principal
  PROVE  bal[p] + Move(req[c].q)[p] >= 0
<1> DEFINE q == req[c].q
<1>1. q \in Requests /\ q.op # "create"
  BY TxTyped DEF SolvInv
<1>2. /\ q.op # "spend" => q.to \in Principal
      /\ q.me \in Principal \/ q.op = "topup"
      /\ q.op \in {"mint", "transfer", "reclaim", "spend", "topup", "adjust"} => q.n \in Nat
  BY <1>1, RequestFields
<1>3. \A x \in Principal : bal[x] \in Int /\ bal[x] >= 0
  BY DEF SolvInv, TypeInv, MemInv, NoOverdraft
<1>4. q.op = "spend" => bal[q.me] >= q.n
  BY DEF SolvInv, AtAppend, Accepted
<1>5. q.op # "spend" => Accepted(q)
  BY DEF AtAppend, SolvInv, TypeInv, MutexHeld
<1> SUFFICES bal[p] + Move(q)[p] >= 0
  OBVIOUS
<1> HIDE DEF q
<1>6. CASE q.op \in {"mint", "adjust", "topup"}
  <2>1. Move(q)[p] = IF p = q.to THEN q.n ELSE 0
    BY <1>6 DEF Move, Credit
  <2> QED BY <1>2, <1>3, <1>6, <2>1
<1>7. CASE q.op = "transfer"
  <2>1. Move(q)[p] = IF p = q.me THEN -q.n ELSE IF p = q.to THEN q.n ELSE 0
    BY <1>7 DEF Move, Pair
  <2>2. bal[q.me] >= q.n
    BY <1>5, <1>7 DEF Accepted
  <2> QED BY <1>2, <1>3, <1>7, <2>1, <2>2
<1>8. CASE q.op = "reclaim"
  <2> DEFINE n == Least(q.n, bal[q.to])
  <2>1. Move(q)[p] = IF p = q.to THEN -n ELSE IF p = q.me THEN n ELSE 0
    BY <1>8 DEF Move, Pair
  <2>2. n \in Int /\ 0 <= n /\ n <= bal[q.to]
    BY <1>2, <1>3, <1>8 DEF Least
  <2> HIDE DEF n
  <2> QED BY <1>2, <1>3, <1>8, <2>1, <2>2
<1>9. CASE q.op = "delete"
  <2>1. Move(q)[p] = IF p = q.to THEN -bal[q.to] ELSE IF p = q.me THEN bal[q.to] ELSE 0
    BY <1>9 DEF Move, Pair
  <2> QED BY <1>2, <1>3, <1>9, <2>1
<1>10. CASE q.op = "spend"
  <2>1. Move(q)[p] = IF p = q.me THEN -q.n ELSE 0
    BY <1>10 DEF Move, Credit
  <2> QED BY <1>2, <1>3, <1>4, <1>10, <2>1
<1>11. q.op \in AllOps
  BY <1>1, RequestFields
<1> QED BY <1>1, <1>6, <1>7, <1>8, <1>9, <1>10, <1>11 DEF AllOps

\* Cutting off a bad last line takes no credits.
LEMMA ScanBalance ==
  ASSUME IsFile(file), NEW p
  PROVE  BalanceIn(DropTail.lines, p) = BalanceIn(file, p) \/ ~(BalanceIn(Front(file), p) \in Int)
<1>1. CASE ~TornTail
  BY <1>1 DEF DropTail
<1>2. CASE TornTail
  <2> DEFINE n == Len(file)
             g == Append(Front(file), Garbage)
  <2>1. file # <<>> /\ file[n] = Garbage /\ n \in Nat \ {0}
    BY <1>2, FileLength DEF TornTail, Last
  <2>2. /\ IsFile(Front(file)) /\ Len(Front(file)) = n - 1
        /\ \A i \in 1..(n - 1) : Front(file)[i] = file[i]
    BY <2>1, FrontOfFile
  <2>3. /\ IsFile(g) /\ Len(g) = Len(Front(file)) + 1
        /\ \A i \in 1..Len(Front(file)) : g[i] = Front(file)[i]
        /\ g[Len(Front(file)) + 1] = Garbage
    BY <2>2, AppendToFile
  <2> HIDE DEF n, g
  <2>4. Len(g) = n /\ \A i \in 1..n : g[i] = file[i]
    <3>1. Len(g) = n /\ \A i \in 1..(n - 1) : g[i] = file[i]
      BY <2>1, <2>2, <2>3
    <3>2. g[n] = file[n]
      <4> HIDE DEF Garbage
      <4> QED BY <2>1, <2>2, <2>3
    <3> QED BY <2>1, <3>1, <3>2
  <2>5. PICK s : IsSum(s, Shares(g, p), Len(g)) /\ BalanceIn(g, p) = s[Len(g)]
    BY <2>3, BalanceSum
  <2>6. PICK t : IsSum(t, Shares(file, p), Len(file)) /\ BalanceIn(file, p) = t[Len(file)]
    BY BalanceSum
  <2>7. \A i \in 1..n : Shares(g, p)[i] = Shares(file, p)[i]
    BY <2>4 DEF Shares, n
  <2>8. BalanceIn(g, p) = BalanceIn(file, p)
    <3>1. Len(file) = n /\ n \in Nat /\ n <= n
      BY <2>1 DEF n
    <3> QED BY <2>4, <2>5, <2>6, <2>7, <3>1, SumAgrees
  <2>9. BalanceIn(g, p) = BalanceIn(Front(file), p) + 0
    BY <2>2, BalanceOfAppend DEF g, Share
  <2> QED BY <1>2, <2>8, <2>9 DEF DropTail
<1> QED BY <1>1, <1>2

LEMMA ScanSolvent ==
  ASSUME SolvInv, NEW p \in Principal
  PROVE  BalanceIn(DropTail.lines, p) \in Int /\ BalanceIn(DropTail.lines, p) >= 0
<1>1. BalanceIn(DropTail.lines, p) \in Int
  BY ScanTyped DEF SolvInv, TypeInv
<1>2. IsFile(file) /\ BalanceIn(file, p) >= 0
  BY DEF SolvInv, TypeInv, FileShape, NoOverdraft
<1>3. CASE TornTail
  <2>1. DropTail.lines = Front(file)
    BY <1>3 DEF DropTail
  <2> QED BY <1>1, <1>2, <2>1, ScanBalance
<1>4. CASE ~TornTail
  BY <1>1, <1>2, <1>4 DEF DropTail
<1> QED BY <1>3, <1>4

LEMMA SolvInvStep ==
  ASSUME "tornEnd" \notin Faults, "appendTears" \notin Faults, "cliLive" \notin Faults,
         Adjusts \subseteq Nat, SolvInv, [Next]_vars
  PROVE  SolvInv'
<1>0. /\ TypeInv /\ TypeInv' /\ MemInv /\ MemInv' /\ IsFile(file) /\ DOMAIN req = Client
      /\ NoOverdraft /\ MutexHeld
  <2>1. TypeInv /\ MemInv /\ FileShape /\ NoOverdraft /\ MutexHeld
    BY DEF SolvInv, TypeInv
  <2>2. TypeInv' /\ MemInv'
    BY <2>1, TypeInvStep, NextIsFileStep, MemInvStep
  <2> QED BY <2>1, <2>2 DEF FileShape, MutexHeld
<1>i. Idle.pc # "panel"
  BY DEF Idle
<1>w. \A c \in Client : req[c].pc = "panel" => up /\ bal[req[c].q.me] >= req[c].q.n
  BY DEF SolvInv
<1>1. ASSUME UNCHANGED <<file, up, bal>>, NEW c \in Client, NEW r, req' = [req EXCEPT ![c] = r],
             r.pc = "panel" => up /\ bal[r.q.me] >= r.q.n
      PROVE  SolvInv'
  <2>1. \A d \in Client : req'[d] = req[d] \/ (d = c /\ req'[d] = r)
    BY <1>0, <1>1
  <2>2. \A d \in Client : req'[d].pc = "panel" => up' /\ bal'[req'[d].q.me] >= req'[d].q.n
    BY <1>1, <1>w, <2>1
  <2>3. NoOverdraft'
    BY <1>0, <1>1 DEF NoOverdraft
  <2> QED BY <1>0, <2>2, <2>3 DEF SolvInv
<1>2. ASSUME NEW c \in Client, up, AtAppend(c)
      PROVE  \A p \in Principal : BalanceIn(Glued(TxOf(req[c].q)), p) >= 0
  <2> DEFINE l == TxOf(req[c].q)
  <2>1. IsLine(l) /\ l.move = Move(req[c].q)
    BY <1>0, <1>2, TxTyped
  <2>2. \A p \in Principal : bal[p] + Move(req[c].q)[p] >= 0
    BY <1>2, Affordable
  <2> HIDE DEF l
  <2>3. l # Garbage
    BY <2>1 DEF IsLine, Garbage
  <2>4. Glued(l) = Append(file, l)
    BY <1>0, <1>2, WholeFile DEF Glued, GluedTo, MemInv
  <2>5. ASSUME NEW p \in Principal PROVE BalanceIn(Glued(l), p) >= 0
    <3>1. BalanceIn(Glued(l), p) = BalanceIn(file, p) + Share(l, p)
      BY <1>0, <2>4, BalanceOfAppend
    <3>2. BalanceIn(file, p) = bal[p] /\ Share(l, p) = l.move[p]
      BY <1>0, <1>2, <2>3 DEF MemInv, Share
    <3> QED BY <2>1, <2>2, <3>1, <3>2
  <2> QED BY <2>5 DEF l
<1>3. ASSUME NEW c \in Client, Arrive(c) PROVE SolvInv'
  <2>1. PICK q : req' = [req EXCEPT ![c] = [pc |-> "queued", q |-> q]]
    BY <1>3 DEF Arrive
  <2> DEFINE r == [pc |-> "queued", q |-> q]
  <2>2. req' = [req EXCEPT ![c] = r] /\ r.pc # "panel" /\ UNCHANGED <<file, up, bal>>
    BY <1>3, <2>1 DEF Arrive
  <2> HIDE DEF r
  <2> QED BY <1>1, <2>2
<1>4. ASSUME NEW c \in Client, Refuse(c) \/ PanelRefuses(c) \/ RunNoLine(c)
                               \/ RemovePrincipal(c) \/ NoteSeen(c)
      PROVE  SolvInv'
  <2>1. req' = [req EXCEPT ![c] = Idle] /\ UNCHANGED <<file, up, bal>>
    BY <1>4 DEF Refuse, PanelRefuses, RunNoLine, RemovePrincipal, NoteSeen, Done, Failed
  <2> QED BY <1>1, <1>i, <2>1
<1>5. ASSUME NEW c \in Client, AskPanel(c) PROVE SolvInv'
  <2>1. /\ req' = [req EXCEPT ![c] = [pc |-> "panel", q |-> req[c].q]]
        /\ UNCHANGED <<file, up, bal>> /\ up
        /\ req[c].q.op = "spend" /\ Accepted(req[c].q)
    BY <1>5 DEF AskPanel
  <2>2. bal[req[c].q.me] >= req[c].q.n
    BY <2>1 DEF Accepted
  <2> DEFINE r == [pc |-> "panel", q |-> req[c].q]
  <2>3. r.q = req[c].q /\ req' = [req EXCEPT ![c] = r]
    BY <2>1
  <2> HIDE DEF r
  <2> QED BY <1>1, <2>1, <2>2, <2>3
<1>6. ASSUME NEW c \in Client, RunAppend(c) PROVE SolvInv'
  <2>1. /\ up /\ AtAppend(c) /\ Turn(c) /\ file' = Glued(TxOf(req[c].q)) /\ AfterAppend(c)
    BY <1>6 DEF RunAppend, AppendReturns, AtAppend
  <2>2. NoOverdraft'
    BY <1>2, <2>1 DEF NoOverdraft
  <2>3. \A d \in Client : d # c => req'[d] = req[d] /\ req[d].pc # "panel"
    <3>1. \E r : req' = [req EXCEPT ![c] = r]
      BY <2>1 DEF AfterAppend, Done
    <3>2. \A d \in Client : d # c => req[d] = Idle \/ req[d].pc = "queued"
      BY <1>0, <2>1 DEF MutexHeld, Turn
    <3> QED BY <1>0, <1>i, <3>1, <3>2
  <2>4. req'[c].pc # "panel"
    BY <1>0, <1>i, <2>1 DEF AfterAppend, Done
  <2>5. \A d \in Client : req'[d].pc # "panel"
    BY <2>3, <2>4
  <2> QED BY <1>0, <2>2, <2>5 DEF SolvInv
<1>7. ASSUME NEW c \in Client, RunAppendFails(c) PROVE SolvInv'
  <2>1. req' = [req EXCEPT ![c] = Idle] /\ UNCHANGED <<file, up, bal>>
    BY <1>7 DEF RunAppendFails, Failed, Throws
  <2> QED BY <1>1, <1>i, <2>1
<1>8. ASSUME Die, \A p \in Principal : BalanceIn(file', p) >= 0 PROVE SolvInv'
  <2>1. \A d \in Client : req'[d].pc # "panel"
    BY <1>8, <1>i DEF Die
  <2> QED BY <1>0, <1>8, <2>1 DEF SolvInv, NoOverdraft
<1>9. ASSUME NEW c \in Client, CrashInAppend(c) PROVE SolvInv'
  <2>1. up /\ AtAppend(c) /\ Die /\ (file' = Glued(TxOf(req[c].q)) \/ file' = Glued(Garbage))
    BY <1>9 DEF CrashInAppend
  <2>2. CASE file' = Glued(TxOf(req[c].q))
    BY <1>2, <1>8, <2>1, <2>2
  <2>3. CASE file' = Glued(Garbage)
    <3>1. file' = Append(file, Garbage)
      BY <1>0, <2>1, <2>3, WholeFile DEF Glued, GluedTo, MemInv
    <3>2. ASSUME NEW p \in Principal PROVE BalanceIn(file', p) >= 0
      <4>1. BalanceIn(file', p) = BalanceIn(file, p) + Share(Garbage, p)
        BY <1>0, <3>1, BalanceOfAppend
      <4>2. BalanceIn(file, p) = bal[p] /\ bal[p] \in Int /\ BalanceIn(file, p) >= 0
        BY <1>0, <2>1 DEF MemInv, TypeInv, NoOverdraft
      <4> QED BY <4>1, <4>2 DEF Share
    <3> QED BY <1>8, <2>1, <3>2
  <2> QED BY <2>1, <2>2, <2>3
<1>10. CASE Crash
  BY <1>0, <1>8, <1>10 DEF Crash, NoOverdraft
<1>11. CASE Boot
  <2>1. ~up /\ UNCHANGED req /\ file' = DropTail.lines
    BY <1>11 DEF Boot
  <2>2. NoOverdraft'
    BY <2>1, ScanSolvent DEF NoOverdraft
  <2>3. \A d \in Client : req'[d].pc # "panel"
    BY <1>w, <2>1
  <2> QED BY <1>0, <2>2, <2>3 DEF SolvInv
<1>12. CASE CliMint
  <2>1. ~up /\ UNCHANGED req /\ Scans
    BY <1>12 DEF CliMint
  <2>2. PICK p \in principals, n \in Amounts :
          file' = GluedTo(DropTail, Line(NextSeqOf(DropTail.lines), Credit(p, n), NoEvent))
    BY <1>12 DEF CliMint
  <2> DEFINE l == Line(NextSeqOf(DropTail.lines), Credit(p, n), NoEvent)
  <2>3. DropTail.open = FALSE
    BY <1>0, <2>1, ScanKeeps DEF MemInv
  <2>4. file' = Append(DropTail.lines, l)
    BY <2>2, <2>3 DEF GluedTo
  <2>5. l # Garbage /\ l.move = Credit(p, n)
    <3>1. NextSeqOf(DropTail.lines) # 0
      BY <1>0, <2>1, NextAbove DEF TypeInv
    <3> QED BY <3>1, LineFacts DEF Line
  <2> HIDE DEF l
  <2>6. ASSUME NEW x \in Principal PROVE BalanceIn(file', x) >= 0
    <3>1. IsFile(DropTail.lines)
      BY <1>0, ScanTyped DEF TypeInv
    <3>2. BalanceIn(file', x) = BalanceIn(DropTail.lines, x) + Share(l, x)
      BY <2>4, <3>1, BalanceOfAppend
    <3>3. Share(l, x) = IF x = p THEN n ELSE 0
      BY <2>5 DEF Share, Credit
    <3>4. n \in Nat
      BY AmountAssumption
    <3> QED BY <3>2, <3>3, <3>4, ScanSolvent
  <2>7. \A d \in Client : req'[d].pc # "panel"
    BY <1>w, <2>1
  <2> QED BY <1>0, <2>6, <2>7 DEF SolvInv, NoOverdraft
<1>13. CASE UNCHANGED vars
  BY <1>0, <1>13, <1>w DEF SolvInv, NoOverdraft, vars
<1> QED BY <1>3, <1>4, <1>5, <1>6, <1>7, <1>9, <1>10, <1>11, <1>12, <1>13 DEF Next, Serve

\* The ledger shows nobody below nothing, after any history of transfers,
\* reclaims, deletions and spends that wait for the panel, of kills in them,
\* torn lines and offline mints (ledger.js:5-8), provided a correction takes
\* nothing and the file is cut at whole lines by nobody but the service.
THEOREM Solvency ==
  ASSUME "tornEnd" \notin Faults, "appendTears" \notin Faults, "cliLive" \notin Faults,
         Adjusts \subseteq Nat
  PROVE  Spec => []NoOverdraft
<1>1. Init => SolvInv
  <2> SUFFICES ASSUME Init PROVE SolvInv
    OBVIOUS
  <2>1. TypeInv /\ MemInv
    BY TypeInvInit, MemInvInit
  <2>2. NoOverdraft
    BY BalanceOfNone DEF Init, NoOverdraft
  <2>3. \A c \in Client : req[c].pc # "panel"
    BY DEF Init, Idle
  <2> QED BY <2>1, <2>2, <2>3 DEF SolvInv
<1>2. SolvInv /\ [Next]_vars => SolvInv'
  BY SolvInvStep
<1>3. SolvInv => NoOverdraft
  BY DEF SolvInv
<1> QED BY <1>1, <1>2, <1>3, PTL DEF Spec

-----------------------------------------------------------------------------
(* What is answered as a duplicate was credited.                            *)

\* A transaction the service was told of credits the event.
Told(e) == \E l \in acked : l.ev = e

\* An event that was noted, or is being noted, was credited by a line whose
\* append returned.
NotedInv ==
  /\ TypeInv
  /\ \A i \in DOMAIN seen : Told(seen[i])
  /\ \A c \in Client : req[c].pc = "seen" => Told(req[c].q.ev)

\* What is kept of the noted events is among them, or the one just noted.
LEMMA PrunedIn ==
  ASSUME NEW s \in Seq(Event), NEW e \in Event
  PROVE  \A i \in DOMAIN Pruned(Append(s, e)) :
           \/ Pruned(Append(s, e))[i] = e
           \/ \E j \in DOMAIN s : Pruned(Append(s, e))[i] = s[j]
<1> DEFINE t == Append(s, e)
           m == Len(t) - Least(Len(t), EventsMax) + 1
<1>1. /\ t \in Seq(Event) /\ Len(t) = Len(s) + 1 /\ Len(s) \in Nat
      /\ DOMAIN s = 1..Len(s)
      /\ \A i \in 1..Len(s) : t[i] = s[i]
      /\ t[Len(s) + 1] = e
  OBVIOUS
<1> HIDE DEF t
<1>2. m \in Int /\ 1 <= m
  BY <1>1, BoundsAssumption DEF Least
<1> HIDE DEF m
<1>3. /\ DOMAIN SubSeq(t, m, Len(t)) = 1..Len(SubSeq(t, m, Len(t)))
      /\ \A i \in 1..Len(SubSeq(t, m, Len(t))) :
           SubSeq(t, m, Len(t))[i] = t[m + i - 1] /\ m + i - 1 \in 1..Len(t)
  <2>1. SubSeq(t, m, Len(t)) = [i \in 1..(1 + Len(t) - m) |-> t[i + m - 1]]
    BY <1>1, <1>2
  <2>2. 1 + Len(t) - m \in Int
    BY <1>1, <1>2
  <2>3. Len(SubSeq(t, m, Len(t))) = IF m <= Len(t) THEN 1 + Len(t) - m ELSE 0
    BY <1>1, <1>2
  <2> QED BY <1>1, <1>2, <2>1, <2>2, <2>3
<1>4. ASSUME NEW k \in 1..Len(t) PROVE t[k] = e \/ \E j \in DOMAIN s : t[k] = s[j]
  <2>1. k = Len(s) + 1 \/ k \in 1..Len(s)
    BY <1>1
  <2> QED BY <1>1, <2>1
<1>5. Pruned(t) = SubSeq(t, m, Len(t))
  BY DEF Pruned, m
<1>6. ASSUME NEW i \in DOMAIN Pruned(t)
      PROVE  Pruned(t)[i] = e \/ \E j \in DOMAIN s : Pruned(t)[i] = s[j]
  <2>1. i \in 1..Len(SubSeq(t, m, Len(t)))
    BY <1>3, <1>5, <1>6
  <2>2. Pruned(t)[i] = t[m + i - 1] /\ m + i - 1 \in 1..Len(t)
    BY <1>3, <1>5, <2>1
  <2> QED BY <1>4, <2>2
<1> QED BY <1>6 DEF t

LEMMA NotedStep == NotedInv /\ [Next]_vars => NotedInv'
<1> SUFFICES ASSUME NotedInv, [Next]_vars PROVE NotedInv'
  OBVIOUS
<1>0. TypeInv /\ TypeInv' /\ DOMAIN req = Client
  BY TypeInvStep DEF NotedInv, TypeInv, MutexHeld
<1>i. Idle.pc = "idle"
  BY DEF Idle
<1>1. acked \subseteq acked'
  BY DEF Next, Arrive, Serve, Refuse, AskPanel, PanelRefuses, RunAppend, AppendReturns,
     RunAppendFails, RunNoLine, RemovePrincipal, NoteSeen, CrashInAppend, Crash, Die, Boot,
     CliMint, vars
<1>2. \A e : Told(e) => \E l \in acked' : l.ev = e
  BY <1>1 DEF Told
<1>3. ASSUME UNCHANGED seen,
             \A c \in Client : req'[c].pc = "seen" => \/ req'[c] = req[c]
                                                      \/ \E l \in acked' : l.ev = req'[c].q.ev
      PROVE  NotedInv'
  <2>1. \A i \in DOMAIN seen' : \E l \in acked' : l.ev = seen'[i]
    BY <1>2, <1>3 DEF NotedInv
  <2>2. \A c \in Client : req'[c].pc = "seen" => \E l \in acked' : l.ev = req'[c].q.ev
    BY <1>2, <1>3 DEF NotedInv
  <2> QED BY <1>0, <2>1, <2>2 DEF NotedInv, Told
<1>4. ASSUME NEW c \in Client, Arrive(c) PROVE NotedInv'
  <2>1. PICK q : req' = [req EXCEPT ![c] = [pc |-> "queued", q |-> q]]
    BY <1>4 DEF Arrive
  <2>2. \A d \in Client : req'[d].pc = "seen" => req'[d] = req[d]
    BY <1>0, <2>1
  <2> QED BY <1>3, <1>4, <2>2 DEF Arrive
<1>5. ASSUME NEW c \in Client, Refuse(c) \/ PanelRefuses(c) \/ RunAppendFails(c) \/ RunNoLine(c)
                               \/ RemovePrincipal(c)
      PROVE  NotedInv'
  <2>1. req' = [req EXCEPT ![c] = Idle] /\ UNCHANGED seen
    BY <1>5 DEF Refuse, PanelRefuses, RunAppendFails, RunNoLine, RemovePrincipal, Done, Failed
  <2> QED BY <1>0, <1>3, <1>i, <2>1
<1>6. ASSUME NEW c \in Client, AskPanel(c) PROVE NotedInv'
  <2>1. req' = [req EXCEPT ![c] = [pc |-> "panel", q |-> req[c].q]] /\ UNCHANGED seen
    BY <1>6 DEF AskPanel
  <2>2. \A d \in Client : req'[d].pc = "seen" => req'[d] = req[d]
    BY <1>0, <2>1
  <2> QED BY <1>3, <2>1, <2>2
<1>7. ASSUME NEW c \in Client, RunAppend(c) PROVE NotedInv'
  <2> DEFINE l == TxOf(req[c].q)
  <2>1. l \in acked' /\ AfterAppend(c) /\ UNCHANGED seen
    BY <1>7 DEF RunAppend, AppendReturns
  <2>2. /\ \A d \in Client : d # c => req'[d] = req[d]
        /\ req'[c].pc = "seen" => req'[c].q = req[c].q /\ req[c].q.op = "topup"
    BY <1>0, <1>i, <2>1 DEF AfterAppend, Done
  <2>3. req[c].q.op = "topup" => l.ev = req[c].q.ev
    BY DEF TxOf, Line
  <2> HIDE DEF l
  <2>4. req'[c].pc = "seen" => \E k \in acked' : k.ev = req'[c].q.ev
    BY <2>1, <2>2, <2>3
  <2> QED BY <1>3, <2>1, <2>2, <2>4
<1>8. ASSUME NEW c \in Client, NoteSeen(c) PROVE NotedInv'
  <2>1. /\ req[c].pc = "seen" /\ seen' = Pruned(Append(seen, req[c].q.ev))
        /\ req' = [req EXCEPT ![c] = Idle]
    BY <1>8 DEF NoteSeen, Done
  <2>2. req[c].q.ev \in Event /\ seen \in Seq(Event)
    BY <1>0, <2>1, AtWork, RequestFields DEF TypeInv
  <2>3. \A i \in DOMAIN seen' : seen'[i] = req[c].q.ev \/ \E j \in DOMAIN seen : seen'[i] = seen[j]
    BY <2>1, <2>2, PrunedIn
  <2>4. \A i \in DOMAIN seen' : \E l \in acked' : l.ev = seen'[i]
    BY <1>2, <2>1, <2>3 DEF NotedInv
  <2>5. \A d \in Client : req'[d].pc = "seen" => \E l \in acked' : l.ev = req'[d].q.ev
    BY <1>0, <1>2, <1>i, <2>1 DEF NotedInv
  <2> QED BY <1>0, <2>4, <2>5 DEF NotedInv, Told
<1>9. ASSUME Die PROVE NotedInv'
  BY <1>3, <1>9, <1>i DEF Die
<1>10. CASE Boot \/ CliMint \/ UNCHANGED vars
  BY <1>3, <1>10 DEF Boot, CliMint, vars
<1> QED BY <1>4, <1>5, <1>6, <1>7, <1>8, <1>9, <1>10 DEF Next, Serve, CrashInAppend, Crash

\* An event the service will answer as a duplicate is credited in the file,
\* through any kills, repairs and failed appends: the note is written last
\* (control-server.js, the payment webhook), provided a line on disk has its
\* newline and a failed append wrote nothing.
THEOREM DuplicatesCredited ==
  ASSUME "tornEnd" \notin Faults, "appendTears" \notin Faults
  PROVE  Spec => []TopUpCredited
<1>1. Init => NotedInv
  <2> SUFFICES ASSUME Init PROVE NotedInv
    OBVIOUS
  <2>1. TypeInv
    BY TypeInvInit
  <2>2. DOMAIN seen = {} /\ \A c \in Client : req[c].pc # "seen"
    BY DEF Init, Idle
  <2> QED BY <2>1, <2>2 DEF NotedInv
<1>2. NotedInv /\ [Next]_vars => NotedInv'
  BY NotedStep
<1>3. NotedInv /\ TailInv => TopUpCredited
  BY DEF NotedInv, TailInv, AckedSurvives, Told, TopUpCredited
<1> QED BY <1>1, <1>2, <1>3, TailInvariant, PTL DEF Spec

-----------------------------------------------------------------------------
(* Credits belong to somebody.                                             *)

\* There is one admin; no principal is made under another than that one, or
\* none is made at all; and no payment is taken for a principal.
OneAdmin ==
  /\ AdminTier = {Root} /\ Parent[Root] \notin Principal
  /\ "topup" \notin Ops
  /\ "create" \notin Ops \/ \A p \in Principal \ {Root} : Parent[p] = Root

\* Nobody whose parent is in the hierarchy outlives it there.
Rooted == \A p \in principals : Parent[p] \in Principal => Parent[p] \in principals

\* A deletion past its append has nothing left to leave behind, and no child.
Leaving(c) ==
  /\ up /\ BalanceIn(file, req[c].q.to) = 0
  /\ \A p \in principals : Parent[p] # req[c].q.to

OwnInv ==
  /\ SolvInv
  /\ CreditsHaveAnOwner
  /\ Rooted
  /\ \A c \in Client : req[c].pc # "idle" => req[c].q.op \in Ops
  /\ \A c \in Client : req[c].pc = "remove" => Leaving(c)

\* Who has a child in the hierarchy is in it.
LEMMA ParentThere ==
  ASSUME OneAdmin, OwnInv, NEW me \in Principal, NEW to \in principals,
         me \in AdminTier \/ Parent[to] = me
  PROVE  me \in principals
  BY DEF OneAdmin, OwnInv, Rooted, SolvInv, TypeInv

\* An accepted request moves nothing to or from who is not in the hierarchy,
\* though it authenticated before it queued; and a deletion takes all.
LEMMA MovesOfOwners ==
  ASSUME OneAdmin, OwnInv, up, NEW c \in Client, AtAppend(c)
  PROVE  /\ \A p \in Principal \ principals : Move(req[c].q)[p] = 0
         /\ req[c].q.op = "delete" => /\ req[c].q.to \in principals \ {Root}
                                      /\ Move(req[c].q)[req[c].q.to] = -bal[req[c].q.to]
                                      /\ \A p \in principals : Parent[p] # req[c].q.to
<1> DEFINE q == req[c].q
<1>0. SolvInv /\ TypeInv /\ MemInv /\ CreditsHaveAnOwner /\ principals \subseteq Principal
  BY DEF OwnInv, SolvInv, TypeInv
<1>1. q \in Requests /\ q.op # "create"
  BY <1>0, TxTyped
<1>2. /\ q.op # "spend" => q.to \in Principal
      /\ q.me \in Principal \/ q.op = "topup"
      /\ q.op \in {"transfer", "spend"} => q.n \in Nat \ {0}
  BY <1>1, RequestFields
<1>3. q.op \in Ops /\ q.op # "topup"
  BY DEF AtAppend, OwnInv, OneAdmin
<1>4. \A p \in Principal \ principals : bal[p] = 0
  BY <1>0 DEF CreditsHaveAnOwner, MemInv
<1>5. q.op = "spend" => bal[q.me] >= q.n
  BY <1>0 DEF SolvInv, AtAppend, Accepted
<1>6. q.op # "spend" => Accepted(q)
  BY <1>0 DEF AtAppend, TypeInv, MutexHeld
<1>7. \A m \in Principal : m \in AdminTier => m = Root
  BY DEF OneAdmin
<1>8. Root \in principals
  BY <1>0 DEF TypeInv
<1>9. q.op \in AllOps
  BY <1>1, RequestFields
<1> SUFFICES /\ \A p \in Principal \ principals : Move(q)[p] = 0
             /\ q.op = "delete" => /\ q.to \in principals \ {Root}
                                   /\ Move(q)[q.to] = -bal[q.to]
                                   /\ \A p \in principals : Parent[p] # q.to
  OBVIOUS
<1> HIDE DEF q
<1>10. CASE q.op \in {"mint", "adjust"}
  <2>1. q.to \in principals /\ Move(q) = Credit(q.to, q.n)
    BY <1>6, <1>10 DEF Accepted, Move
  <2> QED BY <1>10, <2>1 DEF Credit
<1>11. CASE q.op = "transfer"
  <2>1. q.to \in principals /\ bal[q.me] >= q.n /\ Move(q) = Pair(q.me, q.to, q.n)
    BY <1>6, <1>11 DEF Accepted, Move
  <2>2. q.me \in principals
    BY <1>2, <1>4, <1>11, <2>1
  <2> QED BY <1>11, <2>1, <2>2 DEF Pair
<1>12. CASE q.op = "reclaim"
  <2>1. /\ q.to \in principals /\ MayFund(q.me, q.to)
        /\ Move(q) = Pair(q.to, q.me, Least(q.n, bal[q.to]))
    BY <1>6, <1>12 DEF Accepted, Move
  <2>2. q.me \in principals
    BY <1>2, <1>12, <2>1, ParentThere DEF MayFund
  <2> QED BY <1>12, <2>1, <2>2 DEF Pair
<1>13. CASE q.op = "delete"
  <2>1. /\ q.to \in principals /\ CanManage(q.me, q.to)
        /\ \A p \in principals \ {Root} : Parent[p] # q.to
        /\ Move(q) = Pair(q.to, q.me, bal[q.to])
    BY <1>6, <1>13 DEF Accepted, Move
  <2>2. q.to # Root /\ (q.me \in AdminTier \/ Parent[q.to] = q.me)
    BY <1>0, <1>7, <2>1 DEF CanManage
  <2>3. q.me \in principals
    BY <1>2, <1>13, <2>1, <2>2, ParentThere
  <2>4. \A p \in principals : Parent[p] # q.to
    BY <1>0, <2>1 DEF OneAdmin
  <2>5. Move(q)[q.to] = -bal[q.to] /\ \A p \in Principal \ principals : Move(q)[p] = 0
    BY <1>0, <2>1, <2>3 DEF Pair
  <2> QED BY <2>1, <2>2, <2>4, <2>5
<1>14. CASE q.op = "spend"
  <2>1. q.me \in principals
    BY <1>2, <1>4, <1>5, <1>14
  <2>2. Move(q) = Credit(q.me, -q.n)
    BY <1>14 DEF Move
  <2> QED BY <1>14, <2>1, <2>2 DEF Credit
<1> QED BY <1>1, <1>3, <1>9, <1>10, <1>11, <1>12, <1>13, <1>14 DEF AllOps

\* A scan leaves those with nothing with nothing.
LEMMA ScanOfNothing ==
  ASSUME SolvInv, NEW p \in Principal
  PROVE  BalanceIn(DropTail.lines, p) = BalanceIn(file, p)
<1>1. IsFile(file) /\ BalanceIn(DropTail.lines, p) \in Int
  BY ScanTyped DEF SolvInv, TypeInv, FileShape
<1>2. CASE TornTail
  <2>1. DropTail.lines = Front(file)
    BY <1>2 DEF DropTail
  <2> QED BY <1>1, <2>1, ScanBalance
<1>3. CASE ~TornTail
  BY <1>3 DEF DropTail
<1> QED BY <1>2, <1>3

LEMMA OwnInvStep ==
  ASSUME "tornEnd" \notin Faults, "appendTears" \notin Faults, "cliLive" \notin Faults,
         Adjusts \subseteq Nat, OneAdmin, OwnInv, [Next]_vars
  PROVE  OwnInv'
<1>0. /\ SolvInv /\ SolvInv' /\ TypeInv /\ MemInv /\ IsFile(file) /\ DOMAIN req = Client
      /\ CreditsHaveAnOwner /\ Rooted /\ principals \subseteq Principal /\ MutexHeld
  <2>1. SolvInv /\ TypeInv /\ MemInv /\ FileShape /\ MutexHeld /\ principals \subseteq Principal
    BY DEF OwnInv, SolvInv, TypeInv
  <2>2. SolvInv'
    BY <2>1, SolvInvStep
  <2> QED BY <2>1, <2>2 DEF OwnInv, FileShape, MutexHeld
<1>i. Idle.pc = "idle"
  BY DEF Idle
<1>o. \A c \in Client : req[c].pc # "idle" => req[c].q.op \in Ops
  BY DEF OwnInv
<1>r. \A c \in Client : req[c].pc = "remove" => Leaving(c)
  BY DEF OwnInv
<1>1. ASSUME UNCHANGED <<file, up, principals>>, NEW c \in Client, NEW r,
             req' = [req EXCEPT ![c] = r], r.pc # "idle" => r.q.op \in Ops, r.pc # "remove"
      PROVE  OwnInv'
  <2>1. \A d \in Client : req'[d] = req[d] \/ (d = c /\ req'[d] = r)
    BY <1>0, <1>1
  <2>2. /\ \A d \in Client : req'[d].pc # "idle" => req'[d].q.op \in Ops
        /\ \A d \in Client : req'[d].pc = "remove" => Leaving(d)'
    BY <1>1, <1>o, <1>r, <2>1 DEF Leaving
  <2>3. CreditsHaveAnOwner' /\ Rooted'
    BY <1>0, <1>1 DEF CreditsHaveAnOwner, Rooted
  <2> QED BY <1>0, <2>2, <2>3 DEF OwnInv
<1>2. ASSUME NEW c \in Client, Arrive(c) PROVE OwnInv'
  <2>1. PICK q \in Requests : q.op \in Ops /\ req' = [req EXCEPT ![c] = [pc |-> "queued", q |-> q]]
    BY <1>2 DEF Arrive
  <2> DEFINE r == [pc |-> "queued", q |-> q]
  <2>2. req' = [req EXCEPT ![c] = r] /\ r.pc = "queued" /\ r.q = q /\ UNCHANGED <<file, up, principals>>
    BY <1>2, <2>1 DEF Arrive
  <2> HIDE DEF r
  <2> QED BY <1>1, <2>1, <2>2
<1>3. ASSUME NEW c \in Client, Refuse(c) \/ PanelRefuses(c) \/ NoteSeen(c) \/ RunAppendFails(c)
      PROVE  OwnInv'
  <2>1. req' = [req EXCEPT ![c] = Idle] /\ UNCHANGED <<file, up, principals>>
    BY <1>3 DEF Refuse, PanelRefuses, NoteSeen, RunAppendFails, Throws, Done, Failed
  <2> QED BY <1>1, <1>i, <2>1
<1>4. ASSUME NEW c \in Client, AskPanel(c) PROVE OwnInv'
  <2> DEFINE r == [pc |-> "panel", q |-> req[c].q]
  <2>1. /\ req' = [req EXCEPT ![c] = r] /\ r.pc = "panel" /\ r.q = req[c].q
        /\ req[c].pc = "queued" /\ UNCHANGED <<file, up, principals>>
    BY <1>4 DEF AskPanel
  <2> HIDE DEF r
  <2> QED BY <1>1, <1>o, <2>1
\* What the append of a line makes of the balances.
<1>5. ASSUME NEW c \in Client, up, AtAppend(c)
      PROVE  /\ \A p \in Principal \ principals : BalanceIn(Glued(TxOf(req[c].q)), p) = 0
             /\ req[c].q.op = "delete" => BalanceIn(Glued(TxOf(req[c].q)), req[c].q.to) = 0
  <2> DEFINE l == TxOf(req[c].q)
  <2>1. IsLine(l) /\ l.move = Move(req[c].q)
    BY <1>0, <1>5, TxTyped
  <2> HIDE DEF l
  <2>2. l # Garbage
    BY <2>1 DEF IsLine, Garbage
  <2>3. Glued(l) = Append(file, l)
    BY <1>0, <1>5, WholeFile DEF Glued, GluedTo, MemInv
  <2>4. ASSUME NEW p \in Principal
        PROVE  BalanceIn(Glued(l), p) = bal[p] + Move(req[c].q)[p] /\ bal[p] \in Int
    <3>1. BalanceIn(Glued(l), p) = BalanceIn(file, p) + Share(l, p)
      BY <1>0, <2>3, BalanceOfAppend
    <3>2. BalanceIn(file, p) = bal[p] /\ Share(l, p) = l.move[p]
      BY <1>0, <1>5, <2>2 DEF MemInv, Share
    <3> QED BY <1>0, <2>1, <3>1, <3>2 DEF TypeInv
  <2>5. /\ \A p \in Principal \ principals : Move(req[c].q)[p] = 0
        /\ req[c].q.op = "delete" => /\ req[c].q.to \in principals
                                     /\ Move(req[c].q)[req[c].q.to] = -bal[req[c].q.to]
    BY <1>5, MovesOfOwners
  <2>6. \A p \in Principal \ principals : bal[p] = 0
    BY <1>0, <1>5 DEF CreditsHaveAnOwner, MemInv
  <2>7. \A p \in Principal \ principals : BalanceIn(Glued(l), p) = 0
    BY <2>4, <2>5, <2>6
  <2>8. req[c].q.op = "delete" => BalanceIn(Glued(l), req[c].q.to) = 0
    BY <1>0, <2>4, <2>5
  <2> QED BY <2>7, <2>8 DEF l
<1>6. ASSUME NEW c \in Client, RunAppend(c) PROVE OwnInv'
  <2>1. /\ up /\ AtAppend(c) /\ Turn(c) /\ file' = Glued(TxOf(req[c].q)) /\ AfterAppend(c)
        /\ UNCHANGED <<principals, up>>
    BY <1>6 DEF RunAppend, AppendReturns, AtAppend
  <2>2. CreditsHaveAnOwner' /\ Rooted'
    BY <1>0, <1>5, <2>1 DEF CreditsHaveAnOwner, Rooted
  <2>3. /\ \A d \in Client : d # c => req'[d] = req[d] /\ req[d].pc # "remove"
        /\ req'[c] = Idle \/ (req'[c].q = req[c].q /\ req'[c].pc \in {"seen", "remove"})
        /\ req'[c].pc = "remove" => req[c].q.op = "delete"
    <3>1. \A d \in Client : d # c => req[d] = Idle \/ req[d].pc = "queued"
      BY <1>0, <2>1 DEF MutexHeld, Turn
    <3> QED BY <1>0, <1>i, <2>1, <3>1 DEF AfterAppend, Done
  <2>4. req[c].pc # "idle"
    BY <2>1 DEF AtAppend
  <2>5. \A d \in Client : req'[d].pc # "idle" => req'[d].q.op \in Ops
    BY <1>i, <1>o, <2>3, <2>4
  <2>6. req'[c].pc = "remove" => Leaving(c)'
    <3>1. req[c].q.op = "delete" => \A p \in principals : Parent[p] # req[c].q.to
      BY <2>1, MovesOfOwners
    <3> QED BY <1>5, <1>i, <2>1, <2>3, <3>1 DEF Leaving
  <2>7. \A d \in Client : req'[d].pc = "remove" => Leaving(d)'
    BY <2>3, <2>6
  <2> QED BY <1>0, <2>2, <2>5, <2>7 DEF OwnInv
<1>7. ASSUME NEW c \in Client, Turn(c), req' = [req EXCEPT ![c] = Idle], UNCHANGED <<file, up>>,
             \A p \in Principal \ principals' : BalanceIn(file, p) = 0, Rooted'
      PROVE  OwnInv'
  <2>1. \A d \in Client : d # c => req'[d] = req[d] /\ (req[d] = Idle \/ req[d].pc = "queued")
    BY <1>0, <1>7 DEF MutexHeld, Turn
  <2>2. \A d \in Client : req'[d].pc # "remove"
    BY <1>0, <1>7, <1>i, <2>1
  <2>3. \A d \in Client : req'[d].pc # "idle" => req'[d].q.op \in Ops
    BY <1>0, <1>7, <1>i, <1>o, <2>1
  <2> QED BY <1>0, <1>7, <2>2, <2>3 DEF OwnInv, CreditsHaveAnOwner
<1>8. ASSUME NEW c \in Client, RemovePrincipal(c) PROVE OwnInv'
  <2>1. /\ Turn(c) /\ req' = [req EXCEPT ![c] = Idle] /\ UNCHANGED <<file, up>>
        /\ principals' = principals \ {req[c].q.to} /\ Leaving(c)
    BY <1>8, <1>r DEF RemovePrincipal, Done
  <2>2. \A p \in Principal \ principals' : BalanceIn(file, p) = 0
    BY <1>0, <2>1 DEF CreditsHaveAnOwner, Leaving
  <2>3. Rooted'
    BY <1>0, <2>1 DEF Rooted, Leaving
  <2> QED BY <1>7, <2>1, <2>2, <2>3
<1>9. ASSUME NEW c \in Client, RunNoLine(c) PROVE OwnInv'
  <2>1. /\ up /\ Turn(c) /\ req[c].pc = "queued" /\ req' = [req EXCEPT ![c] = Idle]
        /\ UNCHANGED <<file, up>> /\ Accepted(req[c].q) /\ ~WritesLine(req[c].q)
        /\ req[c].q.op \in Ops
    BY <1>9, <1>o DEF RunNoLine, Done
  <2>2. req[c].q \in Requests
    BY <1>0, <2>1, AtWork
  <2>3. CASE req[c].q.op = "create"
    <3>1. principals' = principals \union {req[c].q.to}
      BY <1>9, <2>3 DEF RunNoLine
    <3>2. Rooted'
      <4>1. Root \in principals /\ Parent[Root] \notin Principal
        BY <1>0 DEF TypeInv, OneAdmin
      <4>2. \A p \in Principal \ {Root} : Parent[p] = Root
        BY <2>1, <2>3 DEF OneAdmin
      <4>3. req[c].q.to \in Principal
        BY <2>2, <2>3, RequestFields
      <4> QED BY <1>0, <3>1, <4>1, <4>2, <4>3 DEF Rooted
    <3>3. \A p \in Principal \ principals' : BalanceIn(file, p) = 0
      BY <1>0, <3>1 DEF CreditsHaveAnOwner
    <3> QED BY <1>7, <2>1, <3>2, <3>3
  <2>4. CASE req[c].q.op # "create"
    <3>1. req[c].q.op = "delete" /\ ~HasCredits(req[c].q)
      BY <2>1, <2>4 DEF WritesLine
    <3>2. /\ principals' = principals \ {req[c].q.to} /\ req[c].q.to \in principals
          /\ \A p \in principals \ {Root} : Parent[p] # req[c].q.to
      BY <1>9, <2>1, <3>1 DEF RunNoLine, Accepted
    <3>3. \A p \in principals : Parent[p] # req[c].q.to
      BY <1>0, <3>2 DEF OneAdmin
    <3>4. BalanceIn(file, req[c].q.to) = 0
      <4>1. /\ bal[req[c].q.to] = BalanceIn(file, req[c].q.to) /\ bal[req[c].q.to] \in Int
            /\ BalanceIn(file, req[c].q.to) >= 0
        BY <1>0, <2>1, <3>2 DEF MemInv, TypeInv, SolvInv, NoOverdraft
      <4>2. ~(bal[req[c].q.to] > 0)
        BY <3>1 DEF HasCredits
      <4> QED BY <4>1, <4>2
    <3>5. Rooted'
      BY <1>0, <3>2, <3>3 DEF Rooted
    <3>6. \A p \in Principal \ principals' : BalanceIn(file, p) = 0
      BY <1>0, <3>2, <3>4 DEF CreditsHaveAnOwner
    <3> QED BY <1>7, <2>1, <3>5, <3>6
  <2> QED BY <2>3, <2>4
<1>10. ASSUME \A d \in Client : req'[d].pc = "idle", UNCHANGED principals,
              \A p \in Principal \ principals : BalanceIn(file', p) = 0
       PROVE  OwnInv'
  BY <1>0, <1>10 DEF OwnInv, CreditsHaveAnOwner, Rooted
<1>11. ASSUME Die, \A p \in Principal \ principals : BalanceIn(file', p) = 0 PROVE OwnInv'
  BY <1>10, <1>11, <1>i DEF Die
<1>12. ASSUME NEW c \in Client, CrashInAppend(c) PROVE OwnInv'
  <2>1. up /\ AtAppend(c) /\ Die /\ (file' = Glued(TxOf(req[c].q)) \/ file' = Glued(Garbage))
    BY <1>12 DEF CrashInAppend
  <2>2. CASE file' = Glued(TxOf(req[c].q))
    BY <1>5, <1>11, <2>1, <2>2
  <2>3. CASE file' = Glued(Garbage)
    <3>1. file' = Append(file, Garbage)
      BY <1>0, <2>1, <2>3, WholeFile DEF Glued, GluedTo, MemInv
    <3>2. ASSUME NEW p \in Principal \ principals PROVE BalanceIn(file', p) = 0
      <4>1. BalanceIn(file', p) = BalanceIn(file, p) + Share(Garbage, p)
        BY <1>0, <3>1, BalanceOfAppend
      <4> QED BY <1>0, <4>1 DEF CreditsHaveAnOwner, Share
    <3> QED BY <1>11, <2>1, <3>2
  <2> QED BY <2>1, <2>2, <2>3
<1>13. CASE Crash
  BY <1>0, <1>11, <1>13 DEF Crash, CreditsHaveAnOwner
<1>14. ASSUME ~up PROVE \A d \in Client : req[d].pc # "remove"
  BY <1>14, <1>r DEF Leaving
<1>15. ASSUME ~up, UNCHANGED <<req, principals>>,
              \A p \in Principal \ principals : BalanceIn(file', p) = 0
       PROVE  OwnInv'
  BY <1>0, <1>14, <1>15, <1>o DEF OwnInv, CreditsHaveAnOwner, Rooted
<1>16. CASE Boot
  BY <1>0, <1>15, <1>16, ScanOfNothing DEF Boot, CreditsHaveAnOwner
<1>17. CASE CliMint
  <2>1. ~up /\ UNCHANGED <<req, principals>> /\ Scans
    BY <1>17 DEF CliMint
  <2>2. PICK p \in principals, n \in Amounts :
          file' = GluedTo(DropTail, Line(NextSeqOf(DropTail.lines), Credit(p, n), NoEvent))
    BY <1>17 DEF CliMint
  <2> DEFINE l == Line(NextSeqOf(DropTail.lines), Credit(p, n), NoEvent)
  <2>3. DropTail.open = FALSE
    BY <1>0, <2>1, ScanKeeps DEF MemInv
  <2>4. file' = Append(DropTail.lines, l)
    BY <2>2, <2>3 DEF GluedTo
  <2>5. l.move = Credit(p, n)
    BY DEF Line
  <2> HIDE DEF l
  <2>6. ASSUME NEW x \in Principal \ principals PROVE BalanceIn(file', x) = 0
    <3>1. IsFile(DropTail.lines)
      BY <1>0, ScanTyped DEF TypeInv
    <3>2. BalanceIn(file', x) = BalanceIn(DropTail.lines, x) + Share(l, x)
      BY <2>4, <3>1, BalanceOfAppend
    <3>3. Share(l, x) = 0
      BY <2>5, <2>6 DEF Share, Credit
    <3>4. BalanceIn(DropTail.lines, x) = 0
      BY <1>0, <2>6, ScanOfNothing DEF CreditsHaveAnOwner
    <3> QED BY <3>2, <3>3, <3>4
  <2> QED BY <1>15, <2>1, <2>6
<1>18. CASE UNCHANGED vars
  <2>1. \A d \in Client : req'[d].pc = "remove" => Leaving(d)'
    BY <1>18, <1>r DEF Leaving, vars
  <2> QED BY <1>0, <1>18, <1>o, <2>1 DEF OwnInv, CreditsHaveAnOwner, Rooted, vars
<1> QED BY <1>2, <1>3, <1>4, <1>6, <1>8, <1>9, <1>12, <1>13, <1>16, <1>17, <1>18 DEF Next, Serve

\* A deleted principal leaves no credits behind, and gets none afterwards,
\* though requests authenticate before they queue on the mutex and a kill may
\* fall between a deletion's line and the principals file (control-server.js,
\* deletePrincipal), in a hierarchy with one admin, where none is made under a
\* reseller, and without payments.  A second admin breaks it
\* (MCCreditLedgerCoAdmin), and so does who is made under a reseller that is
\* deleted meanwhile.
THEOREM NothingLeftBehind ==
  ASSUME "tornEnd" \notin Faults, "appendTears" \notin Faults, "cliLive" \notin Faults,
         Adjusts \subseteq Nat, OneAdmin
  PROVE  Spec => []CreditsHaveAnOwner
<1>1. Init => OwnInv
  <2> SUFFICES ASSUME Init PROVE OwnInv
    OBVIOUS
  <2>1. SolvInv
    <3>1. TypeInv /\ MemInv
      BY TypeInvInit, MemInvInit
    <3>2. NoOverdraft
      BY BalanceOfNone DEF Init, NoOverdraft
    <3>3. \A c \in Client : req[c].pc # "panel"
      BY DEF Init, Idle
    <3> QED BY <3>1, <3>2, <3>3 DEF SolvInv
  <2>2. principals = Principal /\ \A c \in Client : req[c].pc = "idle"
    BY DEF Init, Idle
  <2> QED BY <2>1, <2>2 DEF OwnInv, CreditsHaveAnOwner, Rooted
<1>2. OwnInv /\ [Next]_vars => OwnInv'
  BY OwnInvStep
<1>3. OwnInv => CreditsHaveAnOwner
  BY DEF OwnInv
<1> QED BY <1>1, <1>2, <1>3, PTL DEF Spec
=============================================================================
