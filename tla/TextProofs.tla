----------------------------- MODULE TextProofs -----------------------------
(***************************************************************************)
(* The text that is put together and where it goes, twice.                 *)
(*                                                                         *)
(* The driver of tools/utf16validate keeps DocumentInv, HonestDocument and *)
(* RepairWritesText, for any number of files, any options and any calls    *)
(* failing, once or several times in a run.                                *)
(*                                                                         *)
(* The corpus generator keeps CorpusInv, ManifestVouches and CheckExact,   *)
(* for any table of texts, seeds and targets and any number of runs that   *)
(* complete, stop or are killed, with the directory changed in between.    *)
(***************************************************************************)
EXTENDS Corpus, HostDriver, SequenceTheorems, FiniteSetTheorems, WellFoundedInduction, TLAPS

-----------------------------------------------------------------------------
(* Sequences joined.  FlattenSeq is a recursive function of the library:   *)
(* what it gives is proved by induction on the length.  The induction      *)
(* rules of the library quantify over a predicate; the two here say the    *)
(* same of a set.                                                          *)

\* Of some natural numbers one is the least.
LEMMA LeastNatural ==
    ASSUME NEW T, T \subseteq Nat, T # {}
    PROVE  \E n \in T : \A m \in T : n <= m
<1> DEFINE R == StrictSubsetOrdering(Nat)
           U == {0..m-1 : m \in T}
<1>1. U \subseteq FiniteSubsetsOf(Nat) /\ U # {}
  <2>1. \A m \in T : 0..m-1 \subseteq Nat /\ IsFiniteSet(0..m-1)
    BY FS_Interval
  <2>2. QED  BY <2>1 DEF FiniteSubsetsOf
<1>2. IsWellFoundedOn(R, FiniteSubsetsOf(Nat))
  BY FS_StrictSubsetOrderingWellFounded
<1>3. \E X \in U : \A Y \in U : <<Y, X>> \notin R
  <2> HIDE DEF R, U
  <2>1. QED  BY <1>1, <1>2, WFMin
<1>4. PICK n \in T : \A m \in T : <<0..m-1, 0..n-1>> \notin R
  BY <1>3
<1>5. ASSUME NEW m \in T, m < n PROVE FALSE
  <2>1. m \in 0..n-1 /\ m \notin 0..m-1
    BY <1>5
  <2>2. 0..m-1 \subseteq 0..n-1 /\ 0..m-1 # 0..n-1 /\ 0..n-1 \subseteq Nat
    BY <1>5, <2>1
  <2>3. <<0..m-1, 0..n-1>> \in R
    BY <2>2 DEF StrictSubsetOrdering
  <2>4. QED  BY <1>4, <2>3
<1>6. QED  BY <1>5

\* Induction, for a set of numbers.
LEMMA InductionOnNat ==
    ASSUME NEW S, 0 \in S, \A n \in Nat : n \in S => n + 1 \in S
    PROVE  Nat \subseteq S
<1> SUFFICES ASSUME Nat \ S # {} PROVE FALSE
  OBVIOUS
<1>1. PICK n \in Nat \ S : \A m \in Nat \ S : n <= m
  BY LeastNatural
<1>2. n # 0 /\ n - 1 \in Nat
  OBVIOUS
<1>3. QED  BY <1>1, <1>2

\* What FlattenSeq computes on the way: f holds the joined prefixes of s.
Joins(s, f, n) == f = [k \in 1..n |-> IF k = 1 THEN s[k] ELSE f[k-1] \o s[k]]

\* They exist for every finite sequence of sequences.
LEMMA JoinsExist ==
    ASSUME NEW S, NEW n \in Nat, NEW s \in [1..n -> Seq(S)]
    PROVE  \E f \in [1..n -> Seq(S)] : Joins(s, f, n)
<1> DEFINE Good == {m \in Nat : m <= n => \E f \in [1..m -> Seq(S)] : Joins(s, f, m)}
<1>1. 0 \in Good
  <2> DEFINE e == [k \in 1..0 |-> <<>>]
  <2>1. e \in [1..0 -> Seq(S)] /\ Joins(s, e, 0)
    BY DEF Joins
  <2>2. QED  BY <2>1
<1>2. ASSUME NEW m \in Nat, m \in Good PROVE m + 1 \in Good
  <2> SUFFICES ASSUME m + 1 <= n
               PROVE  \E f \in [1..m+1 -> Seq(S)] : Joins(s, f, m + 1)
    OBVIOUS
  <2>1. PICK f \in [1..m -> Seq(S)] : Joins(s, f, m)
    BY <1>2
  <2> DEFINE joined == IF m = 0 THEN s[m+1] ELSE f[m] \o s[m+1]
             g == [k \in 1..m+1 |-> IF k = m + 1 THEN joined ELSE f[k]]
  <2>2. s[m+1] \in Seq(S) /\ (m # 0 => f[m] \in Seq(S))
    OBVIOUS
  <2>3. joined \in Seq(S)
    BY <2>2, ConcatProperties
  <2>4. g \in [1..m+1 -> Seq(S)]
    BY <2>3
  <2>5. ASSUME NEW k \in 1..m+1 PROVE g[k] = IF k = 1 THEN s[k] ELSE g[k-1] \o s[k]
    <3>1. CASE k = m + 1
      <4>1. m # 0 => g[m] = f[m]
        OBVIOUS
      <4>2. QED  BY <3>1, <4>1
    <3>2. CASE k # m + 1
      <4>1. k \in 1..m /\ (k # 1 => k - 1 \in 1..m /\ k - 1 # m + 1)
        BY <3>2
      <4>2. f[k] = IF k = 1 THEN s[k] ELSE f[k-1] \o s[k]
        BY <2>1, <4>1 DEF Joins
      <4>3. g[k] = f[k] /\ (k # 1 => g[k-1] = f[k-1])
        BY <3>2, <4>1
      <4>4. QED  BY <4>2, <4>3
    <3>3. QED  BY <3>1, <3>2
  <2>6. Joins(s, g, m + 1)
    <3> HIDE DEF joined
    <3>1. g = [k \in 1..m+1 |-> g[k]]
      OBVIOUS
    <3> HIDE DEF g
    <3>2. QED  BY <2>5, <3>1 DEF Joins
  <2> HIDE DEF g
  <2>7. QED  BY <2>4, <2>6
<1>3. n \in Good
  <2> HIDE DEF Good
  <2>1. QED  BY <1>1, <1>2, InductionOnNat
<1>4. QED  BY <1>3

\* One of the joined prefixes, from the one before it.
LEMMA PrefixAt ==
    ASSUME NEW n \in Nat, NEW s, NEW f, Joins(s, f, n), NEW k \in 1..n
    PROVE  f[k] = IF k = 1 THEN s[k] ELSE f[k-1] \o s[k]
  BY DEF Joins

\* Two sequences are the same up to n.
Agree(s, t, n) == \A k \in 1..n : s[k] = t[k]

\* The joined prefixes of sequences that agree are the same, as far as they do.
LEMMA JoinsUnique ==
    ASSUME NEW m \in Nat, NEW n \in Nat, m <= n, NEW s, NEW t, NEW f, NEW g,
           Agree(s, t, m), Joins(s, f, m), Joins(t, g, n)
    PROVE  Agree(f, g, m)
<1> DEFINE Good == {k \in Nat : k \in 1..m => f[k] = g[k]}
<1>1. 0 \in Good
  OBVIOUS
<1>2. ASSUME NEW k \in Nat, k \in Good PROVE k + 1 \in Good
  <2> SUFFICES ASSUME k + 1 \in 1..m PROVE f[k+1] = g[k+1]
    OBVIOUS
  <2>1. f[k+1] = IF k + 1 = 1 THEN s[k+1] ELSE f[k+1-1] \o s[k+1]
    BY PrefixAt
  <2>2. k + 1 \in 1..n
    OBVIOUS
  <2>3. g[k+1] = IF k + 1 = 1 THEN t[k+1] ELSE g[k+1-1] \o t[k+1]
    BY <2>2, PrefixAt
  <2>4. k + 1 - 1 = k /\ (k + 1 # 1 => k \in 1..m)
    OBVIOUS
  <2>5. s[k+1] = t[k+1]
    BY DEF Agree
  <2>6. QED  BY <1>2, <2>1, <2>3, <2>4, <2>5
<1>3. Nat \subseteq Good
  <2> HIDE DEF Good
  <2>1. QED  BY <1>1, <1>2, InductionOnNat
<1>4. QED  BY <1>3 DEF Agree

\* FlattenSeq is the last of them.
LEMMA FlattenIs ==
    ASSUME NEW S, NEW n \in Nat, n # 0, NEW s \in [1..n -> Seq(S)]
    PROVE  \E f \in [1..n -> Seq(S)] : Joins(s, f, n) /\ FlattenSeq(s) = f[n]
<1> DEFINE P(f) == f = [k \in 1..n |-> IF k = 1 THEN s[k] ELSE f[k-1] \o s[k]]
           c == CHOOSE f : P(f)
<1>1. Len(s) = n
  OBVIOUS
<1>2. PICK h \in [1..n -> Seq(S)] : Joins(s, h, n)
  BY JoinsExist
<1>3. P(c)
  <2>1. P(h)
    BY <1>2 DEF Joins
  <2> HIDE DEF P
  <2>2. QED  BY <2>1
<1>4. FlattenSeq(s) = c[n]
  BY <1>1 DEF FlattenSeq
<1> HIDE DEF c
<1>5. Joins(s, c, n)
  BY <1>3 DEF Joins
<1>6. Agree(c, h, n)
  <2>1. Agree(s, s, n)
    BY DEF Agree
  <2>2. QED  BY <1>2, <1>5, <2>1, JoinsUnique
<1>7. c \in [1..n -> Seq(S)]
  <2>1. DOMAIN c = 1..n /\ c = [k \in 1..n |-> c[k]]
    BY <1>5 DEF Joins
  <2>2. \A k \in 1..n : c[k] \in Seq(S)
    BY <1>6 DEF Agree
  <2>3. QED  BY <2>1, <2>2
<1>8. QED  BY <1>4, <1>5, <1>7

\* The same, of prefixes whose range does not matter.
LEMMA FlattenHas ==
    ASSUME NEW S, NEW n \in Nat, n # 0, NEW s \in [1..n -> Seq(S)]
    PROVE  \E f : Joins(s, f, n) /\ FlattenSeq(s) = f[n]
  BY FlattenIs

\* One sequence more is joined at the end.
LEMMA FlattenNext ==
    ASSUME NEW S, NEW n \in Nat, NEW s \in [1..n+1 -> Seq(S)]
    PROVE  FlattenSeq(s) = FlattenSeq([k \in 1..n |-> s[k]]) \o s[n+1]
<1> DEFINE t == [k \in 1..n |-> s[k]]
<1>1. PICK f : Joins(s, f, n + 1) /\ FlattenSeq(s) = f[n+1]
  BY FlattenHas
<1>2. f[n+1] = IF n + 1 = 1 THEN s[n+1] ELSE f[n+1-1] \o s[n+1]
  <2>1. n + 1 \in Nat /\ n + 1 \in 1..n+1
    OBVIOUS
  <2>2. QED  BY <1>1, <2>1, PrefixAt
<1>3. CASE n = 0
  <2>1. t = <<>> /\ Len(t) = 0
    BY <1>3
  <2>2. FlattenSeq(t) = <<>>
    BY <2>1 DEF FlattenSeq
  <2>3. <<>> \o s[n+1] = s[n+1]
    BY <1>3, ConcatEmptySeq
  <2>4. QED  BY <1>1, <1>2, <1>3, <2>2, <2>3
<1>4. CASE n # 0
  <2>1. t \in [1..n -> Seq(S)]
    OBVIOUS
  <2>2. Agree(t, s, n)
    BY DEF Agree
  <2> HIDE DEF t
  <2>3. PICK g : Joins(t, g, n) /\ FlattenSeq(t) = g[n]
    BY <1>4, <2>1, FlattenHas
  <2>4. Agree(g, f, n)
    <3> DEFINE q == n + 1
    <3>1. q \in Nat /\ n <= q /\ Joins(s, f, q)
      BY <1>1
    <3> HIDE DEF q
    <3>2. QED  BY <2>2, <2>3, <3>1, JoinsUnique
  <2>5. n + 1 - 1 = n /\ n + 1 # 1 /\ n \in 1..n
    BY <1>4
  <2>6. g[n] = f[n]
    BY <2>4, <2>5 DEF Agree
  <2>7. QED  BY <1>1, <1>2, <2>3, <2>5, <2>6 DEF t
<1>5. QED  BY <1>3, <1>4

\* Induction over sequences, for a set of them.
LEMMA InductionOnSeq ==
    ASSUME NEW S, NEW G, <<>> \in G,
           \A t \in Seq(S), e \in S : t \in G => Append(t, e) \in G
    PROVE  Seq(S) \subseteq G
<1> DEFINE Good == {n \in Nat : \A t \in Seq(S) : Len(t) = n => t \in G}
<1>1. 0 \in Good
  <2>1. \A t \in Seq(S) : Len(t) = 0 => t = <<>>
    OBVIOUS
  <2>2. QED  BY <2>1
<1>2. ASSUME NEW n \in Nat, n \in Good PROVE n + 1 \in Good
  <2> SUFFICES ASSUME NEW t \in Seq(S), Len(t) = n + 1 PROVE t \in G
    OBVIOUS
  <2> DEFINE f == [k \in 1..n |-> t[k]]
  <2>1. f \in Seq(S) /\ Len(f) = n /\ t[n+1] \in S
    OBVIOUS
  <2>2. Append(f, t[n+1]) = t
    <3>1. Append(f, t[n+1]) \in Seq(S) /\ Len(Append(f, t[n+1])) = n + 1
      BY <2>1
    <3>2. \A k \in 1..n+1 : Append(f, t[n+1])[k] = t[k]
      BY <2>1
    <3> HIDE DEF f
    <3>3. QED  BY <3>1, <3>2, SeqEqual
  <2>3. f \in G
    BY <1>2, <2>1
  <2> HIDE DEF f
  <2>4. QED  BY <2>1, <2>2, <2>3
<1>3. Nat \subseteq Good
  <2> HIDE DEF Good
  <2>1. QED  BY <1>1, <1>2, InductionOnNat
<1>4. QED  BY <1>3

\* FlattenSeq of an empty sequence, and of one with another element.
LEMMA FlattenNone == FlattenSeq(<<>>) = <<>>
  BY DEF FlattenSeq

\* One sequence more, appended.
LEMMA FlattenAppend ==
    ASSUME NEW S, NEW s \in Seq(Seq(S)), NEW e \in Seq(S)
    PROVE  FlattenSeq(Append(s, e)) = FlattenSeq(s) \o e
<1> DEFINE n == Len(s)
           t == Append(s, e)
<1>1. n \in Nat /\ t \in [1..n+1 -> Seq(S)] /\ t[n+1] = e
  <2>1. n \in Nat /\ t \in Seq(Seq(S)) /\ Len(t) = n + 1 /\ t[n+1] = e
    BY AppendProperties
  <2> HIDE DEF t
  <2>2. QED  BY <2>1
<1>2. [k \in 1..n |-> t[k]] = s
  OBVIOUS
<1> HIDE DEF t, n
<1>3. QED  BY <1>1, <1>2, FlattenNext DEF t

\* Sequences over a set are joined to one over it.
LEMMA FlattenType ==
    ASSUME NEW S, NEW s \in Seq(Seq(S))
    PROVE  FlattenSeq(s) \in Seq(S)
<1> DEFINE G == {r \in Seq(Seq(S)) : FlattenSeq(r) \in Seq(S)}
<1>1. <<>> \in G
  BY FlattenNone, EmptySeq
<1>2. ASSUME NEW r \in Seq(Seq(S)), NEW e \in Seq(S), r \in G PROVE Append(r, e) \in G
  <2>1. Append(r, e) \in Seq(Seq(S)) /\ FlattenSeq(r) \in Seq(S)
    BY <1>2
  <2>2. FlattenSeq(r) \o e \in Seq(S)
    BY <2>1, ConcatProperties
  <2>3. QED  BY <2>1, <2>2, FlattenAppend
<1>3. Seq(Seq(S)) \subseteq G
  <2> HIDE DEF G
  <2>1. QED  BY <1>1, <1>2, InductionOnSeq
<1>4. QED  BY <1>3

-----------------------------------------------------------------------------
(* The driver of tools/utf16validate: the inductive invariant.             *)

Pieces == {"units", "oddbyte", "fffd", "positions", "line", "document"}

\* What is written is made of pieces, and only a JSON run has a document.
InPieces ==
    /\ stdout \in Seq(Pieces) /\ tmp \in Seq(Pieces) /\ captured \in Seq(Pieces)
    /\ ~opt.json => doc = NoDoc

\* Past main's own checks there is a file, and one only in a JSON run.
InFile == pc \notin {"args", "done"}
Selected ==
    /\ InFile => i \in 1..Len(files) /\ (opt.json => Len(files) = 1)
    /\ pc \in {"fstat"} => opt.json \/ opt.repair
    /\ pc = "read" => opt.json
    /\ pc \in {"tmpfile", "dup", "redirect", "restore", "readback", "emit"} => Capturing
    /\ pc = "args" => i = 1

\* The descriptors that are open before each call.
OpenFds ==
    /\ pc \in {"args", "open", "emit", "done"} => fds = {}
    /\ pc \in {"fstat", "read", "tmpfile"} => fds = {"input"}
    /\ pc = "dup" => fds = {"input", "tmp"}
    /\ pc = "redirect" \/ (pc = "run" /\ Capturing) =>
          fds \in {{"input", "tmp"}, {"input", "tmp", "saved"}}
    /\ pc = "run" /\ ~Capturing => fds = {"input"}
    /\ pc = "restore" => fds \in {{"tmp"}, {"tmp", "saved"}}
    /\ pc = "readback" => fds = {"tmp"}

\* A JSON run that goes on has met no failure of the calls that redirect.
Sound == (opt.json /\ pc # "done") \/ failed = {}
Redirected == pc \in {"run", "restore"} /\ Capturing

\* Where descriptor 1 and its copy lead.
Leads ==
    /\ failed \cap {"dup", "restore"} = {} =>
          saved = "stdout" /\ (fd1 = "stdout" \/ Redirected)
    /\ opt.json /\ pc # "done" => failed \cap {"dup", "redirect", "restore"} = {}
    /\ Sound => saved = "stdout" /\ fd1 = IF Redirected THEN "tmp" ELSE "stdout"

\* What was captured is what the pipeline wrote.
CapturedOutput ==
    Sound =>
        /\ pc \in {"fstat", "read", "tmpfile", "dup", "redirect", "run"} => tmp = <<>>
        /\ pc \in {"restore", "readback"} => tmp = PipelineOutput(File)
        /\ pc = "emit" => \/ captured = PipelineOutput(File)
                          \/ "short readback" \in failed
                          \/ opt.json /\ ~NeedsCapture

\* What the run has learned of its file.
Learned ==
    /\ pc \in {"read", "tmpfile", "dup", "redirect", "run", "restore", "readback", "emit"}
          /\ (opt.json \/ opt.repair) => statOK \/ "fstat" \in failed
    /\ pc \in {"tmpfile", "dup", "redirect", "run", "restore", "readback", "emit"}
          /\ opt.json /\ opt.repair /\ statOK /\ (File.units \/ File.odd) =>
             inputRead \/ "read" \in failed

\* A JSON run that has not ended has written nothing, and one that has, its
\* document.
OneFile ==
    opt.json =>
        /\ pc # "done" => stdout = <<>> /\ doc = NoDoc
        /\ OneDocument /\ ExitTellsStatus

\* The repaired text of the files before this one has been written.
TextSoFar ==
    opt.repair /\ ~opt.json /\ failed = {} =>
        /\ pc # "done" => stdout = RepairedText(i - 1)
        /\ pc = "done" => stdout = RepairedText(Len(files))

IInv ==
    /\ TypeOK /\ InPieces /\ Selected /\ OpenFds /\ Leads /\ CapturedOutput
    /\ Learned /\ OneFile /\ TextSoFar /\ HonestDocument

-----------------------------------------------------------------------------
(* What the steps use.                                                     *)

\* The files are a sequence, of which there may be none.
LEMMA FilesFacts ==
    TypeOK => /\ files \in Seq(InputFile) /\ Len(files) \in Nat /\ i \in Nat
              /\ (files = <<>> <=> Len(files) = 0)
<1> SUFFICES ASSUME TypeOK PROVE files \in Seq(InputFile) /\ Len(files) \in Nat /\ i \in Nat
                                 /\ (files = <<>> <=> Len(files) = 0)
  OBVIOUS
<1>1. PICK n \in 0..MaxFiles : files \in [1..n -> InputFile]
  BY DEF TypeOK
<1>2. n \in Nat
  BY MaxFilesAssumption
<1>3. files \in Seq(InputFile)
  BY <1>1, <1>2
<1>4. QED  BY <1>3, EmptySeq DEF TypeOK

\* A write appends to the one target.
LEMMA WriteFacts ==
    ASSUME NEW target, NEW pieces \in Seq(Pieces), WriteTo(target, pieces),
           stdout \in Seq(Pieces), tmp \in Seq(Pieces)
    PROVE  /\ stdout' \in Seq(Pieces) /\ tmp' \in Seq(Pieces)
           /\ target # "stdout" => stdout' = stdout
           /\ target # "tmp" => tmp' = tmp
           /\ target = "stdout" /\ stdout = <<>> => stdout' = pieces
           /\ target = "tmp" /\ tmp = <<>> => tmp' = pieces
<1>1. stdout \o pieces \in Seq(Pieces) /\ tmp \o pieces \in Seq(Pieces)
  BY ConcatProperties
<1>2. <<>> \o pieces = pieces
  BY ConcatEmptySeq
<1>3. QED  BY <1>1, <1>2 DEF WriteTo

\* An error is reported as one document.
LEMMA ErrorFacts ==
    ASSUME NEW code, NEW target, EmitError(code, target),
           stdout \in Seq(Pieces), tmp \in Seq(Pieces)
    PROVE  /\ stdout' \in Seq(Pieces) /\ tmp' \in Seq(Pieces)
           /\ doc'.status = "error"
           /\ target # "stdout" => stdout' = stdout
           /\ target = "stdout" /\ stdout = <<>> => stdout' = <<"document">>
<1>1. <<"document">> \in Seq(Pieces)
  BY DEF Pieces
<1>2. WriteTo(target, <<"document">>) /\ doc' = ErrorDoc(code)
  BY DEF EmitError
<1>3. doc'.status = "error"
  BY <1>2 DEF ErrorDoc
<1>4. QED  BY <1>1, <1>2, <1>3, WriteFacts

\* Going on to the next file, or ending.
LEMMA ReturnFacts ==
    ASSUME NEW ok \in BOOLEAN, Return(ok), i \in 1..Len(files), Len(files) \in Nat,
           files' = files
    PROVE  /\ i' \in 1..Len(files)'
           /\ \/ i < Len(files) /\ i' = i + 1 /\ pc' = "open" /\ exit' = exit
              \/ i = Len(files) /\ i' = i /\ pc' = "done" /\ exit' = IF ok THEN 0 ELSE 1
  BY DEF Return

\* Until it ends a run has no document, and a JSON run has written nothing.
LEMMA NothingYet ==
    ASSUME IInv, pc # "done"
    PROVE  /\ doc = NoDoc /\ doc.status = "none" /\ HonestDocument
           /\ opt.json => stdout = <<>>
           /\ stdout \in Seq(Pieces) /\ tmp \in Seq(Pieces) /\ captured \in Seq(Pieces)
           /\ files \in Seq(InputFile) /\ Len(files) \in Nat /\ i \in Nat /\ opt \in Options
<1>1. doc = NoDoc /\ (opt.json => stdout = <<>>)
  BY DEF IInv, InPieces, OneFile
<1>2. doc.status = "none"
  BY <1>1 DEF NoDoc
<1>3. QED  BY <1>1, <1>2, FilesFacts DEF IInv, InPieces, TypeOK

\* What a pipeline writes is made of pieces.
LEMMA OutputFacts ==
    ASSUME opt \in Options, NEW file \in InputFile
    PROVE  /\ Complete(file) \in Seq(Pieces) /\ PipelineOutput(file) \in Seq(Pieces)
           /\ Len(Complete(file)) \in Nat
<1>0. <<"units">> \in Seq(Pieces) /\ <<>> \in Seq(Pieces)
  BY DEF Pieces
<1>1. Complete(file) \in Seq(Pieces)
  BY <1>0 DEF Complete
<1>2. (IF file.odd THEN <<"oddbyte">> ELSE <<>>) \in Seq(Pieces) /\ <<"positions">> \in Seq(Pieces)
      /\ <<>> \in Seq(Pieces)
  BY DEF Pieces
<1>3. Complete(file) \o (IF file.odd THEN <<"oddbyte">> ELSE <<>>) \in Seq(Pieces)
  BY <1>1, <1>2, ConcatProperties
<1>4. QED  BY <1>1, <1>2, <1>3 DEF PipelineOutput

\* No success is reported unless a document says so.
LEMMA NotYetHonest == doc'.status # "ok" => HonestDocument'
  BY DEF HonestDocument

\* A step that stays with its file leaves what is expected of it alone.
LEMMA SameFile ==
    ASSUME files' = files, i' = i, opt' = opt
    PROVE  /\ RepairedText(i - 1)' = RepairedText(i - 1) /\ File' = File
           /\ PipelineOutput(File)' = PipelineOutput(File)
           /\ RepairedText(Len(files))' = RepairedText(Len(files))
<1>1. RepairedText(i - 1)' = RepairedText(i - 1) /\ File' = File
  BY DEF RepairedText, Complete, File
<1>2. RepairedText(Len(files))' = RepairedText(Len(files))
  BY DEF RepairedText, Complete
<1>3. PipelineOutput(File)' = PipelineOutput(File)
  BY DEF PipelineOutput, Pipeline, Complete, File
<1>4. QED  BY <1>1, <1>2, <1>3

\* Within a file: which one, and where descriptor 1 leads while nothing that
\* matters has failed.
LEMMA WithinFile ==
    ASSUME IInv, pc \notin {"args", "done"}
    PROVE  /\ i \in 1..Len(files) /\ File \in InputFile
           /\ opt.json => Len(files) = 1 /\ i = 1 /\ ~(i < Len(files))
           /\ opt.json \/ failed = {} => fd1 = (IF Redirected THEN "tmp" ELSE "stdout")
<1>1. i \in 1..Len(files) /\ (opt.json => Len(files) = 1)
  BY DEF IInv, Selected, InFile
<1>2. ASSUME opt.json PROVE Len(files) = 1 /\ i = 1 /\ ~(i < Len(files))
  <2>1. Len(files) = 1
    BY <1>1, <1>2
  <2>2. QED  BY <1>1, <2>1
<1>3. File \in InputFile
  BY <1>1, FilesFacts DEF File, IInv
<1>4. Sound => fd1 = (IF Redirected THEN "tmp" ELSE "stdout")
  BY DEF IInv, Leads
<1>5. opt.json \/ failed = {} => Sound
  BY DEF Sound
<1>6. QED  BY <1>1, <1>2, <1>3, <1>4, <1>5

\* The repaired text of one file, and of the files up to it.
RepairedOf(file) == Complete(file) \o (IF file.odd THEN <<"fffd">> ELSE <<>>)

\* The same, of prefixes whose range does not matter.
\* The repaired text of the files up to this one ends with that of this one.
LEMMA NextText ==
    ASSUME opt \in Options, files \in Seq(InputFile), i \in 1..Len(files)
    PROVE  RepairedText(i) = RepairedText(i - 1) \o RepairedOf(File)
<1> DEFINE T(n) == [k \in 1..n |-> RepairedOf(files[k])]
<1>1. \A k \in 1..Len(files) : RepairedOf(files[k]) \in Seq(Pieces)
  <2>1. TAKE k \in 1..Len(files)
  <2>2. Complete(files[k]) \in Seq(Pieces)
    BY OutputFacts
  <2>3. (IF files[k].odd THEN <<"fffd">> ELSE <<>>) \in Seq(Pieces)
    <3>1. <<"fffd">> \in Seq(Pieces) /\ <<>> \in Seq(Pieces)
      BY DEF Pieces
    <3>2. QED  BY <3>1
  <2>4. QED  BY <2>2, <2>3, ConcatProperties DEF RepairedOf
<1>2. \A n : RepairedText(n) = FlattenSeq(T(n))
  BY DEF RepairedText, RepairedOf
<1>3. PICK n \in Nat : i = n + 1
  <2>1. i - 1 \in Nat /\ i = (i - 1) + 1
    OBVIOUS
  <2>2. QED  BY <2>1
<1>4. T(n + 1) \in [1..n+1 -> Seq(Pieces)]
  BY <1>1, <1>3
<1>5. FlattenSeq(T(n + 1)) = FlattenSeq([k \in 1..n |-> T(n + 1)[k]]) \o T(n + 1)[n + 1]
  BY <1>4, FlattenNext
<1>6. [k \in 1..n |-> T(n + 1)[k]] = T(n) /\ T(n + 1)[n + 1] = RepairedOf(files[n + 1])
  OBVIOUS
<1>7. i - 1 = n
  BY <1>3
<1>8. QED  BY <1>2, <1>3, <1>5, <1>6, <1>7 DEF File

\* When a file has been repaired, the text is that of the files before the
\* next one, or of all.
LEMMA TextDone ==
    ASSUME files' = files, i \in 1..Len(files), Len(files) \in Nat, stdout' = RepairedText(i)
    PROVE  /\ i' = i + 1 => stdout' = RepairedText(i - 1)'
           /\ i = Len(files) => stdout' = RepairedText(Len(files))'
<1> DEFINE J(n) == FlattenSeq([k \in 1..n |-> Complete(files[k])
                                  \o (IF files[k].odd THEN <<"fffd">> ELSE <<>>)])
<1>1. \A n : RepairedText(n) = J(n)
  BY DEF RepairedText
<1>2. RepairedText(i - 1)' = J(i' - 1) /\ RepairedText(Len(files))' = J(Len(files))
  BY DEF RepairedText, Complete
<1> HIDE DEF J
<1>3. i' = i + 1 => i' - 1 = i
  OBVIOUS
<1>4. QED  BY <1>1, <1>2, <1>3

\* The policy leaves pieces, and turns what the repair pipeline wrote for a
\* file of odd length into its repaired text.
LEMMA PolicyFacts ==
    ASSUME opt \in Options, File \in InputFile
    PROVE  /\ \A s \in Seq(Pieces) : OddPolicy(s) \in Seq(Pieces)
           /\ opt.repair /\ File.odd => OddPolicy(PipelineOutput(File)) = RepairedOf(File)
           /\ opt.repair /\ ~File.odd => PipelineOutput(File) = RepairedOf(File)
           /\ "oddbyte" \notin Range(RepairedOf(File))
<1> DEFINE keep == Len(Complete(File))
<1>0. <<"fffd">> \in Seq(Pieces) /\ keep \in Nat
  BY OutputFacts DEF Pieces
<1>1. ASSUME NEW s \in Seq(Pieces) PROVE OddPolicy(s) \in Seq(Pieces)
  <2>1. Len(s) > keep => SubSeq(s, 1, keep) \in Seq(Pieces)
    BY <1>0, SubSeqProperties
  <2>2. (IF Len(s) > keep THEN SubSeq(s, 1, keep) ELSE s) \in Seq(Pieces)
    BY <2>1
  <2>3. QED  BY <1>0, <2>2, ConcatProperties DEF OddPolicy
<1>2. opt.repair => PipelineOutput(File) =
                      Complete(File) \o (IF File.odd THEN <<"oddbyte">> ELSE <<>>)
  BY DEF PipelineOutput, Pipeline
<1>3. opt.repair /\ ~File.odd => PipelineOutput(File) = RepairedOf(File)
  BY <1>2 DEF RepairedOf
<1>4. ASSUME opt.repair, File.odd PROVE OddPolicy(PipelineOutput(File)) = RepairedOf(File)
  <2> DEFINE c == Complete(File)
             o == <<"oddbyte">>
  <2>1. c \in Seq(Pieces) /\ o \in Seq(Pieces) /\ keep = Len(c) /\ Len(o) = 1
    BY OutputFacts DEF Pieces
  <2>2. PipelineOutput(File) = c \o o
    BY <1>2, <1>4
  <2> HIDE DEF c, o
  <2>3. Len(c \o o) = Len(c) + 1
    BY <2>1, ConcatProperties
  <2>4. SubSeq(c \o o, 1, keep) = SubSeq(c, 1, keep)
    BY <1>0, <2>1, SubSeqOfConcat1
  <2>5. SubSeq(c, 1, keep) = c
    BY <2>1, SubSeqFull
  <2>6. Len(c \o o) > keep
    BY <1>0, <2>1, <2>3
  <2>7. OddPolicy(c \o o) = c \o <<"fffd">>
    BY <2>4, <2>5, <2>6 DEF OddPolicy, c
  <2>8. QED  BY <1>4, <2>2, <2>7 DEF RepairedOf, c
<1>5. "oddbyte" \notin Range(RepairedOf(File))
  <2> DEFINE c == Complete(File)
             e == IF File.odd THEN <<"fffd">> ELSE <<>>
  <2>0. <<>> \in Seq(Pieces) /\ <<"fffd">> \in Seq(Pieces) /\ <<"units">> \in Seq(Pieces)
    BY DEF Pieces
  <2>1. c \in Seq(Pieces) /\ e \in Seq(Pieces)
    BY <2>0, OutputFacts
  <2>2. c \in {<<>>, <<"units">>} /\ e \in {<<>>, <<"fffd">>}
    BY DEF Complete
  <2>3. RepairedOf(File) = c \o e
    BY DEF RepairedOf
  <2> HIDE DEF c, e
  <2>4. "oddbyte" \notin Range(c)
    BY <2>2 DEF Range
  <2>5. "oddbyte" \notin Range(e)
    BY <2>2 DEF Range
  <2>6. QED  BY <2>1, <2>3, <2>4, <2>5, RangeConcatenation
<1>6. QED  BY <1>1, <1>3, <1>4, <1>5

\* The document that reports success is right about what was captured.
LEMMA HonestSuccess ==
    ASSUME opt \in Options, File \in InputFile, ProperOptions, statOK,
           NeedsCapture => captured = PipelineOutput(File),
           opt.repair /\ (File.units \/ File.odd) => inputRead
    PROVE  /\ SuccessDoc.operation = Pipeline
           /\ SuccessDoc.markCount \in {"absent", "marks"}
           /\ SuccessDoc.positions = (IF Pipeline \in {"locate_scan", "locate_linear"}
                                      THEN <<"positions">> ELSE <<"absent">>)
           /\ Pipeline = "repair" =>
                 /\ SuccessDoc.repaired = RepairedOf(File)
                 /\ SuccessDoc.outputValid
                 /\ File.units \/ File.odd => SuccessDoc.replacements = "all"
<1>1. OperationName = Pipeline
  BY DEF OperationName, Pipeline, ProperOptions, Options
<1>2. Pipeline = "repair" <=> opt.repair
  BY DEF Pipeline, Options
<1>3. Pipeline \in {"locate_scan", "locate_linear"} <=> ~opt.repair /\ (opt.print \/ opt.scan)
  BY DEF Pipeline, Options, ProperOptions
<1>4. ~opt.repair /\ (opt.print \/ opt.scan) => captured = <<"positions">>
  <2>1. Pipeline \in {"locate_scan", "locate_linear"} => PipelineOutput(File) = <<"positions">>
    BY DEF PipelineOutput
  <2>2. QED  BY <1>3, <2>1 DEF NeedsCapture
<1>5. opt.repair => ReportedText = RepairedOf(File)
  BY PolicyFacts DEF ReportedText, NeedsCapture
<1>6. opt.repair => "oddbyte" \notin Range(ReportedText)
  BY <1>5, PolicyFacts
<1>7. SuccessDoc.operation = Pipeline
  BY <1>1 DEF SuccessDoc
<1>8. SuccessDoc.markCount \in {"absent", "marks"}
  BY DEF SuccessDoc
<1>9. SuccessDoc.positions = (IF Pipeline \in {"locate_scan", "locate_linear"}
                              THEN <<"positions">> ELSE <<"absent">>)
  BY <1>3, <1>4 DEF SuccessDoc
<1>10. opt.repair => SuccessDoc.repaired = RepairedOf(File)
  BY <1>5 DEF SuccessDoc
<1>11. opt.repair => SuccessDoc.outputValid
  BY <1>6 DEF SuccessDoc
<1>12. opt.repair /\ (File.units \/ File.odd) => SuccessDoc.replacements = "all"
  BY DEF SuccessDoc
<1>13. QED  BY <1>2, <1>7, <1>8, <1>9, <1>10, <1>11, <1>12

-----------------------------------------------------------------------------
(* The steps: each keeps every part of the invariant.                      *)

\* main's own checks of the command line.
LEMMA ArgsKeeps == IInv /\ Args => IInv'
<1> SUFFICES ASSUME IInv, Args PROVE IInv'
  OBVIOUS
<1>1. pc # "done" /\ opt' = opt /\ files' = files
  BY DEF Args, environment
<1>2. /\ doc = NoDoc /\ doc.status = "none" /\ (opt.json => stdout = <<>>)
      /\ stdout \in Seq(Pieces) /\ tmp \in Seq(Pieces) /\ captured \in Seq(Pieces)
      /\ files \in Seq(InputFile) /\ Len(files) \in Nat /\ i \in Nat
  BY <1>1, NothingYet
<1>3. opt.json /\ Len(files) # 1 =>
           /\ stdout' \in Seq(Pieces) /\ tmp' \in Seq(Pieces)
           /\ doc'.status = "error"
           /\ fd1 # "stdout" => stdout' = stdout
           /\ fd1 = "stdout" /\ stdout = <<>> => stdout' = <<"document">>
  BY <1>2, ErrorFacts DEF Args
<1>4. TypeOK'
  BY <1>1, <1>3 DEF Args, TypeOK, IInv
<1>5. InPieces'
  BY <1>1, <1>2, <1>3 DEF Args, InPieces
<1>6. Selected'
  <2>1. i = 1 /\ i' = 1
    BY DEF Args, IInv, Selected
  <2>2. pc' \in {"open", "done"} /\ (pc' = "open" => files # <<>> /\ (opt.json => Len(files) = 1))
    BY DEF Args
  <2>3. files # <<>> => 1 \in 1..Len(files)
    OBVIOUS
  <2>4. QED  BY <1>1, <2>1, <2>2 DEF Selected, InFile
<1>7. OpenFds'
  BY DEF Args, IInv, OpenFds
<1>8. Leads'
  BY <1>1 DEF Args, IInv, Leads, Sound, Redirected
<1>9. CapturedOutput'
  BY DEF Args, CapturedOutput
<1>10. Learned'
  BY DEF Args, Learned
<1>11. OneFile'
  <2>1. opt.json => fd1 = "stdout"
    <3>1. opt.json => Sound /\ ~Redirected
      BY DEF Args, Redirected, Sound
    <3>2. QED  BY <3>1 DEF IInv, Leads
  <2>2. files = <<>> => Len(files) # 1
    OBVIOUS
  <2>3. opt.json /\ Len(files) # 1 => pc' = "done" /\ exit' = 1
    BY DEF Args
  <2>4. opt.json /\ Len(files) = 1 => pc' = "open" /\ stdout' = stdout /\ doc' = doc
    BY DEF Args
  <2>5. QED  BY <1>1, <1>2, <1>3, <2>1, <2>3, <2>4
              DEF OneFile, OneDocument, ExitTellsStatus
<1>12. TextSoFar'
  <2>1. i = 1 /\ i' = i
    BY DEF Args, IInv, Selected
  <2>2. ~opt.json => stdout' = stdout /\ failed' = failed /\ pc' \in {"open", "done"}
                       /\ (pc' = "done" => Len(files) = 0)
    BY DEF Args
  <2>3. TextSoFar /\ pc = "args"
    BY DEF IInv, Args
  <2>4. Len(files) = 0 => RepairedText(Len(files)) = RepairedText(i - 1)
    BY <2>1
  <2>5. QED  BY <1>1, <2>1, <2>2, <2>3, SameFile DEF TextSoFar
<1>13. HonestDocument'
  BY <1>2, <1>3, NotYetHonest DEF Args
<1>14. QED  BY <1>4, <1>5, <1>6, <1>7, <1>8, <1>9, <1>10, <1>11, <1>12, <1>13
             DEF IInv

\* The file is opened.
LEMMA OpenKeeps == IInv /\ Open => IInv'
<1> SUFFICES ASSUME IInv, Open PROVE IInv'
  OBVIOUS
<1>1. pc # "done" /\ opt' = opt /\ files' = files
  BY DEF Open, environment
<1>2. /\ doc = NoDoc /\ doc.status = "none" /\ (opt.json => stdout = <<>>)
      /\ stdout \in Seq(Pieces) /\ tmp \in Seq(Pieces) /\ captured \in Seq(Pieces)
      /\ files \in Seq(InputFile) /\ Len(files) \in Nat /\ i \in Nat
  BY <1>1, NothingYet
<1>3. TypeOK'
  BY <1>1 DEF Open, TypeOK, IInv
<1>4. InPieces'
  BY <1>2 DEF Open, InPieces
<1>5. Selected'
  BY <1>1 DEF Open, IInv, Selected, InFile
<1>6. OpenFds'
  BY <1>1 DEF Open, IInv, OpenFds, Capturing, OddRepair
<1>7. Leads'
  BY <1>1 DEF Open, IInv, Leads, Sound, Redirected, Capturing, OddRepair
<1>8. CapturedOutput'
  BY DEF Open, CapturedOutput
<1>9. Learned'
  BY <1>1 DEF Open, Learned
<1>10. OneFile'
  BY <1>1, <1>2 DEF Open, OneFile, OneDocument, ExitTellsStatus
<1>11. TextSoFar'
  BY <1>1, SameFile DEF Open, IInv, TextSoFar
<1>12. HonestDocument'
  BY <1>2, NotYetHonest DEF Open
<1>13. QED  BY <1>3, <1>4, <1>5, <1>6, <1>7, <1>8, <1>9, <1>10, <1>11, <1>12
             DEF IInv

\* The file cannot be opened: the run reports it, or goes on to the next file.
LEMMA OpenFailsKeeps == IInv /\ OpenFails => IInv'
<1> SUFFICES ASSUME IInv, OpenFails PROVE IInv'
  OBVIOUS
<1>1. pc # "done" /\ opt' = opt /\ files' = files
  BY DEF OpenFails, environment
<1>2. /\ doc = NoDoc /\ doc.status = "none" /\ (opt.json => stdout = <<>>)
      /\ stdout \in Seq(Pieces) /\ tmp \in Seq(Pieces) /\ captured \in Seq(Pieces)
      /\ files \in Seq(InputFile) /\ Len(files) \in Nat /\ i \in Nat
  BY <1>1, NothingYet
<1>3. /\ i' \in 1..Len(files)'
           /\ \/ i < Len(files) /\ i' = i + 1 /\ pc' = "open" /\ exit' = exit
              \/ i = Len(files) /\ i' = i /\ pc' = "done" /\ exit' = IF ~opt.json THEN 0 ELSE 1
  <2>1. i \in 1..Len(files) /\ opt.json \in BOOLEAN
    BY DEF IInv, Selected, OpenFails, InFile, TypeOK, Options
  <2>2. QED  BY <1>1, <1>2, <2>1, ReturnFacts DEF OpenFails
<1>4. opt.json =>
           /\ stdout' \in Seq(Pieces) /\ tmp' \in Seq(Pieces)
           /\ doc'.status = "error"
           /\ fd1 # "stdout" => stdout' = stdout
           /\ fd1 = "stdout" /\ stdout = <<>> => stdout' = <<"document">>
  BY <1>2, ErrorFacts DEF OpenFails
<1>5. opt.json => pc' = "done" /\ exit' = 1
                  /\ fd1 = (IF Redirected THEN "tmp" ELSE "stdout")
  <2>1. pc \notin {"args", "done"}
    BY DEF OpenFails
  <2>2. opt.json => Len(files) = 1 /\ i = 1 /\ ~(i < Len(files))
    BY <2>1, WithinFile
  <2>4. opt.json => fd1 = (IF Redirected THEN "tmp" ELSE "stdout")
    BY <2>1, WithinFile
  <2>3. QED  BY <1>3, <2>2, <2>4
<1>6. TypeOK'
  BY <1>1, <1>3, <1>4 DEF OpenFails, Fails, TypeOK, IInv, SysCalls
<1>7. InPieces'
  BY <1>1, <1>2, <1>4 DEF OpenFails, InPieces
<1>8. Selected'
  BY <1>1, <1>3, <1>5 DEF Selected, InFile
<1>9. OpenFds'
  BY <1>3 DEF OpenFails, IInv, OpenFds
<1>10. Leads'
  BY <1>1, <1>3 DEF OpenFails, Fails, IInv, Leads, Sound, Redirected
<1>11. CapturedOutput'
  BY <1>3 DEF CapturedOutput
<1>12. Learned'
  BY <1>3 DEF Learned
<1>13. OneFile'
  BY <1>1, <1>2, <1>4, <1>5
   DEF OpenFails, OneFile, OneDocument, ExitTellsStatus, Redirected
<1>14. TextSoFar'
  BY DEF OpenFails, Fails, TextSoFar
<1>15. HonestDocument'
  BY <1>2, <1>4, NotYetHonest DEF OpenFails
<1>16. QED  BY <1>6, <1>7, <1>8, <1>9, <1>10, <1>11, <1>12, <1>13, <1>14, <1>15
             DEF IInv

\* The file's size is taken.
LEMMA FstatKeeps == IInv /\ Fstat => IInv'
<1> SUFFICES ASSUME IInv, Fstat PROVE IInv'
  OBVIOUS
<1>1. pc # "done" /\ opt' = opt /\ files' = files
  BY DEF Fstat, environment
<1>2. /\ doc = NoDoc /\ doc.status = "none" /\ (opt.json => stdout = <<>>)
      /\ stdout \in Seq(Pieces) /\ tmp \in Seq(Pieces) /\ captured \in Seq(Pieces)
      /\ files \in Seq(InputFile) /\ Len(files) \in Nat /\ i \in Nat
  BY <1>1, NothingYet
<1>3. TypeOK'
  BY <1>1 DEF Fstat, Fails, TypeOK, IInv, SysCalls
<1>4. InPieces'
  BY <1>2 DEF Fstat, InPieces
<1>5. Selected'
  BY <1>1 DEF Fstat, IInv, Selected, Capturing, OddRepair, File, InFile
<1>6. OpenFds'
  BY <1>1 DEF Fstat, IInv, OpenFds, Capturing, OddRepair, File
<1>7. Leads'
  BY <1>1
   DEF Fstat, Fails, IInv, Leads, Sound, Redirected, Capturing, OddRepair, File
<1>8. CapturedOutput'
  BY <1>1 DEF Fstat, Fails, IInv, CapturedOutput, Sound
<1>9. Learned'
  BY <1>1 DEF Fstat, Fails, Learned, File
<1>10. OneFile'
  BY <1>1, <1>2 DEF Fstat, OneFile, OneDocument, ExitTellsStatus
<1>11. TextSoFar'
  BY <1>1, SameFile DEF Fstat, Fails, IInv, TextSoFar
<1>12. HonestDocument'
  BY <1>2, NotYetHonest DEF Fstat
<1>13. QED  BY <1>3, <1>4, <1>5, <1>6, <1>7, <1>8, <1>9, <1>10, <1>11, <1>12
             DEF IInv

\* A JSON repair reads the file to describe it.
LEMMA ReadInputKeeps == IInv /\ ReadInput => IInv'
<1> SUFFICES ASSUME IInv, ReadInput PROVE IInv'
  OBVIOUS
<1>1. pc # "done" /\ opt' = opt /\ files' = files
  BY DEF ReadInput, environment
<1>2. /\ doc = NoDoc /\ doc.status = "none" /\ (opt.json => stdout = <<>>)
      /\ stdout \in Seq(Pieces) /\ tmp \in Seq(Pieces) /\ captured \in Seq(Pieces)
      /\ files \in Seq(InputFile) /\ Len(files) \in Nat /\ i \in Nat
  BY <1>1, NothingYet
<1>3. TypeOK'
  BY <1>1 DEF ReadInput, Fails, TypeOK, IInv, SysCalls
<1>4. InPieces'
  BY <1>2 DEF ReadInput, InPieces
<1>5. Selected'
  BY <1>1 DEF ReadInput, IInv, Selected, Capturing, InFile
<1>6. OpenFds'
  BY DEF ReadInput, IInv, OpenFds
<1>7. Leads'
  BY DEF ReadInput, Fails, IInv, Selected, Leads, Redirected
<1>8. CapturedOutput'
  BY <1>1 DEF ReadInput, Fails, IInv, CapturedOutput, Sound
<1>9. Learned'
  BY <1>1 DEF ReadInput, Fails, IInv, Learned
<1>10. OneFile'
  BY <1>1, <1>2 DEF ReadInput, OneFile, OneDocument, ExitTellsStatus
<1>11. TextSoFar'
  BY <1>1, SameFile DEF ReadInput, Fails, IInv, TextSoFar
<1>12. HonestDocument'
  BY <1>2, NotYetHonest DEF ReadInput
<1>13. QED  BY <1>3, <1>4, <1>5, <1>6, <1>7, <1>8, <1>9, <1>10, <1>11, <1>12
             DEF IInv

\* The temporary file is made.
LEMMA TmpfileKeeps == IInv /\ Tmpfile => IInv'
<1> SUFFICES ASSUME IInv, Tmpfile PROVE IInv'
  OBVIOUS
<1>1. pc # "done" /\ opt' = opt /\ files' = files
  BY DEF Tmpfile, environment
<1>2. /\ doc = NoDoc /\ doc.status = "none" /\ (opt.json => stdout = <<>>)
      /\ stdout \in Seq(Pieces) /\ tmp \in Seq(Pieces) /\ captured \in Seq(Pieces)
      /\ files \in Seq(InputFile) /\ Len(files) \in Nat /\ i \in Nat
  BY <1>1, NothingYet
<1>3. TypeOK'
  BY <1>1 DEF Tmpfile, TypeOK, IInv
<1>4. InPieces'
  BY <1>2 DEF Tmpfile, InPieces
<1>5. Selected'
  BY <1>1 DEF Tmpfile, IInv, Selected, Capturing, OddRepair, File, InFile
<1>6. OpenFds'
  BY DEF Tmpfile, IInv, OpenFds
<1>7. Leads'
  BY <1>1 DEF Tmpfile, IInv, Leads, Sound, Redirected
<1>8. CapturedOutput'
  BY <1>1 DEF Tmpfile, IInv, CapturedOutput, Sound
<1>9. Learned'
  BY <1>1 DEF Tmpfile, IInv, Learned, File
<1>10. OneFile'
  BY <1>1, <1>2 DEF Tmpfile, OneFile, OneDocument, ExitTellsStatus
<1>11. TextSoFar'
  BY <1>1, SameFile DEF Tmpfile, IInv, TextSoFar
<1>12. HonestDocument'
  BY <1>2, NotYetHonest DEF Tmpfile
<1>13. QED  BY <1>3, <1>4, <1>5, <1>6, <1>7, <1>8, <1>9, <1>10, <1>11, <1>12
             DEF IInv

\* There is no temporary file.
LEMMA TmpfileFailsKeeps == IInv /\ TmpfileFails => IInv'
<1> SUFFICES ASSUME IInv, TmpfileFails PROVE IInv'
  OBVIOUS
<1>1. pc # "done" /\ opt' = opt /\ files' = files
  BY DEF TmpfileFails, environment
<1>2. /\ doc = NoDoc /\ doc.status = "none" /\ (opt.json => stdout = <<>>)
      /\ stdout \in Seq(Pieces) /\ tmp \in Seq(Pieces) /\ captured \in Seq(Pieces)
      /\ files \in Seq(InputFile) /\ Len(files) \in Nat /\ i \in Nat
  BY <1>1, NothingYet
<1>3. /\ i' \in 1..Len(files)'
           /\ \/ i < Len(files) /\ i' = i + 1 /\ pc' = "open" /\ exit' = exit
              \/ i = Len(files) /\ i' = i /\ pc' = "done" /\ exit' = IF ~opt.json THEN 0 ELSE 1
  <2>1. i \in 1..Len(files) /\ opt.json \in BOOLEAN
    BY DEF IInv, Selected, TmpfileFails, InFile, TypeOK, Options
  <2>2. QED  BY <1>1, <1>2, <2>1, ReturnFacts DEF TmpfileFails
<1>4. opt.json =>
           /\ stdout' \in Seq(Pieces) /\ tmp' \in Seq(Pieces)
           /\ doc'.status = "error"
           /\ fd1 # "stdout" => stdout' = stdout
           /\ fd1 = "stdout" /\ stdout = <<>> => stdout' = <<"document">>
  BY <1>2, ErrorFacts DEF TmpfileFails
<1>5. opt.json => pc' = "done" /\ exit' = 1
                  /\ fd1 = (IF Redirected THEN "tmp" ELSE "stdout")
  <2>1. pc \notin {"args", "done"}
    BY DEF TmpfileFails
  <2>2. opt.json => Len(files) = 1 /\ i = 1 /\ ~(i < Len(files))
    BY <2>1, WithinFile
  <2>4. opt.json => fd1 = (IF Redirected THEN "tmp" ELSE "stdout")
    BY <2>1, WithinFile
  <2>3. QED  BY <1>3, <2>2, <2>4
<1>6. TypeOK'
  BY <1>1, <1>3, <1>4 DEF TmpfileFails, Fails, TypeOK, IInv, SysCalls
<1>7. InPieces'
  <2>1. PipelineOutput(File) \o <<"fffd">> \in Seq(Pieces)
    <3>1. File \in InputFile /\ opt \in Options
      BY WithinFile DEF TmpfileFails, IInv, TypeOK
    <3>2. <<"fffd">> \in Seq(Pieces)
      BY DEF Pieces
    <3>3. QED  BY <3>1, <3>2, OutputFacts
  <2>2. stdout' \in Seq(Pieces) /\ tmp' \in Seq(Pieces)
    BY <1>2, <1>4, <2>1, WriteFacts DEF TmpfileFails
  <2>3. QED  BY <1>1, <1>2, <2>2 DEF TmpfileFails, InPieces
<1>8. Selected'
  BY <1>1, <1>3, <1>5 DEF Selected, InFile
<1>9. OpenFds'
  BY <1>3 DEF TmpfileFails, IInv, OpenFds
<1>10. Leads'
  BY <1>1, <1>3 DEF TmpfileFails, Fails, IInv, Leads, Sound, Redirected
<1>11. CapturedOutput'
  BY <1>3 DEF CapturedOutput
<1>12. Learned'
  BY <1>3 DEF Learned
<1>13. OneFile'
  BY <1>1, <1>2, <1>4, <1>5
   DEF TmpfileFails, OneFile, OneDocument, ExitTellsStatus, Redirected
<1>14. TextSoFar'
  BY DEF TmpfileFails, Fails, TextSoFar
<1>15. HonestDocument'
  BY <1>2, <1>4, NotYetHonest DEF TmpfileFails
<1>16. QED  BY <1>6, <1>7, <1>8, <1>9, <1>10, <1>11, <1>12, <1>13, <1>14, <1>15
             DEF IInv

\* Descriptor 1 is copied.
LEMMA DupKeeps == IInv /\ Dup => IInv'
<1> SUFFICES ASSUME IInv, Dup PROVE IInv'
  OBVIOUS
<1>1. pc # "done" /\ opt' = opt /\ files' = files
  BY DEF Dup, environment
<1>2. /\ doc = NoDoc /\ doc.status = "none" /\ (opt.json => stdout = <<>>)
      /\ stdout \in Seq(Pieces) /\ tmp \in Seq(Pieces) /\ captured \in Seq(Pieces)
      /\ files \in Seq(InputFile) /\ Len(files) \in Nat /\ i \in Nat
  BY <1>1, NothingYet
<1>3. TypeOK'
  BY <1>1 DEF Dup, TypeOK, IInv
<1>4. InPieces'
  BY <1>2 DEF Dup, InPieces
<1>5. Selected'
  BY <1>1 DEF Dup, IInv, Selected, Capturing, OddRepair, File, InFile
<1>6. OpenFds'
  BY DEF Dup, IInv, OpenFds
<1>7. Leads'
  BY <1>1 DEF Dup, IInv, Leads, Sound, Redirected
<1>8. CapturedOutput'
  BY <1>1 DEF Dup, IInv, CapturedOutput, Sound
<1>9. Learned'
  BY <1>1 DEF Dup, IInv, Learned, File
<1>10. OneFile'
  BY <1>1, <1>2 DEF Dup, OneFile, OneDocument, ExitTellsStatus
<1>11. TextSoFar'
  BY <1>1, SameFile DEF Dup, IInv, TextSoFar
<1>12. HonestDocument'
  BY <1>2, NotYetHonest DEF Dup
<1>13. QED  BY <1>3, <1>4, <1>5, <1>6, <1>7, <1>8, <1>9, <1>10, <1>11, <1>12
             DEF IInv

\* Descriptor 1 cannot be copied.
LEMMA DupFailsKeeps == IInv /\ DupFails => IInv'
<1> SUFFICES ASSUME IInv, DupFails PROVE IInv'
  OBVIOUS
<1>1. pc # "done" /\ opt' = opt /\ files' = files
  BY DEF DupFails, environment
<1>2. /\ doc = NoDoc /\ doc.status = "none" /\ (opt.json => stdout = <<>>)
      /\ stdout \in Seq(Pieces) /\ tmp \in Seq(Pieces) /\ captured \in Seq(Pieces)
      /\ files \in Seq(InputFile) /\ Len(files) \in Nat /\ i \in Nat
  BY <1>1, NothingYet
<1>3. opt.json => /\ i' \in 1..Len(files)'
           /\ \/ i < Len(files) /\ i' = i + 1 /\ pc' = "open" /\ exit' = exit
              \/ i = Len(files) /\ i' = i /\ pc' = "done" /\ exit' = 1
  <2>1. i \in 1..Len(files) /\ opt.json \in BOOLEAN
    BY DEF IInv, Selected, DupFails, InFile, TypeOK, Options
  <2>2. QED  BY <1>1, <1>2, <2>1, ReturnFacts DEF DupFails
<1>4. opt.json =>
           /\ stdout' \in Seq(Pieces) /\ tmp' \in Seq(Pieces)
           /\ doc'.status = "error"
           /\ fd1 # "stdout" => stdout' = stdout
           /\ fd1 = "stdout" /\ stdout = <<>> => stdout' = <<"document">>
  BY <1>2, ErrorFacts DEF DupFails
<1>5. opt.json => pc' = "done" /\ exit' = 1
                  /\ fd1 = (IF Redirected THEN "tmp" ELSE "stdout")
  <2>1. pc \notin {"args", "done"}
    BY DEF DupFails
  <2>2. opt.json => Len(files) = 1 /\ i = 1 /\ ~(i < Len(files))
    BY <2>1, WithinFile
  <2>4. opt.json => fd1 = (IF Redirected THEN "tmp" ELSE "stdout")
    BY <2>1, WithinFile
  <2>3. QED  BY <1>3, <2>2, <2>4
<1>6. TypeOK'
  BY <1>1, <1>3, <1>4 DEF DupFails, Fails, TypeOK, IInv, SysCalls
<1>7. InPieces'
  BY <1>1, <1>2, <1>4 DEF DupFails, InPieces
<1>8. Selected'
  BY <1>1, <1>3 DEF DupFails, IInv, Selected, Capturing, OddRepair, File, InFile
<1>9. OpenFds'
  BY <1>3 DEF DupFails, IInv, OpenFds
<1>10. Leads'
  BY <1>1, <1>5 DEF DupFails, Fails, Leads, Sound
<1>11. CapturedOutput'
  BY <1>1, <1>3 DEF DupFails, Fails, CapturedOutput, Sound
<1>12. Learned'
  BY <1>1, <1>3 DEF DupFails, Fails, IInv, Learned
<1>13. OneFile'
  BY <1>1, <1>2, <1>4, <1>5
   DEF DupFails, OneFile, OneDocument, ExitTellsStatus, Redirected
<1>14. TextSoFar'
  BY DEF DupFails, Fails, TextSoFar
<1>15. HonestDocument'
  BY <1>2, <1>4, NotYetHonest DEF DupFails
<1>16. QED  BY <1>6, <1>7, <1>8, <1>9, <1>10, <1>11, <1>12, <1>13, <1>14, <1>15
             DEF IInv

\* Descriptor 1 is led into the temporary file.
LEMMA RedirectKeeps == IInv /\ Redirect => IInv'
<1> SUFFICES ASSUME IInv, Redirect PROVE IInv'
  OBVIOUS
<1>1. pc # "done" /\ opt' = opt /\ files' = files
  BY DEF Redirect, environment
<1>2. /\ doc = NoDoc /\ doc.status = "none" /\ (opt.json => stdout = <<>>)
      /\ stdout \in Seq(Pieces) /\ tmp \in Seq(Pieces) /\ captured \in Seq(Pieces)
      /\ files \in Seq(InputFile) /\ Len(files) \in Nat /\ i \in Nat
  BY <1>1, NothingYet
<1>3. TypeOK'
  BY <1>1 DEF Redirect, TypeOK, IInv
<1>4. InPieces'
  BY <1>2 DEF Redirect, InPieces
<1>5. Selected'
  BY <1>1 DEF Redirect, IInv, Selected, InFile
<1>6. OpenFds'
  BY <1>1 DEF Redirect, IInv, Selected, OpenFds, Capturing, OddRepair, File
<1>7. Leads'
  BY <1>1
   DEF Redirect, IInv, Selected, Leads, Sound, Redirected, Capturing, OddRepair,
       File
<1>8. CapturedOutput'
  BY <1>1 DEF Redirect, IInv, CapturedOutput, Sound
<1>9. Learned'
  BY <1>1 DEF Redirect, IInv, Learned, File
<1>10. OneFile'
  BY <1>1, <1>2 DEF Redirect, OneFile, OneDocument, ExitTellsStatus
<1>11. TextSoFar'
  BY <1>1, SameFile DEF Redirect, IInv, TextSoFar
<1>12. HonestDocument'
  BY <1>2, NotYetHonest DEF Redirect
<1>13. QED  BY <1>3, <1>4, <1>5, <1>6, <1>7, <1>8, <1>9, <1>10, <1>11, <1>12
             DEF IInv

\* Descriptor 1 cannot be led into the temporary file.
LEMMA RedirectFailsKeeps == IInv /\ RedirectFails => IInv'
<1> SUFFICES ASSUME IInv, RedirectFails PROVE IInv'
  OBVIOUS
<1>1. pc # "done" /\ opt' = opt /\ files' = files
  BY DEF RedirectFails, environment
<1>2. /\ doc = NoDoc /\ doc.status = "none" /\ (opt.json => stdout = <<>>)
      /\ stdout \in Seq(Pieces) /\ tmp \in Seq(Pieces) /\ captured \in Seq(Pieces)
      /\ files \in Seq(InputFile) /\ Len(files) \in Nat /\ i \in Nat
  BY <1>1, NothingYet
<1>3. opt.json => /\ i' \in 1..Len(files)'
           /\ \/ i < Len(files) /\ i' = i + 1 /\ pc' = "open" /\ exit' = exit
              \/ i = Len(files) /\ i' = i /\ pc' = "done" /\ exit' = 1
  <2>1. i \in 1..Len(files) /\ opt.json \in BOOLEAN
    BY DEF IInv, Selected, RedirectFails, InFile, TypeOK, Options
  <2>2. QED  BY <1>1, <1>2, <2>1, ReturnFacts DEF RedirectFails
<1>4. opt.json =>
           /\ stdout' \in Seq(Pieces) /\ tmp' \in Seq(Pieces)
           /\ doc'.status = "error"
           /\ fd1 # "stdout" => stdout' = stdout
           /\ fd1 = "stdout" /\ stdout = <<>> => stdout' = <<"document">>
  BY <1>2, ErrorFacts DEF RedirectFails
<1>5. opt.json => pc' = "done" /\ exit' = 1
                  /\ fd1 = (IF Redirected THEN "tmp" ELSE "stdout")
  <2>1. pc \notin {"args", "done"}
    BY DEF RedirectFails
  <2>2. opt.json => Len(files) = 1 /\ i = 1 /\ ~(i < Len(files))
    BY <2>1, WithinFile
  <2>4. opt.json => fd1 = (IF Redirected THEN "tmp" ELSE "stdout")
    BY <2>1, WithinFile
  <2>3. QED  BY <1>3, <2>2, <2>4
<1>6. TypeOK'
  BY <1>1, <1>3, <1>4
   DEF RedirectFails, Fails, AfterRedirectFailure, TypeOK, IInv, SysCalls
<1>7. InPieces'
  BY <1>1, <1>2, <1>4 DEF RedirectFails, InPieces
<1>8. Selected'
  BY <1>1, <1>3 DEF RedirectFails, AfterRedirectFailure, IInv, Selected, InFile
<1>9. OpenFds'
  BY <1>1, <1>3
   DEF RedirectFails, ClosedOnFailure, AfterRedirectFailure, IInv, Selected,
       OpenFds, Capturing, OddRepair, File
<1>10. Leads'
  BY <1>1, <1>5 DEF RedirectFails, Fails, IInv, Leads, Sound, Redirected
<1>11. CapturedOutput'
  BY <1>1, <1>3 DEF RedirectFails, Fails, CapturedOutput, Sound
<1>12. Learned'
  BY <1>1, <1>3 DEF RedirectFails, Fails, IInv, Learned
<1>13. OneFile'
  BY <1>1, <1>2, <1>4, <1>5
   DEF RedirectFails, OneFile, OneDocument, ExitTellsStatus, Redirected
<1>14. TextSoFar'
  BY DEF RedirectFails, Fails, TextSoFar
<1>15. HonestDocument'
  BY <1>2, <1>4, NotYetHonest DEF RedirectFails
<1>16. QED  BY <1>6, <1>7, <1>8, <1>9, <1>10, <1>11, <1>12, <1>13, <1>14, <1>15
             DEF IInv

\* The pipeline runs and writes to wherever descriptor 1 leads.
LEMMA RunKeeps == IInv /\ Run => IInv'
<1> SUFFICES ASSUME IInv, Run PROVE IInv'
  OBVIOUS
<1>1. pc # "done" /\ opt' = opt /\ files' = files
  BY DEF Run, environment
<1>2. /\ doc = NoDoc /\ doc.status = "none" /\ (opt.json => stdout = <<>>)
      /\ stdout \in Seq(Pieces) /\ tmp \in Seq(Pieces) /\ captured \in Seq(Pieces)
      /\ files \in Seq(InputFile) /\ Len(files) \in Nat /\ i \in Nat
  BY <1>1, NothingYet
<1>3. ~Capturing => /\ i' \in 1..Len(files)'
           /\ \/ i < Len(files) /\ i' = i + 1 /\ pc' = "open" /\ exit' = exit
              \/ i = Len(files) /\ i' = i /\ pc' = "done" /\ exit' = 0
  <2>1. i \in 1..Len(files) /\ opt.json \in BOOLEAN
    BY DEF IInv, Selected, Run, InFile, TypeOK, Options
  <2>2. QED  BY <1>1, <1>2, <2>1, ReturnFacts DEF Run
<1>4. TypeOK'
  BY <1>1, <1>3 DEF Run, TypeOK, IInv
<1>5. InPieces'
  <2>1. /\ PipelineOutput(File) \in Seq(Pieces)
        /\ PipelineOutput(File) \o (IF opt.repair THEN <<>> ELSE <<"line">>) \in Seq(Pieces)
    <3>1. File \in InputFile /\ opt \in Options
      BY WithinFile DEF Run, IInv, TypeOK
    <3>2. (IF opt.repair THEN <<>> ELSE <<"line">>) \in Seq(Pieces)
      <4>1. <<>> \in Seq(Pieces) /\ <<"line">> \in Seq(Pieces)
        BY DEF Pieces
      <4>2. QED  BY <4>1
    <3>3. QED  BY <3>1, <3>2, OutputFacts
  <2>2. stdout' \in Seq(Pieces) /\ tmp' \in Seq(Pieces)
    BY <1>2, <2>1, WriteFacts DEF Run
  <2>3. QED  BY <1>2, <2>2 DEF Run, InPieces
<1>6. Selected'
  BY <1>1, <1>3 DEF Run, IInv, Selected, Capturing, OddRepair, File, InFile
<1>7. OpenFds'
  BY <1>3 DEF Run, IInv, OpenFds
<1>8. Leads'
  BY <1>1, <1>3 DEF Run, IInv, Leads, Sound, Redirected, Capturing, OddRepair, File
<1>9. CapturedOutput'
  <2>1. SUFFICES ASSUME Sound' PROVE CapturedOutput'
    BY DEF CapturedOutput
  <2>2. CASE Capturing
    <3>1. pc' = "restore" /\ i' = i /\ WriteTo(fd1, PipelineOutput(File)) /\ failed' = failed
      BY <2>2 DEF Run
    <3>2. Sound
      BY <1>1, <2>1, <3>1 DEF Sound
    <3>3. fd1 = "tmp" /\ tmp = <<>>
      BY <2>2, <3>2 DEF Run, IInv, Leads, CapturedOutput, Redirected
    <3>4. File \in InputFile /\ opt \in Options
      BY WithinFile DEF Run, IInv, TypeOK
    <3>5. tmp' = PipelineOutput(File)
      BY <1>2, <3>1, <3>3, <3>4, OutputFacts, WriteFacts
    <3>6. QED  BY <1>1, <3>1, <3>5, SameFile DEF CapturedOutput
  <2>3. CASE ~Capturing
    <3>1. pc' \in {"open", "done"}
      BY <1>3, <2>3
    <3>2. QED  BY <3>1 DEF CapturedOutput
  <2>4. QED  BY <2>2, <2>3
<1>10. Learned'
  BY <1>1, <1>3 DEF Run, IInv, Learned, File
<1>11. OneFile'
  <2>1. SUFFICES ASSUME opt.json PROVE OneFile'
    BY <1>1 DEF OneFile
  <2>2. pc' = "restore" /\ WriteTo(fd1, PipelineOutput(File)) /\ doc' = doc
    BY <2>1 DEF Run, Capturing
  <2>3. fd1 = "tmp"
    BY <2>1, WithinFile DEF Run, Capturing, Redirected
  <2>4. stdout' = stdout
    BY <2>2, <2>3 DEF WriteTo
  <2>5. QED  BY <1>2, <2>1, <2>2, <2>4 DEF OneFile, OneDocument, ExitTellsStatus
<1>12. TextSoFar'
  <2>1. SUFFICES ASSUME opt.repair, ~opt.json, failed' = {} PROVE TextSoFar'
    BY <1>1 DEF TextSoFar
  <2>2. failed = {} /\ stdout = RepairedText(i - 1) /\ pc = "run"
    BY <2>1 DEF Run, IInv, TextSoFar
  <2>3. File \in InputFile /\ opt \in Options /\ i \in 1..Len(files)
    BY WithinFile DEF Run, IInv, TypeOK
  <2>4. CASE Capturing
    <3>1. pc' = "restore" /\ i' = i /\ WriteTo(fd1, PipelineOutput(File))
      BY <2>4 DEF Run
    <3>2. fd1 = "tmp"
      BY <2>2, <2>4, WithinFile DEF Redirected
    <3>3. stdout' = stdout
      BY <3>1, <3>2 DEF WriteTo
    <3>4. QED  BY <1>1, <2>2, <3>1, <3>3, SameFile DEF TextSoFar
  <2>5. CASE ~Capturing
    <3>1. WriteTo(fd1, PipelineOutput(File) \o <<>>)
      BY <2>1, <2>5 DEF Run
    <3>2. fd1 = "stdout"
      BY <2>2, <2>5, WithinFile DEF Redirected
    <3>3. ~File.odd
      BY <2>1, <2>2, <2>5 DEF Capturing, OddRepair, IInv, Learned
    <3>4. PipelineOutput(File) = RepairedOf(File) /\ PipelineOutput(File) \o <<>> = PipelineOutput(File)
      BY <2>1, <2>3, <3>3, PolicyFacts
    <3>5. stdout' = RepairedText(i - 1) \o RepairedOf(File)
      BY <2>2, <3>1, <3>2, <3>4 DEF WriteTo
    <3>6. stdout' = RepairedText(i)
      BY <1>2, <2>3, <3>5, NextText
    <3>7. QED  BY <1>1, <1>3, <2>3, <2>5, <3>6, TextDone DEF TextSoFar
  <2>6. QED  BY <2>4, <2>5
<1>13. HonestDocument'
  BY <1>2, NotYetHonest DEF Run
<1>14. QED  BY <1>4, <1>5, <1>6, <1>7, <1>8, <1>9, <1>10, <1>11, <1>12, <1>13
             DEF IInv

\* Descriptor 1 leads to the standard output again.
LEMMA RestoreKeeps == IInv /\ Restore => IInv'
<1> SUFFICES ASSUME IInv, Restore PROVE IInv'
  OBVIOUS
<1>1. pc # "done" /\ opt' = opt /\ files' = files
  BY DEF Restore, environment
<1>2. /\ doc = NoDoc /\ doc.status = "none" /\ (opt.json => stdout = <<>>)
      /\ stdout \in Seq(Pieces) /\ tmp \in Seq(Pieces) /\ captured \in Seq(Pieces)
      /\ files \in Seq(InputFile) /\ Len(files) \in Nat /\ i \in Nat
  BY <1>1, NothingYet
<1>3. TypeOK'
  BY <1>1 DEF Restore, Restored, TypeOK, IInv
<1>4. InPieces'
  BY <1>2 DEF Restore, InPieces
<1>5. Selected'
  BY <1>1 DEF Restore, IInv, Selected, Capturing, OddRepair, File, InFile
<1>6. OpenFds'
  BY DEF Restore, IInv, OpenFds
<1>7. Leads'
  BY <1>1 DEF Restore, Restored, IInv, Leads, Sound, Redirected
<1>8. CapturedOutput'
  <2>1. pc = "restore" /\ pc' = "readback" /\ i' = i /\ tmp' = tmp /\ failed' = failed
    BY DEF Restore
  <2>2. Sound' => Sound
    BY <1>1, <2>1 DEF Sound
  <2>3. Sound => tmp = PipelineOutput(File)
    BY <2>1 DEF IInv, CapturedOutput
  <2>4. PipelineOutput(File)' = PipelineOutput(File)
    BY <1>1, <2>1, SameFile
  <2>5. QED  BY <2>1, <2>2, <2>3, <2>4 DEF CapturedOutput
<1>9. Learned'
  BY <1>1 DEF Restore, IInv, Learned, File
<1>10. OneFile'
  BY <1>1, <1>2 DEF Restore, OneFile, OneDocument, ExitTellsStatus
<1>11. TextSoFar'
  BY <1>1, SameFile DEF Restore, IInv, TextSoFar
<1>12. HonestDocument'
  BY <1>2, NotYetHonest DEF Restore
<1>13. QED  BY <1>3, <1>4, <1>5, <1>6, <1>7, <1>8, <1>9, <1>10, <1>11, <1>12
             DEF IInv

\* Descriptor 1 cannot be led back.
LEMMA RestoreFailsKeeps == IInv /\ RestoreFails => IInv'
<1> SUFFICES ASSUME IInv, RestoreFails PROVE IInv'
  OBVIOUS
<1>1. pc # "done" /\ opt' = opt /\ files' = files
  BY DEF RestoreFails, environment
<1>2. /\ doc = NoDoc /\ doc.status = "none" /\ (opt.json => stdout = <<>>)
      /\ stdout \in Seq(Pieces) /\ tmp \in Seq(Pieces) /\ captured \in Seq(Pieces)
      /\ files \in Seq(InputFile) /\ Len(files) \in Nat /\ i \in Nat
  BY <1>1, NothingYet
<1>3. opt.json => /\ i' \in 1..Len(files)'
           /\ \/ i < Len(files) /\ i' = i + 1 /\ pc' = "open" /\ exit' = exit
              \/ i = Len(files) /\ i' = i /\ pc' = "done" /\ exit' = 1
  <2>1. i \in 1..Len(files) /\ opt.json \in BOOLEAN
    BY DEF IInv, Selected, RestoreFails, InFile, TypeOK, Options
  <2>2. QED  BY <1>1, <1>2, <2>1, ReturnFacts DEF RestoreFails
<1>4. opt.json =>
           /\ stdout' \in Seq(Pieces) /\ tmp' \in Seq(Pieces)
           /\ doc'.status = "error"
           /\ AfterClosingTmp # "stdout" => stdout' = stdout
           /\ AfterClosingTmp = "stdout" /\ stdout = <<>> => stdout' = <<"document">>
  BY <1>2, ErrorFacts DEF RestoreFails
<1>5. opt.json => pc' = "done" /\ exit' = 1
                  /\ fd1 = (IF Redirected THEN "tmp" ELSE "stdout")
  <2>1. pc \notin {"args", "done"}
    BY DEF RestoreFails
  <2>2. opt.json => Len(files) = 1 /\ i = 1 /\ ~(i < Len(files))
    BY <2>1, WithinFile
  <2>4. opt.json => fd1 = (IF Redirected THEN "tmp" ELSE "stdout")
    BY <2>1, WithinFile
  <2>3. QED  BY <1>3, <2>2, <2>4
<1>6. TypeOK'
  BY <1>1, <1>3, <1>4
   DEF RestoreFails, Fails, AfterClosingTmp, TypeOK, IInv, SysCalls
<1>7. InPieces'
  BY <1>1, <1>2, <1>4 DEF RestoreFails, InPieces
<1>8. Selected'
  BY <1>1, <1>3 DEF RestoreFails, IInv, Selected, Capturing, OddRepair, File, InFile
<1>9. OpenFds'
  BY <1>3 DEF RestoreFails, IInv, OpenFds
<1>10. Leads'
  BY <1>1, <1>5 DEF RestoreFails, Fails, Leads, Sound
<1>11. CapturedOutput'
  BY <1>1, <1>3 DEF RestoreFails, Fails, CapturedOutput, Sound
<1>12. Learned'
  BY <1>1, <1>3 DEF RestoreFails, Fails, IInv, Learned
<1>13. OneFile'
  BY <1>1, <1>2, <1>4, <1>5
   DEF RestoreFails, Fails, OneFile, OneDocument, ExitTellsStatus
<1>14. TextSoFar'
  BY DEF RestoreFails, Fails, TextSoFar
<1>15. HonestDocument'
  BY <1>2, <1>4, NotYetHonest DEF RestoreFails
<1>16. QED  BY <1>6, <1>7, <1>8, <1>9, <1>10, <1>11, <1>12, <1>13, <1>14, <1>15
             DEF IInv

\* What was captured is read back, whole or short.
LEMMA ReadBackKeeps == IInv /\ ReadBack => IInv'
<1> SUFFICES ASSUME IInv, ReadBack PROVE IInv'
  OBVIOUS
<1>1. pc # "done" /\ opt' = opt /\ files' = files
  BY DEF ReadBack, environment
<1>2. /\ doc = NoDoc /\ doc.status = "none" /\ (opt.json => stdout = <<>>)
      /\ stdout \in Seq(Pieces) /\ tmp \in Seq(Pieces) /\ captured \in Seq(Pieces)
      /\ files \in Seq(InputFile) /\ Len(files) \in Nat /\ i \in Nat
  BY <1>1, NothingYet
<1>3. TypeOK'
  BY <1>1 DEF ReadBack, Fails, AfterClosingTmp, TypeOK, IInv, SysCalls
<1>4. InPieces'
  <2>1. ASSUME NEW n \in 0..Len(tmp)-1 PROVE SubSeq(tmp, 1, n) \in Seq(Pieces)
    BY <1>2
  <2>2. captured' \in Seq(Pieces)
    BY <1>2, <2>1 DEF ReadBack
  <2>3. QED  BY <1>2, <2>2 DEF ReadBack, InPieces
<1>5. Selected'
  BY <1>1 DEF ReadBack, IInv, Selected, Capturing, OddRepair, File, InFile
<1>6. OpenFds'
  BY DEF ReadBack, IInv, OpenFds
<1>7. Leads'
  BY <1>1 DEF ReadBack, Fails, AfterClosingTmp, IInv, Leads, Sound, Redirected
<1>8. CapturedOutput'
  <2>1. pc = "readback" /\ pc' = "emit" /\ i' = i /\ tmp' = tmp
        /\ (\/ (captured' = tmp /\ failed' = failed) \/ "short readback" \in failed')
    BY DEF ReadBack, Fails
  <2>2. Sound' /\ failed' = failed => Sound
    BY <1>1 DEF Sound
  <2>3. Sound => tmp = PipelineOutput(File)
    BY <2>1 DEF IInv, CapturedOutput
  <2>4. PipelineOutput(File)' = PipelineOutput(File)
    BY <1>1, <2>1, SameFile
  <2>5. QED  BY <2>1, <2>2, <2>3, <2>4 DEF CapturedOutput
<1>9. Learned'
  BY <1>1 DEF ReadBack, Fails, IInv, Learned, File
<1>10. OneFile'
  BY <1>1, <1>2 DEF ReadBack, OneFile, OneDocument, ExitTellsStatus
<1>11. TextSoFar'
  BY <1>1, SameFile DEF ReadBack, Fails, IInv, TextSoFar
<1>12. HonestDocument'
  BY <1>2, NotYetHonest DEF ReadBack
<1>13. QED  BY <1>3, <1>4, <1>5, <1>6, <1>7, <1>8, <1>9, <1>10, <1>11, <1>12
             DEF IInv

\* What was captured cannot be read back.
LEMMA ReadBackFailsKeeps == IInv /\ ReadBackFails => IInv'
<1> SUFFICES ASSUME IInv, ReadBackFails PROVE IInv'
  OBVIOUS
<1>1. pc # "done" /\ opt' = opt /\ files' = files
  BY DEF ReadBackFails, environment
<1>2. /\ doc = NoDoc /\ doc.status = "none" /\ (opt.json => stdout = <<>>)
      /\ stdout \in Seq(Pieces) /\ tmp \in Seq(Pieces) /\ captured \in Seq(Pieces)
      /\ files \in Seq(InputFile) /\ Len(files) \in Nat /\ i \in Nat
  BY <1>1, NothingYet
<1>3. opt.json /\ NeedsCapture => /\ i' \in 1..Len(files)'
           /\ \/ i < Len(files) /\ i' = i + 1 /\ pc' = "open" /\ exit' = exit
              \/ i = Len(files) /\ i' = i /\ pc' = "done" /\ exit' = 1
  <2>1. i \in 1..Len(files) /\ opt.json \in BOOLEAN
    BY DEF IInv, Selected, ReadBackFails, InFile, TypeOK, Options
  <2>2. QED  BY <1>1, <1>2, <2>1, ReturnFacts DEF ReadBackFails
<1>4. opt.json /\ NeedsCapture =>
           /\ stdout' \in Seq(Pieces) /\ tmp' \in Seq(Pieces)
           /\ doc'.status = "error"
           /\ AfterClosingTmp # "stdout" => stdout' = stdout
           /\ AfterClosingTmp = "stdout" /\ stdout = <<>> => stdout' = <<"document">>
  BY <1>2, ErrorFacts DEF ReadBackFails
<1>5. opt.json /\ NeedsCapture => pc' = "done" /\ exit' = 1
                                  /\ fd1 = (IF Redirected THEN "tmp" ELSE "stdout")
  <2>1. pc \notin {"args", "done"}
    BY DEF ReadBackFails
  <2>2. opt.json => Len(files) = 1 /\ i = 1 /\ ~(i < Len(files))
    BY <2>1, WithinFile
  <2>4. opt.json => fd1 = (IF Redirected THEN "tmp" ELSE "stdout")
    BY <2>1, WithinFile
  <2>3. QED  BY <1>3, <2>2, <2>4
<1>6. TypeOK'
  BY <1>1, <1>3, <1>4
   DEF ReadBackFails, Fails, AfterClosingTmp, TypeOK, IInv, SysCalls
<1>7. InPieces'
  <2>1. captured' = <<>> /\ <<>> \in Seq(Pieces)
    BY DEF ReadBackFails
  <2>2. opt.json /\ NeedsCapture => stdout' \in Seq(Pieces) /\ tmp' \in Seq(Pieces)
    BY <1>4
  <2>3. ~(opt.json /\ NeedsCapture) => stdout' = stdout /\ tmp' = tmp /\ doc' = doc
    BY DEF ReadBackFails
  <2>4. QED  BY <1>1, <1>2, <2>1, <2>2, <2>3 DEF InPieces
<1>8. Selected'
  BY <1>1, <1>3
   DEF ReadBackFails, IInv, Selected, Capturing, OddRepair, File, InFile
<1>9. OpenFds'
  BY <1>3 DEF ReadBackFails, IInv, OpenFds
<1>10. Leads'
  BY <1>1, <1>3
   DEF ReadBackFails, Fails, AfterClosingTmp, IInv, Leads, Sound, Redirected
<1>11. CapturedOutput'
  BY <1>1, <1>3 DEF ReadBackFails, Fails, NeedsCapture, CapturedOutput, Sound
<1>12. Learned'
  BY <1>1, <1>3 DEF ReadBackFails, Fails, NeedsCapture, IInv, Learned
<1>13. OneFile'
  <2>1. SUFFICES ASSUME opt.json PROVE OneFile'
    BY <1>1 DEF OneFile
  <2>2. fd1 = "stdout"
    BY <2>1, WithinFile DEF ReadBackFails, Redirected
  <2>3. AfterClosingTmp = "stdout"
    BY <2>2 DEF AfterClosingTmp
  <2>4. CASE NeedsCapture
    BY <1>2, <1>4, <1>5, <2>1, <2>3, <2>4 DEF OneFile, OneDocument, ExitTellsStatus
  <2>5. CASE ~NeedsCapture
    <3>1. pc' = "emit" /\ stdout' = stdout /\ doc' = doc
      BY <2>5 DEF ReadBackFails
    <3>2. QED  BY <1>2, <2>1, <3>1 DEF OneFile, OneDocument, ExitTellsStatus
  <2>6. QED  BY <2>4, <2>5
<1>14. TextSoFar'
  BY DEF ReadBackFails, Fails, TextSoFar
<1>15. HonestDocument'
  BY <1>2, <1>4, NotYetHonest DEF ReadBackFails
<1>16. QED  BY <1>6, <1>7, <1>8, <1>9, <1>10, <1>11, <1>12, <1>13, <1>14, <1>15
             DEF IInv

\* The document or the repaired text is written out, and the file is done.
LEMMA EmitKeeps == IInv /\ Emit => IInv'
<1> SUFFICES ASSUME IInv, Emit PROVE IInv'
  OBVIOUS
<1>1. pc # "done" /\ opt' = opt /\ files' = files
  BY DEF Emit, environment
<1>2. /\ doc = NoDoc /\ doc.status = "none" /\ (opt.json => stdout = <<>>)
      /\ stdout \in Seq(Pieces) /\ tmp \in Seq(Pieces) /\ captured \in Seq(Pieces)
      /\ files \in Seq(InputFile) /\ Len(files) \in Nat /\ i \in Nat
  BY <1>1, NothingYet
<1>3. /\ i' \in 1..Len(files)'
           /\ \/ i < Len(files) /\ i' = i + 1 /\ pc' = "open" /\ exit' = exit
              \/ i = Len(files) /\ i' = i /\ pc' = "done" /\ exit' = 0
  <2>1. i \in 1..Len(files) /\ opt.json \in BOOLEAN
    BY DEF IInv, Selected, Emit, InFile, TypeOK, Options
  <2>2. QED  BY <1>1, <1>2, <2>1, ReturnFacts DEF Emit
<1>4. TypeOK'
  <2>1. doc'.status \in {"none", "ok", "error"}
    <3>1. doc' = SuccessDoc \/ doc' = doc
      BY DEF Emit
    <3>2. SuccessDoc.status = "ok"
      BY DEF SuccessDoc
    <3>3. QED  BY <1>2, <3>1, <3>2
  <2>2. QED  BY <1>1, <1>3, <2>1 DEF Emit, TypeOK, IInv
<1>5. InPieces'
  <2>1. OddPolicy(captured) \in Seq(Pieces) /\ <<"document">> \in Seq(Pieces)
    <3>1. File \in InputFile /\ opt \in Options
      BY WithinFile DEF Emit, IInv, TypeOK
    <3>2. QED  BY <1>2, <3>1, PolicyFacts DEF Pieces
  <2>2. stdout' \in Seq(Pieces) /\ tmp' \in Seq(Pieces)
    BY <1>2, <2>1, WriteFacts DEF Emit
  <2>3. QED  BY <1>1, <1>2, <2>2 DEF Emit, InPieces
<1>6. Selected'
  BY <1>1, <1>3 DEF Emit, IInv, Selected, InFile
<1>7. OpenFds'
  BY <1>3 DEF Emit, IInv, OpenFds
<1>8. Leads'
  BY <1>1, <1>3 DEF Emit, IInv, Leads, Sound, Redirected
<1>9. CapturedOutput'
  BY <1>3 DEF CapturedOutput
<1>10. Learned'
  BY <1>3 DEF Learned
<1>11. OneFile'
  <2>1. SUFFICES ASSUME opt.json PROVE OneFile'
    BY <1>1 DEF OneFile
  <2>2. fd1 = "stdout" /\ ~(i < Len(files))
    BY <2>1, WithinFile DEF Emit, Redirected
  <2>3. doc' = SuccessDoc /\ WriteTo(fd1, <<"document">>)
    BY <2>1 DEF Emit
  <2>4. stdout' = <<"document">>
    <3>1. <<"document">> \in Seq(Pieces)
      BY DEF Pieces
    <3>2. QED  BY <1>2, <2>1, <2>2, <2>3, <3>1, WriteFacts
  <2>5. doc'.status = "ok"
    BY <2>3 DEF SuccessDoc
  <2>6. pc' = "done" /\ exit' = 0
    BY <1>3, <2>2
  <2>7. QED  BY <2>4, <2>5, <2>6 DEF OneFile, OneDocument, ExitTellsStatus
<1>12. TextSoFar'
  <2>1. SUFFICES ASSUME opt.repair, ~opt.json, failed' = {} PROVE TextSoFar'
    BY <1>1 DEF TextSoFar
  <2>2. failed = {} /\ stdout = RepairedText(i - 1) /\ pc = "emit"
    BY <2>1 DEF Emit, IInv, TextSoFar
  <2>3. File \in InputFile /\ opt \in Options /\ i \in 1..Len(files)
    BY WithinFile DEF Emit, IInv, TypeOK
  <2>4. fd1 = "stdout"
    BY <2>2, WithinFile DEF Redirected
  <2>5. File.odd
    BY <2>1, <2>2 DEF IInv, Selected, Capturing, OddRepair
  <2>6. captured = PipelineOutput(File)
    BY <2>1, <2>2 DEF IInv, CapturedOutput, Sound
  <2>7. stdout' = RepairedText(i - 1) \o RepairedOf(File)
    BY <2>1, <2>2, <2>3, <2>4, <2>5, <2>6, PolicyFacts DEF Emit, WriteTo
  <2>8. stdout' = RepairedText(i)
    BY <1>2, <2>3, <2>7, NextText
  <2>9. QED  BY <1>1, <1>3, <2>3, <2>8, TextDone DEF TextSoFar
<1>13. HonestDocument'
  <2>1. SUFFICES ASSUME doc'.status = "ok", ProperOptions,
                        failed' \cap {"fstat", "read", "short readback"} = {}
                 PROVE  HonestDocument'
    BY <1>1 DEF HonestDocument, ProperOptions
  <2>2. opt.json /\ doc' = SuccessDoc /\ i' = i
    BY <1>2, <2>1, <1>3, WithinFile DEF Emit
  <2>3. pc = "emit" /\ failed' = failed
    BY DEF Emit
  <2>4. statOK
    BY <2>1, <2>2, <2>3 DEF IInv, Learned
  <2>5. NeedsCapture => captured = PipelineOutput(File)
    BY <2>1, <2>2, <2>3 DEF IInv, CapturedOutput, Sound
  <2>6. opt.repair /\ (File.units \/ File.odd) => inputRead
    BY <2>1, <2>2, <2>3 DEF IInv, Learned
  <2>7. File \in InputFile /\ opt \in Options
    BY <2>3, WithinFile DEF IInv, TypeOK
  <2>8. /\ Pipeline' = Pipeline /\ File' = File
        /\ (Complete(File) \o (IF File.odd THEN <<"fffd">> ELSE <<>>))' = RepairedOf(File)
    <3>1. Pipeline' = Pipeline
      BY <1>1 DEF Pipeline
    <3>2. QED  BY <1>1, <2>2, <3>1 DEF RepairedOf, File
  <2>9. QED  BY <2>1, <2>2, <2>4, <2>5, <2>6, <2>7, <2>8, HonestSuccess
              DEF HonestDocument
<1>14. QED  BY <1>4, <1>5, <1>6, <1>7, <1>8, <1>9, <1>10, <1>11, <1>12, <1>13
             DEF IInv

-----------------------------------------------------------------------------
(* The invariant holds, and what follows from it.                          *)

\* The invariant holds initially.
LEMMA InitKeeps == Init => IInv
<1> SUFFICES ASSUME Init PROVE IInv
  OBVIOUS
<1>1. TypeOK
  BY DEF Init, TypeOK, NoDoc
<1>2. InPieces
  BY DEF Init, InPieces
<1>3. Selected /\ OpenFds /\ Learned /\ CapturedOutput
  BY DEF Init, Selected, OpenFds, Learned, CapturedOutput, InFile
<1>4. Leads
  BY DEF Init, Leads, Redirected
<1>5. OneFile
  BY DEF Init, OneFile, OneDocument, ExitTellsStatus
<1>6. HonestDocument
  BY DEF Init, HonestDocument, NoDoc
<1>7. TextSoFar
  <2>1. i - 1 = 0 /\ stdout = <<>> /\ pc = "args"
    BY DEF Init
  <2>2. RepairedText(0) = <<>>
    BY DEF RepairedText, FlattenSeq
  <2>3. QED  BY <2>1, <2>2 DEF TextSoFar
<1>8. QED  BY <1>1, <1>2, <1>3, <1>4, <1>5, <1>6, <1>7 DEF IInv

\* A step that changes nothing.
LEMMA StutterKeeps == IInv /\ UNCHANGED vars => IInv'
<1> SUFFICES ASSUME IInv, UNCHANGED vars PROVE IInv'
  OBVIOUS
<1>1. TypeOK' /\ InPieces' /\ Selected' /\ OpenFds'
  BY DEF IInv, vars, TypeOK, InPieces, Selected, OpenFds, InFile, Capturing,
         OddRepair, File
<1>2. Leads' /\ OneFile'
  BY DEF IInv, vars, Leads, OneFile, OneDocument, ExitTellsStatus, Redirected,
         Sound, Capturing, OddRepair, File
<1>3. Learned'
  BY DEF IInv, vars, Learned, File
<1>4. CapturedOutput'
  <2>1. PipelineOutput(File)' = PipelineOutput(File)
    BY SameFile DEF vars
  <2>2. QED  BY <2>1 DEF IInv, vars, CapturedOutput, Sound, NeedsCapture
<1>5. TextSoFar'
  BY SameFile DEF IInv, vars, TextSoFar
<1>6. HonestDocument'
  <2>1. Pipeline' = Pipeline
    BY DEF vars, Pipeline
  <2>2. File' = File /\ Complete(File)' = Complete(File)
    BY DEF vars, File
  <2>3. QED  BY <2>1, <2>2 DEF IInv, vars, HonestDocument, ProperOptions
<1>7. QED  BY <1>1, <1>2, <1>3, <1>4, <1>5, <1>6 DEF IInv

\* Every step keeps it.
LEMMA StepKeeps == IInv /\ [Next]_vars => IInv'
<1> SUFFICES ASSUME IInv, [Next]_vars PROVE IInv'
  OBVIOUS
<1>1. CASE Args  BY <1>1, ArgsKeeps
<1>2. CASE Open  BY <1>2, OpenKeeps
<1>3. CASE OpenFails  BY <1>3, OpenFailsKeeps
<1>4. CASE Fstat  BY <1>4, FstatKeeps
<1>5. CASE ReadInput  BY <1>5, ReadInputKeeps
<1>6. CASE Tmpfile  BY <1>6, TmpfileKeeps
<1>7. CASE TmpfileFails  BY <1>7, TmpfileFailsKeeps
<1>8. CASE Dup  BY <1>8, DupKeeps
<1>9. CASE DupFails  BY <1>9, DupFailsKeeps
<1>10. CASE Redirect  BY <1>10, RedirectKeeps
<1>11. CASE RedirectFails  BY <1>11, RedirectFailsKeeps
<1>12. CASE Run  BY <1>12, RunKeeps
<1>13. CASE Restore  BY <1>13, RestoreKeeps
<1>14. CASE RestoreFails  BY <1>14, RestoreFailsKeeps
<1>15. CASE ReadBack  BY <1>15, ReadBackKeeps
<1>16. CASE ReadBackFails  BY <1>16, ReadBackFailsKeeps
<1>17. CASE Emit  BY <1>17, EmitKeeps
<1>18. CASE Exited \/ UNCHANGED vars  BY <1>18, StutterKeeps DEF Exited
<1>19. QED
  BY <1>1, <1>2, <1>3, <1>4, <1>5, <1>6, <1>7, <1>8, <1>9, <1>10, <1>11, <1>12,
     <1>13, <1>14, <1>15, <1>16, <1>17, <1>18 DEF Next

\* The inductive invariant holds for any number of files, any options and any
\* calls failing.
THEOREM InductiveInvariant == Spec => []IInv
<1>1. Init => IInv
  BY InitKeeps
<1>2. IInv /\ [Next]_vars => IInv'
  BY StepKeeps
<1>3. QED  BY <1>1, <1>2, PTL DEF Spec

\* DocumentInv: a JSON run leaves one document, whose kind its status tells, and
\* descriptors are given back and restored between files and at the end.
THEOREM OneDocumentWhateverFails == Spec => []DocumentInv
<1>1. IInv => DocumentInv
  <2> SUFFICES ASSUME IInv PROVE DocumentInv
    OBVIOUS
  <2>1. TypeOK /\ OneDocument /\ ExitTellsStatus
    BY DEF IInv, OneFile, OneDocument, ExitTellsStatus
  <2>2. DescriptorsRestored
    BY DEF IInv, OpenFds, Leads, Redirected, DescriptorsRestored
  <2>3. QED  BY <2>1, <2>2 DEF DocumentInv
<1>2. QED  BY <1>1, InductiveInvariant, PTL

\* HonestDocument: a document that reports success names the pipeline that ran
\* and holds all of its positions, or of its repaired text.
THEOREM DocumentsAreHonest == Spec => []HonestDocument
<1>1. IInv => HonestDocument
  BY DEF IInv
<1>2. QED  BY <1>1, InductiveInvariant, PTL

\* RepairWritesText: when nothing fails, the repaired texts of all files are
\* written in order, whole and with nothing between.
THEOREM RepairedTextIsWhole == Spec => []RepairWritesText
<1>1. IInv => RepairWritesText
  BY DEF IInv, TextSoFar, RepairWritesText
<1>2. QED  BY <1>1, InductiveInvariant, PTL

-----------------------------------------------------------------------------
(* The corpus: texts and their encodings.                                  *)

\* The units of a code point, and the code point a unit stands for, if any.
UnitsOf(p, s) == IF p = "supp" THEN <<<<"high", s>>, <<"low", s>>>> ELSE <<<<"bmp", s>>>>
PointOf(u) == IF u[1] = "low" THEN <<>> ELSE <<IF u[1] = "high" THEN "supp" ELSE "bmp">>
CodeUnits == {"high", "low", "bmp"} \X Range(Encodings)

\* The two byte orders.
LEMMA EncodingNames == Range(Encodings) = {"utf16le", "utf16be"}
<1>1. DOMAIN Encodings = {1, 2}
  BY DEF Encodings
<1>2. Encodings[1] = "utf16le" /\ Encodings[2] = "utf16be"
  BY DEF Encodings
<1>3. QED  BY <1>1, <1>2 DEF Range

\* One code point more adds its units; one unit more adds its code point.
LEMMA EncodeNext ==
    ASSUME NEW t \in Seq(Planes), NEW p \in Planes, NEW s \in Range(Encodings)
    PROVE  /\ Encode(Append(t, p), s) = Encode(t, s) \o UnitsOf(p, s)
           /\ UnitsOf(p, s) \in Seq(CodeUnits)
<1> DEFINE U == [k \in DOMAIN t |-> UnitsOf(t[k], s)]
           r == Append(t, p)
           V == [k \in DOMAIN r |-> UnitsOf(r[k], s)]
<1>1. \A q \in Planes : UnitsOf(q, s) \in Seq(CodeUnits)
  <2>1. \A c \in {"high", "low", "bmp"} : <<c, s>> \in CodeUnits
    BY DEF CodeUnits
  <2>2. <<<<"high", s>>, <<"low", s>>>> \in Seq(CodeUnits) /\ <<<<"bmp", s>>>> \in Seq(CodeUnits)
    <3> HIDE DEF CodeUnits
    <3>1. QED  BY <2>1
  <2>3. QED  BY <2>2 DEF UnitsOf
<1>2. Encode(t, s) = FlattenSeq(U) /\ Encode(r, s) = FlattenSeq(V)
  BY DEF Encode, Codec, UnitsOf
<1>3. U \in Seq(Seq(CodeUnits)) /\ Len(U) = Len(t)
  BY <1>1
<1>4. V \in Seq(Seq(CodeUnits)) /\ Len(V) = Len(t) + 1
  BY <1>1
<1>5. \A k \in 1..Len(V) : V[k] = Append(U, UnitsOf(p, s))[k]
  BY <1>3, <1>4
<1>6. Append(U, UnitsOf(p, s)) \in Seq(Seq(CodeUnits)) /\ Len(Append(U, UnitsOf(p, s))) = Len(V)
  <2> HIDE DEF U, V
  <2>1. UnitsOf(p, s) \in Seq(CodeUnits)
    BY <1>1
  <2>2. QED  BY <1>3, <1>4, <2>1
<1>7. V = Append(U, UnitsOf(p, s))
  <2> HIDE DEF U, V
  <2>1. QED  BY <1>4, <1>5, <1>6, SeqEqual
<1> HIDE DEF U, V, r
<1>8. QED  BY <1>1, <1>2, <1>3, <1>7, FlattenAppend DEF r

\* One unit more adds the code point it stands for, if any.
LEMMA CodePointsNext ==
    ASSUME NEW c \in Contents, NEW u \in CodeUnits
    PROVE  /\ CodePoints(Append(c, u)) = CodePoints(c) \o PointOf(u)
           /\ CodePoints(c) \in Seq(Planes)
<1> DEFINE U == [k \in DOMAIN c |-> PointOf(c[k])]
           r == Append(c, u)
           V == [k \in DOMAIN r |-> PointOf(r[k])]
<1>0. c \in Seq(CodeUnits)
  BY DEF Contents, CodeUnits
<1>1. \A v \in CodeUnits : PointOf(v) \in Seq(Planes)
  BY DEF PointOf, CodeUnits, Planes
<1>2. CodePoints(c) = FlattenSeq(U) /\ CodePoints(r) = FlattenSeq(V)
  BY DEF CodePoints, PointOf
<1>3. U \in Seq(Seq(Planes)) /\ Len(U) = Len(c)
  BY <1>0, <1>1
<1>4. V \in Seq(Seq(Planes)) /\ Len(V) = Len(c) + 1
  BY <1>0, <1>1
<1>5. \A k \in 1..Len(V) : V[k] = Append(U, PointOf(u))[k]
  BY <1>0, <1>3, <1>4
<1>6. Append(U, PointOf(u)) \in Seq(Seq(Planes)) /\ Len(Append(U, PointOf(u))) = Len(V)
  BY <1>1, <1>3, <1>4
<1>7. V = Append(U, PointOf(u))
  <2> HIDE DEF U, V
  <2>1. QED  BY <1>4, <1>5, <1>6, SeqEqual
<1> HIDE DEF U, V, r
<1>8. QED  BY <1>1, <1>2, <1>3, <1>7, FlattenAppend, FlattenType DEF r

\* How many of a sequence satisfy a condition, one element at a time.
LEMMA SupplementaryNext ==
    ASSUME NEW t \in Seq(Planes), NEW p \in Planes
    PROVE  /\ Supplementary(Append(t, p)) = Supplementary(t) + (IF p = "supp" THEN 1 ELSE 0)
           /\ Supplementary(t) \in Nat
<1> DEFINE r == Append(t, p)
           A == {k \in DOMAIN t : t[k] = "supp"}
           n == Len(t) + 1
<1>1. A \subseteq 1..Len(t) /\ n \notin A
  OBVIOUS
<1>2. IsFiniteSet(A) /\ Cardinality(A) \in Nat
  <2>1. IsFiniteSet(1..Len(t))
    BY FS_Interval
  <2>2. QED  BY <1>1, <2>1, FS_Subset, FS_CardinalityType
<1>3. {k \in DOMAIN r : r[k] = "supp"} = IF p = "supp" THEN A \cup {n} ELSE A
  OBVIOUS
<1> HIDE DEF A, n
<1>4. Cardinality(A \cup {n}) = Cardinality(A) + 1
  BY <1>1, <1>2, FS_AddElement
<1>5. Supplementary(t) = Cardinality(A)
  BY DEF Supplementary, A
<1>6. Supplementary(r) = Cardinality(IF p = "supp" THEN A \cup {n} ELSE A)
  BY <1>3 DEF Supplementary
<1> HIDE DEF r
<1>7. QED  BY <1>2, <1>4, <1>5, <1>6 DEF r

\* The pairs of a content.
Highs(c) == Cardinality({k \in DOMAIN c : c[k][1] = "high"})

\* The units of a code point, one by one.
LEMMA UnitsFacts ==
    ASSUME NEW s \in Range(Encodings)
    PROVE  /\ \A x \in {"high", "low", "bmp"} : <<x, s>> \in CodeUnits
           /\ UnitsOf("bmp", s) = <<<<"bmp", s>>>>
           /\ UnitsOf("supp", s) = <<<<"high", s>>, <<"low", s>>>>
           /\ \A p \in Planes : UnitsOf(p, s) \in Contents
           /\ Contents = Seq(CodeUnits)
<1>1. \A x \in {"high", "low", "bmp"} : <<x, s>> \in CodeUnits
  BY DEF CodeUnits
<1>2. UnitsOf("bmp", s) = <<<<"bmp", s>>>> /\ UnitsOf("supp", s) = <<<<"high", s>>, <<"low", s>>>>
  BY DEF UnitsOf
<1>3. Contents = Seq(CodeUnits)
  BY DEF Contents, CodeUnits
<1>4. ASSUME NEW p \in Planes PROVE UnitsOf(p, s) \in Contents
  <2>1. UnitsOf(p, s) \in Seq(CodeUnits)
    BY EmptySeq, EncodeNext
  <2>2. QED  BY <1>3, <2>1
<1>5. QED  BY <1>1, <1>2, <1>3, <1>4

\* A content with one unit more, and with the units of one code point more.
LEMMA UnitAdded ==
    ASSUME NEW c \in Contents, NEW u \in CodeUnits
    PROVE  /\ Append(c, u) \in Contents /\ Len(Append(c, u)) = Len(c) + 1
           /\ Append(c, u)[Len(c) + 1] = u
           /\ \A k \in 1..Len(c) : Append(c, u)[k] = c[k]
           /\ Highs(Append(c, u)) = Highs(c) + (IF u[1] = "high" THEN 1 ELSE 0)
           /\ Highs(c) \in Nat
<1> DEFINE r == Append(c, u)
           A == {k \in DOMAIN c : c[k][1] = "high"}
           n == Len(c) + 1
<1>1. c \in Seq(CodeUnits) /\ Contents = Seq(CodeUnits)
  BY DEF Contents, CodeUnits
<1>2. /\ r \in Seq(CodeUnits) /\ Len(r) = n /\ r[n] = u /\ n \in Nat \ {0}
      /\ \A k \in 1..Len(c) : r[k] = c[k]
      /\ DOMAIN r = 1..n /\ DOMAIN c = 1..n-1
  BY <1>1
<1>3. A \subseteq 1..n-1 /\ n \notin A
  BY <1>2
<1>4. IsFiniteSet(A) /\ Cardinality(A) \in Nat
  <2>1. IsFiniteSet(1..n-1)
    BY <1>2, FS_Interval
  <2>2. QED  BY <1>3, <2>1, FS_Subset, FS_CardinalityType
<1>5. {k \in DOMAIN r : r[k][1] = "high"} = IF u[1] = "high" THEN A \cup {n} ELSE A
  <2> HIDE DEF r, n
  <2>1. DOMAIN r = DOMAIN c \cup {n} /\ n \notin DOMAIN c
    BY <1>2
  <2>2. \A k \in DOMAIN c : r[k] = c[k]
    BY <1>2 DEF n
  <2>3. QED  BY <1>2, <2>1, <2>2
<1> HIDE DEF A, n, r
<1>6. Cardinality(A \cup {n}) = Cardinality(A) + 1
  BY <1>3, <1>4, FS_AddElement
<1>7. Highs(c) = Cardinality(A) /\ Highs(r) = Cardinality(IF u[1] = "high" THEN A \cup {n} ELSE A)
  BY <1>5 DEF Highs, A
<1>8. QED  BY <1>1, <1>2, <1>4, <1>6, <1>7 DEF r, n

\* The same, for the units of one code point.
LEMMA PointAdded ==
    ASSUME NEW c \in Contents, NEW p \in Planes, NEW s \in Range(Encodings)
    PROVE  /\ c \o UnitsOf(p, s) \in Contents
           /\ Len(c \o UnitsOf(p, s)) = Len(c) + (IF p = "supp" THEN 2 ELSE 1)
           /\ Highs(c \o UnitsOf(p, s)) = Highs(c) + (IF p = "supp" THEN 1 ELSE 0)
           /\ CodePoints(c \o UnitsOf(p, s)) = Append(CodePoints(c), p)
           /\ StoredIn(c \o UnitsOf(p, s), s) <=> StoredIn(c, s)
           /\ ErrorBits(c \o UnitsOf(p, s)) = ErrorBits(c)
<1> DEFINE n == Len(c)
<1>0. c \in Seq(CodeUnits) /\ n \in Nat /\ DOMAIN c = 1..n /\ CodePoints(c) \in Seq(Planes)
  <2>1. c \in Seq(CodeUnits) /\ <<"bmp", s>> \in CodeUnits
    BY UnitsFacts
  <2>2. QED  BY <2>1, CodePointsNext
<1>1. CASE p = "bmp"
  <2> DEFINE u == <<"bmp", s>>
             r == Append(c, u)
  <2>1. u \in CodeUnits /\ u[1] = "bmp" /\ u[2] = s
    BY UnitsFacts
  <2>2. c \o UnitsOf(p, s) = r
    BY <1>0, <1>1, <2>1, UnitsFacts, AppendIsConcat
  <2> HIDE DEF u
  <2>3. /\ r \in Contents /\ Len(r) = n + 1 /\ r[n+1] = u /\ \A k \in 1..n : r[k] = c[k]
        /\ Highs(r) = Highs(c) + 0 /\ DOMAIN r = 1..n+1
    <3>1. /\ r \in Contents /\ Len(r) = n + 1 /\ r[n+1] = u /\ \A k \in 1..n : r[k] = c[k]
          /\ Highs(r) = Highs(c) + 0 /\ Highs(c) \in Nat
      BY <2>1, UnitAdded
    <3>2. DOMAIN r = 1..n+1
      BY <3>1 DEF Contents
    <3> HIDE DEF r
    <3>3. QED  BY <3>1, <3>2
  <2>4. CodePoints(r) = Append(CodePoints(c), p)
    <3>1. PointOf(u) = <<p>>
      BY <1>1, <2>1 DEF PointOf
    <3>2. CodePoints(r) = CodePoints(c) \o <<p>>
      BY <2>1, <3>1, CodePointsNext
    <3>3. QED  BY <1>0, <3>2, AppendIsConcat
  <2> HIDE DEF r
  <2>5. StoredIn(r, s) <=> StoredIn(c, s)
    BY <1>0, <2>1, <2>3 DEF StoredIn
  <2>6. ErrorBits(r) = ErrorBits(c)
    <3> HIDE DEF n
    <3>1. \A k \in 1..n : Class(r, k) = Class(c, k)
      BY <1>0, <2>3 DEF Class
    <3>2. /\ Class(r, n + 1) = "bmp" /\ Class(c, n + 1) = "outside"
          /\ Class(r, 0) = "outside" /\ Class(c, 0) = "outside"
      BY <1>0, <2>1, <2>3 DEF Class
    <3>3. \A k \in 1..n : k \in ErrorBits(r) <=> k \in ErrorBits(c)
      <4> TAKE k \in 1..n
      <4>1. Class(r, k) = Class(c, k)
        BY <3>1
      <4>2. Class(r, k - 1) = Class(c, k - 1)
        <5>1. k - 1 = 0 \/ k - 1 \in 1..n
          BY <1>0
        <5>2. QED  BY <3>1, <3>2, <5>1
      <4>3. Class(r, k + 1) # "low" <=> Class(c, k + 1) # "low"
        <5>1. k + 1 = n + 1 \/ k + 1 \in 1..n
          BY <1>0
        <5>2. QED  BY <3>1, <3>2, <5>1
      <4>4. k \in DOMAIN r /\ k \in DOMAIN c
        BY <1>0, <2>3
      <4>5. QED  BY <4>1, <4>2, <4>3, <4>4 DEF ErrorBits
    <3>4. n + 1 \notin ErrorBits(r)
      BY <3>2 DEF ErrorBits
    <3>5. ErrorBits(r) \subseteq 1..n+1 /\ ErrorBits(c) \subseteq 1..n
      BY <1>0, <2>3 DEF ErrorBits
    <3>6. 1..n+1 = 1..n \cup {n+1}
      BY <1>0
    <3>7. QED  BY <3>3, <3>4, <3>5, <3>6
  <2>7. QED  BY <1>1, <2>2, <2>3, <2>4, <2>5, <2>6
<1>2. CASE p = "supp"
  <2> DEFINE u == <<"high", s>>
             v == <<"low", s>>
             q == Append(c, u)
             r == Append(q, v)
  <2>1. /\ u \in CodeUnits /\ u[1] = "high" /\ u[2] = s
        /\ v \in CodeUnits /\ v[1] = "low" /\ v[2] = s
    BY UnitsFacts
  <2>2. c \o UnitsOf(p, s) = r
    <3>1. UnitsOf(p, s) = <<u, v>>
      BY <1>2, UnitsFacts
    <3> HIDE DEF u, v
    <3>2. c \o <<u, v>> = Append(Append(c, u), v)
      <4>1. c \o <<u, v>> \in Seq(CodeUnits) /\ Len(c \o <<u, v>>) = n + 2
        BY <1>0, <2>1
      <4>2. Append(Append(c, u), v) \in Seq(CodeUnits) /\ Len(Append(Append(c, u), v)) = n + 2
        BY <1>0, <2>1
      <4>3. \A k \in 1..n+2 : (c \o <<u, v>>)[k] = Append(Append(c, u), v)[k]
        BY <1>0, <2>1
      <4>4. QED  BY <4>1, <4>2, <4>3, SeqEqual
    <3>3. QED  BY <3>1, <3>2
  <2> HIDE DEF u, v
  <2>3. /\ r \in Contents /\ Len(r) = n + 2 /\ r[n+1] = u /\ r[n+2] = v
        /\ \A k \in 1..n : r[k] = c[k]
        /\ Highs(r) = Highs(c) + 1 /\ DOMAIN r = 1..n+2
    <3>1. /\ q \in Contents /\ Len(q) = n + 1 /\ q[n+1] = u /\ \A k \in 1..n : q[k] = c[k]
          /\ Highs(q) = Highs(c) + 1 /\ Highs(c) \in Nat
      BY <2>1, UnitAdded
    <3> HIDE DEF q
    <3>2. /\ r \in Contents /\ Len(r) = Len(q) + 1 /\ r[Len(q)+1] = v
          /\ \A k \in 1..Len(q) : r[k] = q[k]
          /\ Highs(r) = Highs(q) + 0 /\ Highs(q) \in Nat
      BY <2>1, <3>1, UnitAdded
    <3>3. DOMAIN r = 1..n+2
      BY <1>0, <3>1, <3>2 DEF Contents
    <3> HIDE DEF r, n
    <3>4. QED  BY <1>0, <3>1, <3>2, <3>3
  <2>4. CodePoints(r) = Append(CodePoints(c), p)
    <3>1. PointOf(u) = <<p>> /\ PointOf(v) = <<>>
      BY <1>2, <2>1 DEF PointOf
    <3>2. q \in Contents
      BY <2>1, UnitAdded
    <3>3. CodePoints(q) = CodePoints(c) \o <<p>>
      BY <2>1, <3>1, CodePointsNext
    <3>4. CodePoints(r) = CodePoints(q) \o <<>> /\ CodePoints(q) \in Seq(Planes)
      BY <2>1, <3>1, <3>2, CodePointsNext
    <3>5. QED  BY <1>0, <3>3, <3>4, AppendIsConcat, ConcatEmptySeq
  <2> HIDE DEF r
  <2>5. StoredIn(r, s) <=> StoredIn(c, s)
    BY <1>0, <2>1, <2>3 DEF StoredIn
  <2>6. ErrorBits(r) = ErrorBits(c)
    <3> HIDE DEF n
    <3>1. \A k \in 1..n : Class(r, k) = Class(c, k)
      BY <1>0, <2>3 DEF Class
    <3>2. /\ Class(r, n + 1) = "high" /\ Class(r, n + 2) = "low"
          /\ Class(c, n + 1) = "outside"
          /\ Class(r, 0) = "outside" /\ Class(c, 0) = "outside"
      BY <1>0, <2>1, <2>3 DEF Class
    <3>3. \A k \in 1..n : k \in ErrorBits(r) <=> k \in ErrorBits(c)
      <4> TAKE k \in 1..n
      <4>1. Class(r, k) = Class(c, k)
        BY <3>1
      <4>2. Class(r, k - 1) = Class(c, k - 1)
        <5>1. k - 1 = 0 \/ k - 1 \in 1..n
          BY <1>0
        <5>2. QED  BY <3>1, <3>2, <5>1
      <4>3. Class(r, k + 1) # "low" <=> Class(c, k + 1) # "low"
        <5>1. k + 1 = n + 1 \/ k + 1 \in 1..n
          BY <1>0
        <5>2. QED  BY <3>1, <3>2, <5>1
      <4>4. k \in DOMAIN r /\ k \in DOMAIN c
        BY <1>0, <2>3
      <4>5. QED  BY <4>1, <4>2, <4>3, <4>4 DEF ErrorBits
    <3>4. n + 1 \notin ErrorBits(r) /\ n + 2 \notin ErrorBits(r)
      <4>1. Class(r, n + 1 + 1) = "low" /\ Class(r, (n + 2) - 1) = "high"
        <5>1. n + 1 + 1 = n + 2 /\ (n + 2) - 1 = n + 1
          BY <1>0
        <5>2. QED  BY <3>2, <5>1
      <4>2. \A k \in ErrorBits(r) : \/ Class(r, k) = "low" /\ Class(r, k - 1) # "high"
                                    \/ Class(r, k) = "high" /\ Class(r, k + 1) # "low"
        BY DEF ErrorBits
      <4>3. ASSUME n + 1 \in ErrorBits(r) PROVE FALSE
        BY <3>2, <4>1, <4>2, <4>3
      <4>4. ASSUME n + 2 \in ErrorBits(r) PROVE FALSE
        BY <3>2, <4>1, <4>2, <4>4
      <4>5. QED  BY <4>3, <4>4
    <3>5. ErrorBits(r) \subseteq 1..n+2 /\ ErrorBits(c) \subseteq 1..n
      BY <1>0, <2>3 DEF ErrorBits
    <3>6. 1..n+2 = 1..n \cup {n+1, n+2}
      BY <1>0
    <3>7. QED  BY <3>3, <3>4, <3>5, <3>6
  <2>7. QED  BY <1>2, <2>2, <2>3, <2>4, <2>5, <2>6
<1>3. QED  BY <1>1, <1>2 DEF Planes

\* Appending a code point to a text appends its units to the encoding.
LEMMA EncodeAdds ==
    ASSUME NEW t \in Seq(Planes), NEW p \in Planes, NEW s \in Range(Encodings)
    PROVE  Encode(Append(t, p), s) = Encode(t, s) \o UnitsOf(p, s)
  BY EncodeNext

\* An empty text has an empty encoding.
LEMMA EncodeNothing == \A s \in Range(Encodings) : Encode(<<>>, s) = <<>>
<1> SUFFICES ASSUME NEW s \in Range(Encodings) PROVE Encode(<<>>, s) = <<>>
  OBVIOUS
<1> DEFINE U == [k \in DOMAIN <<>> |-> UnitsOf(<<>>[k], s)]
<1>1. Encode(<<>>, s) = FlattenSeq(U)
  BY DEF Encode, Codec, UnitsOf
<1>2. U = <<>>
  OBVIOUS
<1> HIDE DEF U
<1>3. QED  BY <1>1, <1>2, FlattenNone

\* An encoding is well-formed, of the size that was measured, and gives its
\* text back.
LEMMA EncodeFacts ==
    ASSUME NEW t \in Seq(Planes), NEW s \in Range(Encodings)
    PROVE  /\ Encode(t, s) \in Contents /\ StoredIn(Encode(t, s), s)
           /\ ErrorBits(Encode(t, s)) = {}
           /\ Len(Encode(t, s)) = CodeUnitLength(t)
           /\ CodePoints(Encode(t, s)) = t
           /\ Highs(Encode(t, s)) = Supplementary(t)
<1> DEFINE Right(r, c) == /\ c \in Contents /\ StoredIn(c, s) /\ ErrorBits(c) = {}
                          /\ Len(c) = CodeUnitLength(r) /\ CodePoints(c) = r
                          /\ Highs(c) = Supplementary(r)
           G == {r \in Seq(Planes) : Right(r, Encode(r, s))}
<1>1. <<>> \in G
  <2>1. <<>> \in Contents /\ Len(<<>>) = 0 /\ <<>> \in Seq(Planes)
    BY EmptySeq DEF Contents
  <2>2. StoredIn(<<>>, s) /\ ErrorBits(<<>>) = {}
    BY DEF StoredIn, ErrorBits
  <2>3. CodePoints(<<>>) = <<>>
    <3> DEFINE U == [k \in DOMAIN <<>> |-> PointOf(<<>>[k])]
    <3>1. CodePoints(<<>>) = FlattenSeq(U)
      BY DEF CodePoints, PointOf
    <3>2. U = <<>>
      OBVIOUS
    <3> HIDE DEF U
    <3>3. QED  BY <3>1, <3>2, FlattenNone
  <2>4. Highs(<<>>) = 0 /\ Supplementary(<<>>) = 0
    <3>1. {k \in DOMAIN <<>> : <<>>[k][1] = "high"} = {} /\ {k \in DOMAIN <<>> : <<>>[k] = "supp"} = {}
      OBVIOUS
    <3>2. QED  BY <3>1, FS_EmptySet DEF Highs, Supplementary
  <2>5. CodeUnitLength(<<>>) = 0
    BY <2>1, <2>4 DEF CodeUnitLength
  <2>6. QED  BY <2>1, <2>2, <2>3, <2>4, <2>5, EncodeNothing
<1>2. ASSUME NEW r \in Seq(Planes), NEW p \in Planes, r \in G PROVE Append(r, p) \in G
  <2> DEFINE c == Encode(r, s)
             d == c \o UnitsOf(p, s)
  <2>1. Right(r, c)
    BY <1>2
  <2>2. Encode(Append(r, p), s) = d
    BY EncodeAdds
  <2> HIDE DEF c
  <2>3. /\ d \in Contents /\ Len(d) = Len(c) + (IF p = "supp" THEN 2 ELSE 1)
        /\ Highs(d) = Highs(c) + (IF p = "supp" THEN 1 ELSE 0)
        /\ CodePoints(d) = Append(CodePoints(c), p) /\ StoredIn(d, s) /\ ErrorBits(d) = {}
    BY <2>1, PointAdded
  <2> HIDE DEF d
  <2>4. /\ Supplementary(Append(r, p)) = Supplementary(r) + (IF p = "supp" THEN 1 ELSE 0)
        /\ Supplementary(r) \in Nat
    BY SupplementaryNext
  <2>5. Append(r, p) \in Seq(Planes) /\ Len(Append(r, p)) = Len(r) + 1 /\ Len(r) \in Nat
    OBVIOUS
  <2>6. Len(d) = CodeUnitLength(Append(r, p))
    BY <2>1, <2>3, <2>4, <2>5 DEF CodeUnitLength
  <2>7. Right(Append(r, p), d)
    BY <2>1, <2>3, <2>4, <2>6
  <2>8. QED  BY <2>2, <2>5, <2>7
<1>3. Seq(Planes) \subseteq G
  <2> HIDE DEF G
  <2>1. QED  BY <1>1, <1>2, InductionOnSeq
<1>4. QED  BY <1>3

\* A well-formed content that is stored in one byte order ends with the units
\* of a code point.
LEMMA LastCodePoint ==
    ASSUME NEW c \in Contents, NEW s \in Range(Encodings), c # <<>>,
           StoredIn(c, s), ErrorBits(c) = {}
    PROVE  \E b \in Contents, p \in Planes : c = b \o UnitsOf(p, s) /\ Len(b) < Len(c)
<1> DEFINE n == Len(c)
<1>1. c \in Seq(CodeUnits) /\ n \in Nat \ {0} /\ DOMAIN c = 1..n
  <2>1. c \in Seq(CodeUnits)
    BY UnitsFacts
  <2>2. QED  BY <2>1, EmptySeq
<1>2. \A k \in 1..n : c[k] = <<c[k][1], s>> /\ c[k][1] \in {"high", "low", "bmp"}
  <2> TAKE k \in 1..n
  <2>1. c[k] \in CodeUnits /\ c[k][2] = s
    BY <1>1 DEF StoredIn
  <2>2. QED  BY <2>1 DEF CodeUnits
<1>3. \A k \in 1..n : /\ c[k][1] = "low" => k - 1 \in 1..n /\ c[k-1][1] = "high"
                      /\ c[k][1] = "high" => k + 1 \in 1..n /\ c[k+1][1] = "low"
  <2> TAKE k \in 1..n
  <2>1. k \in DOMAIN c /\ k \notin ErrorBits(c) /\ Class(c, k) = c[k][1]
    BY <1>1 DEF Class
  <2>2. /\ c[k][1] = "low" => Class(c, k - 1) = "high"
        /\ c[k][1] = "high" => Class(c, k + 1) = "low"
    BY <2>1 DEF ErrorBits
  <2>3. \A m : Class(c, m) \in {"high", "low"} => m \in 1..n /\ Class(c, m) = c[m][1]
    BY <1>1 DEF Class
  <2>4. QED  BY <2>2, <2>3
<1>4. n \in 1..n /\ c[n] = <<c[n][1], s>> /\ c[n][1] \in {"high", "low", "bmp"}
  <2>1. n \in 1..n
    BY <1>1
  <2>2. QED  BY <1>2, <2>1
<1>5. CASE c[n][1] = "bmp"
  <2> DEFINE b == [k \in 1..n-1 |-> c[k]]
  <2>1. b \in Seq(CodeUnits) /\ Len(b) = n - 1
    BY <1>1
  <2>2. b \o <<c[n]>> = c
    <3>1. b \o <<c[n]>> \in Seq(CodeUnits) /\ Len(b \o <<c[n]>>) = n
      BY <1>1, <2>1
    <3>2. \A k \in 1..n : (b \o <<c[n]>>)[k] = c[k]
      BY <1>1, <2>1
    <3> HIDE DEF b, n
    <3>3. QED  BY <1>1, <3>1, <3>2, SeqEqual DEF n
  <2>3. UnitsOf("bmp", s) = <<c[n]>>
    BY <1>4, <1>5, UnitsFacts
  <2>4. b \in Contents /\ Len(b) < Len(c)
    <3>1. Contents = Seq(CodeUnits)
      BY UnitsFacts
    <3> HIDE DEF b
    <3>2. QED  BY <1>1, <2>1, <3>1
  <2> HIDE DEF b
  <2>5. QED  BY <2>2, <2>3, <2>4 DEF Planes
<1>6. CASE c[n][1] = "low"
  <2> DEFINE b == [k \in 1..n-2 |-> c[k]]
  <2>1. n - 1 \in 1..n /\ c[n-1][1] = "high" /\ n >= 2
    BY <1>1, <1>3, <1>6
  <2>2. b \in Seq(CodeUnits) /\ Len(b) = n - 2
    BY <1>1, <2>1
  <2>3. b \o <<c[n-1], c[n]>> = c
    <3>1. b \o <<c[n-1], c[n]>> \in Seq(CodeUnits) /\ Len(b \o <<c[n-1], c[n]>>) = n
      BY <1>1, <2>1, <2>2
    <3>2. \A k \in 1..n : (b \o <<c[n-1], c[n]>>)[k] = c[k]
      BY <1>1, <2>1, <2>2
    <3> HIDE DEF b, n
    <3>3. QED  BY <1>1, <3>1, <3>2, SeqEqual DEF n
  <2>4. UnitsOf("supp", s) = <<c[n-1], c[n]>>
    <3>1. c[n-1] = <<"high", s>> /\ c[n] = <<"low", s>>
      BY <1>4, <1>2, <1>6, <2>1
    <3>2. QED  BY <3>1, UnitsFacts
  <2>5. b \in Contents /\ Len(b) < Len(c)
    <3>1. Contents = Seq(CodeUnits)
      BY UnitsFacts
    <3> HIDE DEF b
    <3>2. QED  BY <1>1, <2>2, <3>1
  <2> HIDE DEF b
  <2>6. QED  BY <2>3, <2>4, <2>5 DEF Planes
<1>7. c[n][1] # "high"
  BY <1>1, <1>3
<1>8. QED  BY <1>4, <1>5, <1>6, <1>7

\* So it is the encoding of its code points, and no other content has them.
LEMMA EncodingIsUnique ==
    ASSUME NEW c \in Contents, NEW s \in Range(Encodings), StoredIn(c, s), ErrorBits(c) = {}
    PROVE  c = Encode(CodePoints(c), s)
<1> DEFINE WellFormed(d) == d \in Contents /\ StoredIn(d, s) /\ ErrorBits(d) = {}
           G == {n \in Nat : \A d : WellFormed(d) /\ Len(d) <= n => d = Encode(CodePoints(d), s)}
<1>1. \A d \in Contents : Len(d) \in Nat /\ (d = <<>> <=> Len(d) = 0)
  BY EmptySeq DEF Contents
<1>2. CodePoints(<<>>) = <<>>
  <2>1. CodePoints(Encode(<<>>, s)) = <<>>
    BY EmptySeq, EncodeFacts
  <2>2. QED  BY <2>1, EncodeNothing
<1>3. 0 \in G
  <2> SUFFICES ASSUME NEW d, WellFormed(d), Len(d) <= 0 PROVE d = Encode(CodePoints(d), s)
    OBVIOUS
  <2>1. d = <<>>
    BY <1>1
  <2>2. QED  BY <1>2, <2>1, EncodeNothing
<1>4. ASSUME NEW n \in Nat, n \in G PROVE n + 1 \in G
  <2> SUFFICES ASSUME NEW d, WellFormed(d), Len(d) <= n + 1 PROVE d = Encode(CodePoints(d), s)
    OBVIOUS
  <2>1. CASE d = <<>>
    BY <1>2, <2>1, EncodeNothing
  <2>2. CASE d # <<>>
    <3>1. PICK b \in Contents, p \in Planes : d = b \o UnitsOf(p, s) /\ Len(b) < Len(d)
      BY <2>2, LastCodePoint
    <3>2. /\ StoredIn(b, s) /\ ErrorBits(b) = {}
          /\ CodePoints(d) = Append(CodePoints(b), p)
      BY <3>1, PointAdded
    <3>3. Len(b) <= n
      BY <1>1, <3>1
    <3>4. b = Encode(CodePoints(b), s)
      BY <1>4, <3>2, <3>3
    <3>5. CodePoints(b) \in Seq(Planes)
      <4>1. <<"bmp", s>> \in CodeUnits
        BY UnitsFacts
      <4>2. QED  BY <4>1, CodePointsNext
    <3>6. Encode(CodePoints(d), s) = Encode(CodePoints(b), s) \o UnitsOf(p, s)
      BY <3>2, <3>5, EncodeAdds
    <3>7. QED  BY <3>1, <3>4, <3>6
  <2>3. QED  BY <2>1, <2>2
<1>5. Nat \subseteq G
  <2> HIDE DEF G
  <2>1. QED  BY <1>3, <1>4, InductionOnNat
<1>6. Len(c) \in G
  BY <1>1, <1>5
<1>7. QED  BY <1>1, <1>6

-----------------------------------------------------------------------------
(* The inductive invariant of the corpus.                                  *)

\* Draws that name paragraphs of a dataset.
Drawable(n, ds) ==
    ds \in Seq(Nat) /\ \A j \in 1..Len(ds) : ds[j] \in DOMAIN SpecOf(n).paragraphs

\* The text a dataset grows to from the draws ds: of its first k draws, and of
\* as few as reach the target.  TextsOf has one element or, when too few have
\* been drawn, none.
Parts(n, ds, k) == [j \in 1..k |-> SpecOf(n).paragraphs[ds[j]]]
GrownOf(n, ds, k) == Joined(Parts(n, ds, k)) \o Newline
Enough(n, ds, target, k) ==
    target = 0 \/ (k > 0 /\ CodeUnitLength(GrownOf(n, ds, k)) >= target)
Shortest(n, ds, target, k) ==
    Enough(n, ds, target, k) /\ \A l \in 0..k-1 : ~Enough(n, ds, target, l)
TextsOf(n, ds, target) ==
    IF n \in Exacts THEN {Joined(SpecOf(n).paragraphs)}
    ELSE {GrownOf(n, ds, k) : k \in {l \in 0..Len(ds) : Shortest(n, ds, target, l)}}

\* The same from the draws of a state, and what the manifest has to say of it.
TextsAt(dr, n, seed, target) == TextsOf(n, IF n \in Exacts THEN <<>> ELSE dr[<<n, seed>>], target)
MetaOf(n, seed, t) ==
    [dataset |-> n, seed |-> IF n \in Exacts THEN None ELSE seed, counts |-> Measure(t),
     digests |-> [s \in Range(Encodings) |-> Encode(t, s)]]

\* A text stops at the paragraph that reaches the target.
Fitting(n, target, t) ==
    n \notin Exacts =>
        /\ CodeUnitLength(t) >= target
        /\ target = 0 \/ \E p \in Range(SpecOf(n).paragraphs) :
                             CodeUnitLength(t) < target + CodeUnitLength(p) + 1

\* What a profile takes from the table.
ChosenFor(profile) == {n \in Names : profile = "fixtures" \/ n \notin Exacts}

\* A manifest that was written whole.
ManifestRight(mf, dr) ==
    /\ \A d \in mf.datasets : d.dataset \in ChosenFor(mf.profile)
    /\ \A n \in ChosenFor(mf.profile) :
          \E t \in TextsAt(dr, n, mf.seed, mf.target) :
             {d \in mf.datasets : d.dataset = n} = {MetaOf(n, mf.seed, t)}

-----------------------------------------------------------------------------
(* Its parts.                                                              *)

\* What a run may be called with.
Runs == [profile : {"fixtures", "bench"}, seed : Seeds, target : Nat, check : BOOLEAN]

\* The types of what a run works with, and of what lies on the disk.
WorkTypes ==
    /\ run = NoRun \/ run \in Runs
    /\ draws \in [(Names \ Exacts) \X Seeds -> Seq(Nat)]
    /\ \A n \in Names \ Exacts, seed \in Seeds : Drawable(n, draws[<<n, seed>>])
    /\ at \in Nat \ {0} /\ text \in Seq(Planes)
    /\ payloads \in [Payloads -> Contents \cup {None}]
    /\ stage \in {"build", "grow", "encode", "write", "check"} => run \in Runs /\ last = "running"
    /\ stage = "build" => at <= Len(Table) + 1
    /\ stage \in {"grow", "encode"} => at <= Len(Table) /\ ~Skips(Current)
    /\ stage \in {"idle", "check"} => at = 1

DiskTypes ==
    /\ disk = [f \in Files |-> disk[f]]
    /\ \A f \in Payloads : disk[f] \in Contents \cup {None, Edited}
    /\ disk[Manifest] \in Manifests \cup {None, Torn, Edited}

\* The text of a dataset while it grows, and when it is complete.
GrowInv ==
    /\ stage = "grow" =>
          /\ ~Current.exact /\ drawn <= Len(draws[Stream])
          /\ text = Joined(Parts(Current.name, draws[Stream], drawn))
          /\ units = IF drawn = 0 THEN 0 ELSE CodeUnitLength(text) + 1
          /\ \A l \in 0..drawn-1 : ~Enough(Current.name, draws[Stream], run.target, l)
          /\ drawn = 0 \/ \E p \in Range(Current.paragraphs) :
                              units < run.target + CodeUnitLength(p) + 1
    /\ stage = "encode" =>
          /\ text \in TextsAt(draws, Current.name, run.seed, run.target)
          /\ Fitting(Current.name, run.target, text)

\* The datasets built so far, and what has been built of each.
Done ==
    IF stage = "idle" THEN {}
    ELSE IF stage \in {"write", "check"} THEN Chosen
    ELSE {Table[l].name : l \in {j \in 1..at-1 : ~Skips(Table[j])}}
BuiltRight(n) ==
    \E t \in TextsAt(draws, n, run.seed, run.target) :
        /\ Fitting(n, run.target, t)
        /\ \A s \in Range(Encodings) : payloads[<<n, s>>] = Encode(t, s)
        /\ {d \in metas : d.dataset = n} = {MetaOf(n, run.seed, t)}
BuiltInv ==
    /\ \A f \in Payloads : payloads[f] # None => f[1] \in Done
    /\ \A d \in metas : d.dataset \in Done
    /\ \A n \in Done : BuiltRight(n)

\* While it writes, a run has left what it should in the files it has opened;
\* when it has written, in all of them.
WriteInv ==
    /\ stage = "write" =>
          /\ at <= Len(WriteOrder) + 1
          /\ \A j \in 1..at-1 : disk[WriteOrder[j]] = ExpectedContent(WriteOrder[j])
    /\ last = "wrote" =>
          /\ run \in Runs /\ disk[Manifest] \in Manifests
          /\ disk[Manifest].profile = run.profile /\ disk[Manifest].seed = run.seed
          /\ disk[Manifest].target = run.target
          /\ \A n \in Chosen : \E t \in TextsAt(draws, n, run.seed, run.target) :
                \A s \in Range(Encodings) : disk[<<n, s>>] = Encode(t, s)

\* A whole manifest tells the truth of all files nobody has touched since.
Dubious == suspect \cup (IF stage = "write" THEN Opened(at - 1) ELSE {})
ManifestInv ==
    disk[Manifest] \in Manifests =>
        /\ ManifestRight(disk[Manifest], draws)
        /\ \A f \in Payloads \ Dubious : Describes(disk[Manifest], f)

CorpusIInv ==
    /\ CorpusTypeOK /\ stage # "refused" /\ WorkTypes /\ DiskTypes
    /\ GrowInv /\ BuiltInv /\ WriteInv /\ ManifestInv /\ CheckExact

-----------------------------------------------------------------------------
(* Texts that are joined.                                                  *)

\* Code units add up when texts are put together.
LEMMA LengthAdds ==
    ASSUME NEW t \in Seq(Planes), NEW u \in Seq(Planes)
    PROVE  /\ t \o u \in Seq(Planes)
           /\ CodeUnitLength(t \o u) = CodeUnitLength(t) + CodeUnitLength(u)
           /\ CodeUnitLength(u) \in Nat
<1> DEFINE G == {v \in Seq(Planes) : /\ CodeUnitLength(t \o v) = CodeUnitLength(t) + CodeUnitLength(v)
                                     /\ CodeUnitLength(v) \in Nat}
<1>0. \A v \in Seq(Planes) : /\ Supplementary(v) \in Nat /\ CodeUnitLength(v) \in Nat
                             /\ Len(v) \in Nat
  <2> TAKE v \in Seq(Planes)
  <2>1. Supplementary(v) \in Nat
    BY SupplementaryNext DEF Planes
  <2>2. Len(v) \in Nat
    OBVIOUS
  <2>3. QED  BY <2>1, <2>2 DEF CodeUnitLength
<1>1. <<>> \in G
  <2>1. <<>> \in Seq(Planes) /\ t \o <<>> = t
    BY EmptySeq, ConcatEmptySeq
  <2>2. CodeUnitLength(<<>>) = 0
    <3>1. {k \in DOMAIN <<>> : <<>>[k] = "supp"} = {} /\ Len(<<>>) = 0
      OBVIOUS
    <3>2. QED  BY <3>1, FS_EmptySet DEF CodeUnitLength, Supplementary
  <2>3. QED  BY <1>0, <2>1, <2>2
<1>2. ASSUME NEW v \in Seq(Planes), NEW p \in Planes, v \in G PROVE Append(v, p) \in G
  <2>1. t \o Append(v, p) = Append(t \o v, p) /\ t \o v \in Seq(Planes)
    OBVIOUS
  <2>2. \A w \in Seq(Planes) :
            CodeUnitLength(Append(w, p)) = CodeUnitLength(w) + (IF p = "supp" THEN 2 ELSE 1)
    <3> TAKE w \in Seq(Planes)
    <3>1. Len(Append(w, p)) = Len(w) + 1 /\ Len(w) \in Nat
      OBVIOUS
    <3>2. QED  BY <3>1, SupplementaryNext DEF CodeUnitLength
  <2>3. Append(v, p) \in Seq(Planes)
    OBVIOUS
  <2>4. CodeUnitLength(t \o v) = CodeUnitLength(t) + CodeUnitLength(v)
    BY <1>2
  <2>5. /\ CodeUnitLength(t) \in Nat /\ CodeUnitLength(v) \in Nat
        /\ CodeUnitLength(Append(v, p)) \in Nat
    BY <1>0, <2>3
  <2>6. /\ CodeUnitLength(Append(v, p)) = CodeUnitLength(v) + (IF p = "supp" THEN 2 ELSE 1)
        /\ CodeUnitLength(Append(t \o v, p)) = CodeUnitLength(t \o v) + (IF p = "supp" THEN 2 ELSE 1)
    BY <2>1, <2>2
  <2>7. CodeUnitLength(t \o Append(v, p)) = CodeUnitLength(t) + CodeUnitLength(Append(v, p))
    BY <2>1, <2>4, <2>5, <2>6
  <2>8. QED  BY <2>3, <2>5, <2>7
<1>3. Seq(Planes) \subseteq G
  <2> HIDE DEF G
  <2>1. QED  BY <1>1, <1>2, InductionOnSeq
<1>4. t \o u \in Seq(Planes)
  BY ConcatProperties
<1>5. QED  BY <1>3, <1>4

\* A newline is one code unit.
LEMMA NewlineFacts == Newline \in Seq(Planes) /\ CodeUnitLength(Newline) = 1
<1>1. Newline \in Seq(Planes) /\ Len(Newline) = 1
  BY DEF Newline, Planes
<1>2. {k \in DOMAIN Newline : Newline[k] = "supp"} = {}
  BY DEF Newline
<1>3. QED  BY <1>1, <1>2, FS_EmptySet DEF CodeUnitLength, Supplementary

\* Joined paragraphs, one more at a time.
LEMMA JoinedNext ==
    ASSUME NEW parts \in Seq(Seq(Planes)), NEW p \in Seq(Planes)
    PROVE  /\ Joined(Append(parts, p)) = IF parts = <<>> THEN p ELSE Joined(parts) \o (Newline \o p)
           /\ Joined(parts) \in Seq(Planes)
           /\ Joined(<<>>) = <<>>
<1> DEFINE Piece(r, k) == IF k = 1 THEN r[k] ELSE Newline \o r[k]
           U == [k \in DOMAIN parts |-> Piece(parts, k)]
           r1 == Append(parts, p)
           V == [k \in DOMAIN r1 |-> Piece(r1, k)]
           e == IF parts = <<>> THEN p ELSE Newline \o p
<1>1. Joined(parts) = FlattenSeq(U) /\ Joined(r1) = FlattenSeq(V)
  BY DEF Joined
<1>2. \A q \in Seq(Planes) : Newline \o q \in Seq(Planes)
  BY NewlineFacts, ConcatProperties
<1>3. /\ r1 \in Seq(Seq(Planes)) /\ Len(r1) = Len(parts) + 1 /\ r1[Len(parts) + 1] = p
      /\ \A k \in 1..Len(parts) : r1[k] = parts[k]
  OBVIOUS
<1>4. U \in Seq(Seq(Planes)) /\ Len(U) = Len(parts) /\ Len(parts) \in Nat
      /\ \A k \in 1..Len(parts) : U[k] = Piece(parts, k)
  <2>1. \A k \in 1..Len(parts) : parts[k] \in Seq(Planes)
    OBVIOUS
  <2>2. \A k \in 1..Len(parts) : Piece(parts, k) \in Seq(Planes)
    BY <1>2, <2>1
  <2>3. DOMAIN parts = 1..Len(parts) /\ Len(parts) \in Nat
    OBVIOUS
  <2> HIDE DEF Piece
  <2>4. QED  BY <2>2, <2>3
<1>5. V \in Seq(Seq(Planes)) /\ Len(V) = Len(parts) + 1
      /\ \A k \in 1..Len(parts)+1 : V[k] = Piece(r1, k)
  <2> HIDE DEF r1
  <2>1. QED  BY <1>2, <1>3
<1>6. e \in Seq(Planes)
  BY <1>2
<1>7. V = Append(U, e)
  <2> HIDE DEF U, V, r1
  <2>1. Append(U, e) \in Seq(Seq(Planes)) /\ Len(Append(U, e)) = Len(V)
    BY <1>4, <1>5, <1>6
  <2>2. ASSUME NEW k \in 1..Len(V) PROVE V[k] = Append(U, e)[k]
    <3>1. CASE k = Len(parts) + 1
      <4>1. Append(U, e)[k] = e /\ V[k] = Piece(r1, k) /\ r1[k] = p
        <5>1. Append(U, e)[Len(U) + 1] = e
          BY <1>4, <1>6, AppendProperties
        <5>2. V[k] = Piece(r1, k) /\ r1[k] = p
          BY <1>3, <1>4, <1>5, <3>1
        <5> HIDE DEF e, Piece
        <5>3. QED  BY <1>4, <3>1, <5>1, <5>2
      <4>2. k = 1 <=> parts = <<>>
        BY <1>4, <3>1, EmptySeq
      <4>3. QED  BY <4>1, <4>2
    <3>2. CASE k # Len(parts) + 1
      <4>1. k \in 1..Len(parts)
        BY <1>4, <1>5, <3>2
      <4>2. Append(U, e)[k] = U[k]
        BY <1>4, <1>6, <4>1
      <4>3. V[k] = Piece(r1, k) /\ r1[k] = parts[k] /\ U[k] = Piece(parts, k)
        BY <1>3, <1>4, <1>5, <4>1
      <4>4. QED  BY <4>2, <4>3
    <3>3. QED  BY <3>1, <3>2
  <2>3. QED  BY <1>5, <2>1, <2>2, SeqEqual
<1>8. FlattenSeq(V) = FlattenSeq(U) \o e /\ FlattenSeq(U) \in Seq(Planes)
  <2> HIDE DEF U, V, e
  <2>1. QED  BY <1>4, <1>6, <1>7, FlattenAppend, FlattenType
<1>9. Joined(<<>>) = <<>>
  <2> DEFINE W == [k \in DOMAIN <<>> |-> Piece(<<>>, k)]
  <2>1. Joined(<<>>) = FlattenSeq(W)
    BY DEF Joined
  <2>2. W = <<>>
    OBVIOUS
  <2> HIDE DEF W
  <2>3. QED  BY <2>1, <2>2, FlattenNone
<1>10. parts = <<>> => FlattenSeq(U) \o e = p
  <2>1. <<>> \o p = p
    BY ConcatEmptySeq
  <2> HIDE DEF U
  <2>2. QED  BY <1>1, <1>9, <2>1
<1> HIDE DEF U, V
<1>11. QED  BY <1>1, <1>8, <1>9, <1>10

-----------------------------------------------------------------------------
(* What the table gives.                                                   *)

\* Every name has its own entry in the table.
LEMMA TableFacts ==
    /\ Len(Table) \in Nat /\ DOMAIN Table = 1..Len(Table)
    /\ \A l \in 1..Len(Table) : /\ Table[l] \in Specs /\ Table[l].name \in Names
                                /\ SpecOf(Table[l].name) = Table[l]
    /\ \A l, m \in 1..Len(Table) : Table[l].name = Table[m].name => l = m
    /\ \A n \in Names : \E l \in 1..Len(Table) : Table[l].name = n
    /\ \A n \in Names : SpecOf(n) \in Specs /\ SpecOf(n).name = n
<1>1. /\ Table \in Seq(Specs) /\ Len(Table) \in Nat /\ DOMAIN Table = 1..Len(Table)
      /\ \A l \in 1..Len(Table) : Table[l] \in Specs
  <2>1. Table \in Seq(Specs)
    BY TableAssumption
  <2>2. QED  BY <2>1, LenProperties, ElementOfSeq
<1>2. \A l, m \in 1..Len(Table) : Table[l].name = Table[m].name => l = m
  BY <1>1, TableAssumption
<1>3. \A l \in 1..Len(Table) : Table[l].name \in Names
  BY <1>1 DEF Names
<1>4. \A n \in Names : \E l \in 1..Len(Table) : Table[l].name = n
  BY <1>1 DEF Names
<1>5. ASSUME NEW l \in 1..Len(Table) PROVE SpecOf(Table[l].name) = Table[l]
  <2> DEFINE n == Table[l].name
             Is(x) == x \in Range(Table) /\ x.name = n
  <2>1. Is(Table[l])
    BY <1>1 DEF Range
  <2>2. \A x : Is(x) => x = Table[l]
    BY <1>1, <1>2 DEF Range
  <2>3. SpecOf(n) = CHOOSE x : Is(x)
    BY DEF SpecOf
  <2>4. QED
    <3> HIDE DEF Is
    <3>1. Is(CHOOSE x : Is(x))
      BY <2>1
    <3>2. QED  BY <2>2, <2>3, <3>1
<1>6. \A n \in Names : SpecOf(n) \in Specs /\ SpecOf(n).name = n
  BY <1>1, <1>4, <1>5
<1>7. QED  BY <1>1, <1>2, <1>3, <1>4, <1>5, <1>6

\* What an entry consists of.
LEMMA SpecFacts ==
    ASSUME NEW n \in Names
    PROVE  /\ SpecOf(n).paragraphs \in Seq(Seq(Planes))
           /\ SpecOf(n).exact \in BOOLEAN
           /\ n \in Exacts <=> SpecOf(n).exact
           /\ \A p \in DOMAIN SpecOf(n).paragraphs : /\ p \in Nat
                                                     /\ SpecOf(n).paragraphs[p] \in Seq(Planes)
<1>1. SpecOf(n) \in Specs
  BY TableFacts
<1>2. SpecOf(n).paragraphs \in Seq(Seq(Planes)) /\ SpecOf(n).exact \in BOOLEAN
  BY <1>1 DEF Specs
<1>3. \A p \in DOMAIN SpecOf(n).paragraphs : /\ p \in Nat
                                            /\ SpecOf(n).paragraphs[p] \in Seq(Planes)
  <2> DEFINE ps == SpecOf(n).paragraphs
  <2>1. ps \in Seq(Seq(Planes))
    BY <1>2
  <2> HIDE DEF ps
  <2>2. \A p \in DOMAIN ps : p \in Nat /\ ps[p] \in Seq(Planes)
    BY <2>1
  <2>3. QED  BY <2>2 DEF ps
<1>4. QED  BY <1>2, <1>3 DEF Exacts

-----------------------------------------------------------------------------
(* The text that draws give.                                               *)

\* The paragraphs drawn, the text they give, and one paragraph more.
LEMMA PartsFacts ==
    ASSUME NEW n \in Names, NEW ds, Drawable(n, ds), NEW k \in 0..Len(ds)
    PROVE  /\ Parts(n, ds, k) \in Seq(Seq(Planes)) /\ Len(Parts(n, ds, k)) = k
           /\ k < Len(ds) =>
                Parts(n, ds, k + 1) = Append(Parts(n, ds, k), SpecOf(n).paragraphs[ds[k+1]])
           /\ Joined(Parts(n, ds, k)) \in Seq(Planes)
           /\ GrownOf(n, ds, k) \in Seq(Planes)
           /\ CodeUnitLength(GrownOf(n, ds, k)) = CodeUnitLength(Joined(Parts(n, ds, k))) + 1
           /\ k = 0 => Joined(Parts(n, ds, k)) = <<>>
<1> DEFINE P(l) == [j \in 1..l |-> SpecOf(n).paragraphs[ds[j]]]
<1>0. /\ ds \in Seq(Nat) /\ Len(ds) \in Nat /\ k \in Nat
      /\ \A j \in 1..Len(ds) : SpecOf(n).paragraphs[ds[j]] \in Seq(Planes)
  BY SpecFacts DEF Drawable
<1>1. \A l \in 0..Len(ds) : P(l) \in Seq(Seq(Planes)) /\ Len(P(l)) = l
  <2> TAKE l \in 0..Len(ds)
  <2>1. \A j \in 1..l : SpecOf(n).paragraphs[ds[j]] \in Seq(Planes)
    BY <1>0
  <2>2. QED  BY <2>1
<1>2. Parts(n, ds, k) = P(k) /\ Parts(n, ds, k + 1) = P(k + 1)
  BY DEF Parts
<1>3. ASSUME k < Len(ds)
      PROVE  P(k + 1) = Append(P(k), SpecOf(n).paragraphs[ds[k+1]])
  <2> DEFINE q == SpecOf(n).paragraphs[ds[k+1]]
  <2>1. q \in Seq(Planes) /\ k + 1 \in 0..Len(ds)
    BY <1>0, <1>3
  <2>2. P(k + 1) \in Seq(Seq(Planes)) /\ Len(P(k + 1)) = k + 1
        /\ P(k) \in Seq(Seq(Planes)) /\ Len(P(k)) = k
    BY <1>1, <2>1
  <2>3. \A j \in 1..k+1 : P(k + 1)[j] = IF j = k + 1 THEN q ELSE P(k)[j]
    BY <1>0
  <2> HIDE DEF q, P
  <2>4. Append(P(k), q) \in Seq(Seq(Planes)) /\ Len(Append(P(k), q)) = k + 1
        /\ \A j \in 1..k+1 : Append(P(k), q)[j] = IF j = k + 1 THEN q ELSE P(k)[j]
    BY <1>0, <2>1, <2>2
  <2>5. P(k + 1) = Append(P(k), q)
    <3> DEFINE r == P(k + 1)
               a == Append(P(k), q)
    <3>1. r \in Seq(Seq(Planes)) /\ a \in Seq(Seq(Planes)) /\ Len(r) = Len(a)
          /\ \A j \in 1..Len(r) : r[j] = a[j]
      BY <2>2, <2>3, <2>4
    <3> HIDE DEF r, a
    <3>2. r = a
      BY <3>1, SeqEqual
    <3>3. QED  BY <3>2 DEF r, a
  <2>6. QED  BY <2>5 DEF q
<1> HIDE DEF P
<1>4. P(k) \in Seq(Seq(Planes)) /\ Len(P(k)) = k
  BY <1>1
<1>5. Joined(P(k)) \in Seq(Planes)
  <2>1. <<>> \in Seq(Planes)
    BY EmptySeq
  <2>2. QED  BY <1>4, <2>1, JoinedNext
<1>6. k = 0 => Joined(P(k)) = <<>>
  <2>1. k = 0 => P(k) = <<>>
    BY <1>4
  <2>2. <<>> \in Seq(Planes) /\ <<>> \in Seq(Seq(Planes))
    BY EmptySeq
  <2>3. QED  BY <2>1, <2>2, JoinedNext
<1>7. /\ GrownOf(n, ds, k) = Joined(P(k)) \o Newline
      /\ Joined(P(k)) \o Newline \in Seq(Planes)
      /\ CodeUnitLength(Joined(P(k)) \o Newline) = CodeUnitLength(Joined(P(k))) + 1
  BY <1>2, <1>5, NewlineFacts, LengthAdds DEF GrownOf
<1>8. QED  BY <1>2, <1>3, <1>4, <1>5, <1>6, <1>7

\* Draws that go on from those of before.
GoesOn(ds, es) == Len(ds) <= Len(es) /\ \A j \in 1..Len(ds) : es[j] = ds[j]

\* As far as they were drawn they give the same text.
LEMMA SameParts ==
    ASSUME NEW n, NEW ds, NEW es, GoesOn(ds, es), Len(ds) \in Nat, NEW k \in 0..Len(ds),
           NEW target
    PROVE  /\ Parts(n, es, k) = Parts(n, ds, k)
           /\ GrownOf(n, es, k) = GrownOf(n, ds, k)
           /\ Enough(n, es, target, k) <=> Enough(n, ds, target, k)
<1>1. Parts(n, es, k) = Parts(n, ds, k)
  <2>1. \A j \in 1..k : SpecOf(n).paragraphs[es[j]] = SpecOf(n).paragraphs[ds[j]]
    BY DEF GoesOn
  <2>2. QED  BY <2>1 DEF Parts
<1>2. GrownOf(n, es, k) = GrownOf(n, ds, k)
  BY <1>1 DEF GrownOf
<1>3. QED  BY <1>1, <1>2 DEF Enough

\* No text of draws is lost when more is drawn.
LEMMA TextsKept ==
    ASSUME NEW n, NEW ds \in Seq(Nat), NEW es \in Seq(Nat), GoesOn(ds, es), NEW target
    PROVE  TextsOf(n, ds, target) \subseteq TextsOf(n, es, target)
<1>1. Len(ds) \in Nat /\ Len(es) \in Nat /\ Len(ds) <= Len(es)
  BY DEF GoesOn
<1>2. ASSUME NEW k \in 0..Len(ds), Shortest(n, ds, target, k)
      PROVE  /\ k \in 0..Len(es) /\ Shortest(n, es, target, k)
             /\ GrownOf(n, es, k) = GrownOf(n, ds, k)
  <2>1. k \in 0..Len(es) /\ \A l \in 0..k-1 : l \in 0..Len(ds)
    BY <1>1
  <2>2. \A l \in 0..Len(ds) : Enough(n, es, target, l) <=> Enough(n, ds, target, l)
    BY <1>1, SameParts
  <2>3. Shortest(n, es, target, k)
    BY <1>2, <2>1, <2>2 DEF Shortest
  <2>4. GrownOf(n, es, k) = GrownOf(n, ds, k)
    BY <1>1, SameParts
  <2>5. QED  BY <2>1, <2>3, <2>4
<1>3. QED  BY <1>2 DEF TextsOf

\* There is one text at most, and it is a text.
LEMMA OneText ==
    ASSUME NEW n \in Names, NEW ds, n \in Exacts \/ Drawable(n, ds), NEW target,
           NEW t \in TextsOf(n, ds, target), NEW u \in TextsOf(n, ds, target)
    PROVE  t = u /\ t \in Seq(Planes)
<1>1. CASE n \in Exacts
  <2>1. t = Joined(SpecOf(n).paragraphs) /\ u = t
    BY <1>1 DEF TextsOf
  <2>2. Joined(SpecOf(n).paragraphs) \in Seq(Planes)
    <3>1. SpecOf(n).paragraphs \in Seq(Seq(Planes)) /\ <<>> \in Seq(Planes)
      BY SpecFacts, EmptySeq
    <3>2. QED  BY <3>1, JoinedNext
  <2>3. QED  BY <2>1, <2>2
<1>2. CASE n \notin Exacts
  <2>1. PICK k \in 0..Len(ds) : Shortest(n, ds, target, k) /\ t = GrownOf(n, ds, k)
    BY <1>2 DEF TextsOf
  <2>2. PICK l \in 0..Len(ds) : Shortest(n, ds, target, l) /\ u = GrownOf(n, ds, l)
    BY <1>2 DEF TextsOf
  <2>3. ~(k < l) /\ ~(l < k)
    <3>1. k \in Nat /\ l \in Nat
      OBVIOUS
    <3>2. k < l => k \in 0..l-1
      BY <3>1
    <3>3. l < k => l \in 0..k-1
      BY <3>1
    <3>4. QED  BY <2>1, <2>2, <3>2, <3>3 DEF Shortest
  <2>4. k = l
    BY <2>3
  <2>5. QED  BY <1>2, <2>1, <2>2, <2>4, PartsFacts
<1>3. QED  BY <1>1, <1>2

\* It is the one TextOf chooses.
LEMMA TextOfIs ==
    ASSUME NEW n \in Names,
           NEW t \in TextsAt(draws, n, run.seed, run.target)
    PROVE  TextOf(n) = t
<1>1. CASE n \in Exacts
  BY <1>1 DEF TextsAt, TextsOf, TextOf
<1>2. CASE n \notin Exacts
  <2> DEFINE ds == draws[<<n, run.seed>>]
             Is(k) == k \in 0..Len(ds) /\ Reaches(n, k) /\ \A j \in 0..k-1 : ~Reaches(n, j)
             c == CHOOSE k : Is(k)
  <2>1. PICK k \in 0..Len(ds) : Shortest(n, ds, run.target, k) /\ t = GrownOf(n, ds, k)
    BY <1>2 DEF TextsAt, TextsOf
  <2>2. \A l : /\ GrownText(n, l) = GrownOf(n, ds, l)
               /\ Reaches(n, l) <=> Enough(n, ds, run.target, l)
    BY DEF GrownText, GrownOf, FirstDraws, Parts, Reaches, Enough
  <2>3. Is(k)
    BY <2>1, <2>2 DEF Shortest
  <2>4. TextOf(n) = GrownText(n, c)
    BY <1>2 DEF TextOf
  <2>5. Is(c)
    <3> HIDE DEF Is
    <3>1. QED  BY <2>3
  <2>6. c = k
    <3> HIDE DEF c, ds
    <3>1. c \in Int /\ k \in Int /\ (c < k => c \in 0..k-1) /\ (k < c => k \in 0..c-1)
      BY <2>3, <2>5
    <3>2. QED  BY <2>3, <2>5, <3>1
  <2>7. QED  BY <2>1, <2>2, <2>4, <2>6
<1>3. QED  BY <1>1, <1>2

-----------------------------------------------------------------------------
(* The order of the files.                                                 *)

\* What is in joined sequences is in one of them.
LEMMA FlattenRange ==
    ASSUME NEW S, NEW s \in Seq(Seq(S))
    PROVE  Range(FlattenSeq(s)) = UNION {Range(s[k]) : k \in DOMAIN s}
<1> DEFINE All(r) == UNION {Range(r[k]) : k \in DOMAIN r}
           G == {r \in Seq(Seq(S)) : Range(FlattenSeq(r)) = All(r)}
<1>1. <<>> \in G
  <2>1. Range(<<>>) = {} /\ All(<<>>) = {}
    BY DEF Range
  <2> HIDE DEF All
  <2>2. QED  BY <2>1, FlattenNone, EmptySeq
<1>2. ASSUME NEW r \in Seq(Seq(S)), NEW e \in Seq(S), r \in G PROVE Append(r, e) \in G
  <2> DEFINE q == Append(r, e)
  <2>1. /\ q \in Seq(Seq(S)) /\ DOMAIN q = DOMAIN r \cup {Len(r) + 1}
        /\ q[Len(r) + 1] = e /\ \A k \in DOMAIN r : q[k] = r[k]
    OBVIOUS
  <2>2. FlattenSeq(q) = FlattenSeq(r) \o e /\ FlattenSeq(r) \in Seq(S)
    BY FlattenAppend, FlattenType
  <2>3. Range(FlattenSeq(q)) = Range(FlattenSeq(r)) \cup Range(e)
    BY <2>2, RangeConcatenation
  <2> HIDE DEF q
  <2>4. All(q) = All(r) \cup Range(e)
    BY <2>1
  <2> HIDE DEF All
  <2>5. QED  BY <1>2, <2>1, <2>3, <2>4 DEF q
<1>3. Seq(Seq(S)) \subseteq G
  <2> HIDE DEF G
  <2>1. QED  BY <1>1, <1>2, InductionOnSeq
<1>4. QED  BY <1>3

\* A payload is the name of a dataset with an encoding, and is not the manifest.
LEMMA PayloadFacts ==
    /\ \A f \in Payloads : f = <<f[1], f[2]>> /\ f[1] \in Names /\ f[2] \in Range(Encodings)
    /\ \A n \in Names, s \in Range(Encodings) :
          <<n, s>> \in Payloads /\ <<n, s>>[1] = n /\ <<n, s>>[2] = s
    /\ Manifest \notin Payloads /\ Hidden \notin Payloads /\ Manifest # Hidden
    /\ Payloads \subseteq Files /\ Manifest \in Files
  BY NamesAssumption DEF Payloads, Files

\* The files of every dataset that is built, and the manifest after them.
LEMMA OrderFacts ==
    ASSUME \A f \in Payloads : f \in Expected <=> f[1] \in Chosen
    PROVE  /\ WriteOrder \in Seq(Payloads \cup {Manifest}) /\ Len(WriteOrder) \in Nat \ {0}
           /\ WriteOrder[Len(WriteOrder)] = Manifest
           /\ \A k \in 1..Len(WriteOrder)-1 : WriteOrder[k] \in Payloads \cap Expected
           /\ \A f \in Expected : \E k \in 1..Len(WriteOrder) : WriteOrder[k] = f
           /\ \A k \in 1..Len(WriteOrder) : WriteOrder[k] \in Expected
<1> DEFINE F == [l \in DOMAIN Sorted |-> FilesOf(Sorted[l])]
           P == PayloadOrder
<1>1. Sorted \in Seq(Names) /\ Range(Sorted) = Names /\ DOMAIN Sorted = 1..Len(Sorted)
      /\ Len(Sorted) \in Nat
  BY TableAssumption
<1>2. \A n \in Names : /\ FilesOf(n) \in Seq(Payloads)
                       /\ Range(FilesOf(n)) = {f \in Payloads : f \in Expected /\ f[1] = n}
  <2> TAKE n \in Names
  <2> DEFINE b == <<n, "utf16be">>
             a == <<n, "utf16le">>
  <2>1. b \in Payloads /\ a \in Payloads /\ b[1] = n /\ a[1] = n
    BY EncodingNames, PayloadFacts
  <2>2. \A f \in Payloads : f[1] = n <=> f = b \/ f = a
    BY EncodingNames, PayloadFacts
  <2>3. FilesOf(n) = IF b \in Expected THEN <<b, a>> ELSE <<>>
    BY DEF FilesOf
  <2> HIDE DEF a, b
  <2>4. a \in Expected <=> b \in Expected
    BY <2>1
  <2>5. Range(<<b, a>>) = {a, b} /\ Range(<<>>) = {}
    BY DEF Range
  <2>6. <<b, a>> \in Seq(Payloads) /\ <<>> \in Seq(Payloads)
    BY <2>1
  <2>7. QED  BY <2>1, <2>2, <2>3, <2>4, <2>5, <2>6
<1>3. F \in Seq(Seq(Payloads))
  BY <1>1, <1>2
<1>4. P = FlattenSeq(F)
  BY DEF PayloadOrder
<1>5. P \in Seq(Payloads)
  BY <1>3, <1>4, FlattenType
<1>6. Range(P) = {f \in Payloads : f \in Expected}
  <2>1. Range(P) = UNION {Range(F[k]) : k \in DOMAIN F}
    <3> HIDE DEF F
    <3>1. QED  BY <1>3, <1>4, FlattenRange
  <2>2. \A k \in DOMAIN F : F[k] = FilesOf(Sorted[k]) /\ Sorted[k] \in Names
    BY <1>1
  <2>3. \A n \in Names : \E k \in DOMAIN F : Sorted[k] = n
    BY <1>1 DEF Range
  <2> HIDE DEF F, P
  <2>4. Range(P) \subseteq {f \in Payloads : f \in Expected}
    BY <1>2, <2>1, <2>2
  <2>5. ASSUME NEW f \in Payloads, f \in Expected PROVE f \in Range(P)
    <3>1. PICK k \in DOMAIN F : Sorted[k] = f[1]
      BY <2>3, PayloadFacts
    <3>2. f \in Range(F[k])
      BY <1>2, <2>2, <2>5, <3>1
    <3>3. QED  BY <2>1, <3>2
  <2>6. QED  BY <2>4, <2>5
<1> HIDE DEF P
<1>7. WriteOrder = P \o <<Manifest>>
  BY DEF WriteOrder, P
<1>8. /\ Len(P) \in Nat /\ DOMAIN P = 1..Len(P)
      /\ WriteOrder \in Seq(Payloads \cup {Manifest}) /\ Len(WriteOrder) = Len(P) + 1
      /\ WriteOrder[Len(P) + 1] = Manifest
      /\ \A k \in 1..Len(P) : WriteOrder[k] = P[k]
  <2>1. Len(P) \in Nat /\ DOMAIN P = 1..Len(P)
    BY <1>5
  <2>2. P \in Seq(Payloads \cup {Manifest}) /\ <<Manifest>> \in Seq(Payloads \cup {Manifest})
        /\ Len(<<Manifest>>) = 1 /\ <<Manifest>>[1] = Manifest
    BY <1>5, SeqMonotonic
  <2>3. QED  BY <1>7, <2>1, <2>2, ConcatProperties
<1>9. \A k \in 1..Len(P) : P[k] \in Payloads /\ P[k] \in Expected
  BY <1>6, <1>8 DEF Range
<1>10. \A f \in Expected : f = Manifest \/ \E k \in 1..Len(P) : P[k] = f
  BY <1>6, <1>8 DEF Range, Expected
<1>11. Manifest \in Expected
  BY DEF Expected
<1>12. QED
  <2>1. Len(WriteOrder) \in Nat \ {0} /\ Len(WriteOrder) - 1 = Len(P)
    BY <1>8
  <2>2. \A k \in 1..Len(WriteOrder) : k \in 1..Len(P) \/ k = Len(P) + 1
    BY <1>8, <2>1
  <2>3. \A f \in Expected : \E k \in 1..Len(WriteOrder) : WriteOrder[k] = f
    BY <1>8, <1>10, <2>1
  <2>4. QED  BY <1>8, <1>9, <1>11, <2>1, <2>2, <2>3

-----------------------------------------------------------------------------
(* What the parts of the invariant say together.                           *)

\* Every dataset has one text at most, for each seed and target.
LEMMA TextAt ==
    ASSUME WorkTypes, NEW n \in Names, NEW seed \in Seeds, NEW target,
           NEW t \in TextsAt(draws, n, seed, target), NEW u \in TextsAt(draws, n, seed, target)
    PROVE  t = u /\ t \in Seq(Planes)
<1> DEFINE ds == IF n \in Exacts THEN <<>> ELSE draws[<<n, seed>>]
<1>1. n \in Exacts \/ Drawable(n, ds)
  BY DEF WorkTypes
<1>2. t \in TextsOf(n, ds, target) /\ u \in TextsOf(n, ds, target)
  BY DEF TextsAt
<1> HIDE DEF ds
<1>3. QED  BY <1>1, <1>2, OneText

\* What the manifest says of a text is of the right kind.
LEMMA MetaFacts ==
    ASSUME NEW n \in Names, NEW seed \in Seeds, NEW t \in Seq(Planes)
    PROVE  /\ MetaOf(n, seed, t) \in
                [dataset : Names, seed : Seeds \cup {None},
                 counts : [code_points : Nat, surrogate_pairs : Nat, code_units : Nat],
                 digests : [Range(Encodings) -> Contents]]
           /\ MetaOf(n, seed, t).dataset = n
           /\ \A s \in Range(Encodings) : MetaOf(n, seed, t).digests[s] = Encode(t, s)
           /\ MetaOf(n, seed, t).counts.code_units = CodeUnitLength(t)
           /\ MetaOf(n, seed, t).counts.surrogate_pairs = Supplementary(t)
<1>1. Supplementary(t) \in Nat /\ Len(t) \in Nat
  BY SupplementaryNext DEF Planes
<1>2. Measure(t) \in [code_points : Nat, surrogate_pairs : Nat, code_units : Nat]
      /\ Measure(t).code_units = CodeUnitLength(t)
      /\ Measure(t).surrogate_pairs = Supplementary(t)
  BY <1>1 DEF Measure, CodeUnitLength
<1>3. [s \in Range(Encodings) |-> Encode(t, s)] \in [Range(Encodings) -> Contents]
  BY EncodeFacts
<1>4. QED  BY <1>2, <1>3 DEF MetaOf

\* What a run has built when it has built everything.
LEMMA BuiltFacts ==
    ASSUME WorkTypes, BuiltInv, Done = Chosen, stage \in {"build", "write", "check"}
    PROVE  /\ \A f \in Payloads : f \in Expected <=> f[1] \in Chosen
           /\ Expected = (Chosen \X Range(Encodings)) \cup {Manifest}
           /\ \A n \in Chosen : n \in Names /\
                 \E t \in TextsAt(draws, n, run.seed, run.target) :
                    /\ t \in Seq(Planes) /\ Fitting(n, run.target, t) /\ TextOf(n) = t
                    /\ \A s \in Range(Encodings) : payloads[<<n, s>>] = Encode(t, s)
                    /\ {d \in metas : d.dataset = n} = {MetaOf(n, run.seed, t)}
           /\ ManifestBytes \in Manifests
           /\ ManifestRight(ManifestBytes, draws)
           /\ run \in Runs /\ last = "running"
<1>1. run \in Runs /\ run.seed \in Seeds /\ last = "running" /\ Chosen \subseteq Names
      /\ run.profile \in {"fixtures", "bench"} /\ run.target \in Nat
  BY DEF WorkTypes, Runs, Chosen
<1>2. ASSUME NEW n \in Chosen
      PROVE  \E t \in TextsAt(draws, n, run.seed, run.target) :
                    /\ t \in Seq(Planes) /\ Fitting(n, run.target, t) /\ TextOf(n) = t
                    /\ \A s \in Range(Encodings) : payloads[<<n, s>>] = Encode(t, s)
                    /\ {d \in metas : d.dataset = n} = {MetaOf(n, run.seed, t)}
  <2>1. PICK t \in TextsAt(draws, n, run.seed, run.target) :
                    /\ Fitting(n, run.target, t)
                    /\ \A s \in Range(Encodings) : payloads[<<n, s>>] = Encode(t, s)
                    /\ {d \in metas : d.dataset = n} = {MetaOf(n, run.seed, t)}
    BY <1>1 DEF BuiltInv, BuiltRight
  <2>2. n \in Names /\ t \in Seq(Planes) /\ TextOf(n) = t
    BY <1>1, TextAt, TextOfIs
  <2>3. QED  BY <2>1, <2>2
<1>3. ASSUME NEW f \in Payloads PROVE f \in Expected <=> f[1] \in Chosen
  <2>1. f \in Expected <=> payloads[f] # None
    BY PayloadFacts DEF Expected
  <2>2. payloads[f] # None => f[1] \in Chosen
    BY <1>1 DEF BuiltInv
  <2>3. ASSUME f[1] \in Chosen PROVE payloads[f] # None
    <3>1. PICK t \in Seq(Planes) : \A s \in Range(Encodings) : payloads[<<f[1], s>>] = Encode(t, s)
      BY <1>2, <2>3
    <3>2. f[2] \in Range(Encodings) /\ f = <<f[1], f[2]>>
      BY PayloadFacts
    <3>3. payloads[f] = Encode(t, f[2]) /\ Encode(t, f[2]) \in Contents
      BY <3>1, <3>2, EncodeFacts
    <3>4. QED  BY <3>3, NamesAssumption
  <2>4. QED  BY <2>1, <2>2, <2>3
<1>4. Expected = (Chosen \X Range(Encodings)) \cup {Manifest}
  <2>1. \A f : f \in Expected => f \in Payloads \/ f = Manifest
    BY DEF Expected
  <2>2. Manifest \in Expected
    BY DEF Expected
  <2>3. \A f : f \in Chosen \X Range(Encodings) <=> f \in Payloads /\ f[1] \in Chosen
    BY <1>1, PayloadFacts DEF Payloads
  <2>4. QED  BY <1>3, <2>1, <2>2, <2>3
<1>5. \A d \in metas : d.dataset \in Chosen /\
                       \E t \in Seq(Planes) : d = MetaOf(d.dataset, run.seed, t)
  <2> TAKE d \in metas
  <2>1. d.dataset \in Chosen
    BY <1>1 DEF BuiltInv
  <2>2. PICK t \in Seq(Planes) :
             {x \in metas : x.dataset = d.dataset} = {MetaOf(d.dataset, run.seed, t)}
    BY <1>2, <2>1
  <2>3. d \in {x \in metas : x.dataset = d.dataset}
    OBVIOUS
  <2>4. QED  BY <2>1, <2>2, <2>3
<1>6. ManifestBytes \in Manifests
  <2>1. \A d \in metas : d \in [dataset : Names, seed : Seeds \cup {None},
                 counts : [code_points : Nat, surrogate_pairs : Nat, code_units : Nat],
                 digests : [Range(Encodings) -> Contents]]
    BY <1>1, <1>5, MetaFacts
  <2>2. QED  BY <1>1, <2>1 DEF ManifestBytes, Manifests
<1>7. ManifestRight(ManifestBytes, draws)
  <2>1. /\ ManifestBytes.profile = run.profile /\ ManifestBytes.seed = run.seed
        /\ ManifestBytes.target = run.target /\ ManifestBytes.datasets = metas
    BY DEF ManifestBytes
  <2>2. ChosenFor(run.profile) = Chosen
    BY DEF ChosenFor, Chosen
  <2>3. QED  BY <1>2, <1>5, <2>1, <2>2 DEF ManifestRight
<1>8. QED  BY <1>1, <1>2, <1>3, <1>4, <1>6, <1>7

\* A run that has written what it built describes it.
LEMMA BuiltDescribed ==
    ASSUME WorkTypes, BuiltInv, stage \in {"write", "check"},
           NEW f \in Payloads, f \in Expected => disk[f] = payloads[f]
    PROVE  Describes(ManifestBytes, f)
<1> SUFFICES ASSUME NEW d \in metas, f[1] = d.dataset
             PROVE  /\ disk[f] = d.digests[f[2]]
                    /\ Len(disk[f]) = d.counts.code_units
                    /\ Highs(disk[f]) = d.counts.surrogate_pairs
  BY DEF Describes, ManifestBytes, Highs
<1>0. Done = Chosen
  BY DEF Done
<1>1. f[1] \in Chosen /\ f[1] \in Names /\ f[2] \in Range(Encodings) /\ f = <<f[1], f[2]>>
  BY <1>0, PayloadFacts DEF BuiltInv
<1>2. disk[f] = payloads[f]
  BY <1>0, <1>1, BuiltFacts
<1>3. PICK t \in Seq(Planes) :
           /\ payloads[f] = Encode(t, f[2])
           /\ {x \in metas : x.dataset = f[1]} = {MetaOf(f[1], run.seed, t)}
  <2> DEFINE n == f[1]
  <2>1. PICK t \in Seq(Planes) :
           /\ \A s \in Range(Encodings) : payloads[<<n, s>>] = Encode(t, s)
           /\ {x \in metas : x.dataset = n} = {MetaOf(n, run.seed, t)}
    BY <1>0, <1>1, BuiltFacts
  <2>2. payloads[<<n, f[2]>>] = Encode(t, f[2])
    BY <1>1, <2>1
  <2>3. QED  BY <1>1, <2>1, <2>2
<1>4. d = MetaOf(f[1], run.seed, t)
  BY <1>3
<1>5. run.seed \in Seeds
  BY <1>0, BuiltFacts DEF Runs
<1>6. QED  BY <1>1, <1>2, <1>3, <1>4, <1>5, MetaFacts, EncodeFacts

-----------------------------------------------------------------------------
(* What a step leaves alone.                                               *)

\* Draws are only ever added.
DrawsGoOn ==
    /\ draws \in [(Names \ Exacts) \X Seeds -> Seq(Nat)]
    /\ draws' \in [(Names \ Exacts) \X Seeds -> Seq(Nat)]
    /\ \A n \in Names \ Exacts, seed \in Seeds : GoesOn(draws[<<n, seed>>], draws'[<<n, seed>>])

\* Drawing nothing is to go on.
LEMMA SameDraws == WorkTypes /\ UNCHANGED draws => DrawsGoOn
<1> SUFFICES ASSUME WorkTypes, UNCHANGED draws PROVE DrawsGoOn
  OBVIOUS
<1>1. draws \in [(Names \ Exacts) \X Seeds -> Seq(Nat)]
  BY DEF WorkTypes
<1>2. \A n \in Names \ Exacts, seed \in Seeds : draws[<<n, seed>>] \in Seq(Nat)
  BY <1>1
<1>3. \A ds \in Seq(Nat) : GoesOn(ds, ds)
  BY DEF GoesOn
<1>4. QED  BY <1>1, <1>2, <1>3 DEF DrawsGoOn

\* The texts stay what they were.
LEMMA TextsStay ==
    ASSUME DrawsGoOn, NEW n \in Names, NEW seed \in Seeds, NEW target
    PROVE  TextsAt(draws, n, seed, target) \subseteq TextsAt(draws', n, seed, target)
<1>1. CASE n \in Exacts
  BY <1>1 DEF TextsAt
<1>2. CASE n \notin Exacts
  <2> DEFINE ds == draws[<<n, seed>>]
             es == draws'[<<n, seed>>]
  <2>1. ds \in Seq(Nat) /\ es \in Seq(Nat) /\ GoesOn(ds, es)
    BY <1>2 DEF DrawsGoOn
  <2>2. TextsAt(draws, n, seed, target) = TextsOf(n, ds, target)
        /\ TextsAt(draws', n, seed, target) = TextsOf(n, es, target)
    BY <1>2 DEF TextsAt
  <2> HIDE DEF ds, es
  <2>3. QED  BY <2>1, <2>2, TextsKept
<1>3. QED  BY <1>1, <1>2

\* So a manifest that was right stays right.
LEMMA ManifestStaysRight ==
    ASSUME DrawsGoOn, NEW mf \in Manifests, ManifestRight(mf, draws)
    PROVE  ManifestRight(mf, draws')
<1>1. mf.seed \in Seeds
  BY DEF Manifests
<1>2. ASSUME NEW n \in ChosenFor(mf.profile)
      PROVE  \E t \in TextsAt(draws', n, mf.seed, mf.target) :
                {d \in mf.datasets : d.dataset = n} = {MetaOf(n, mf.seed, t)}
  <2>1. PICK t \in TextsAt(draws, n, mf.seed, mf.target) :
                {d \in mf.datasets : d.dataset = n} = {MetaOf(n, mf.seed, t)}
    BY DEF ManifestRight
  <2>2. t \in TextsAt(draws', n, mf.seed, mf.target)
    BY <1>1, TextsStay DEF ChosenFor
  <2>3. QED  BY <2>1, <2>2
<1>3. QED  BY <1>2 DEF ManifestRight

\* A manifest goes on telling the truth of the files that are not touched.
LEMMA ManifestOutlives ==
    ASSUME ManifestInv, DrawsGoOn,
           disk'[Manifest] \in Manifests => disk'[Manifest] = disk[Manifest],
           \A f \in Payloads \ Dubious' : f \notin Dubious /\ disk'[f] = disk[f]
    PROVE  ManifestInv'
<1> SUFFICES ASSUME disk'[Manifest] \in Manifests
             PROVE  /\ ManifestRight(disk'[Manifest], draws')
                    /\ \A f \in Payloads \ Dubious' : Describes(disk[Manifest], f)'
  BY DEF ManifestInv
<1>1. ManifestRight(disk'[Manifest], draws')
  BY ManifestStaysRight DEF ManifestInv
<1>2. ASSUME NEW f \in Payloads \ Dubious' PROVE Describes(disk[Manifest], f)'
  <2>1. Describes(disk[Manifest], f) /\ disk'[f] = disk[f]
    BY DEF ManifestInv
  <2>2. QED  BY <2>1 DEF Describes
<1>3. QED  BY <1>1, <1>2

\* So it does while nothing is changed in the directory.
LEMMA ManifestInvStays ==
    ASSUME ManifestInv, UNCHANGED disk, DrawsGoOn, Dubious \subseteq Dubious'
    PROVE  ManifestInv'
<1>1. \A f \in Payloads \ Dubious' : f \notin Dubious /\ disk'[f] = disk[f]
  OBVIOUS
<1>2. QED  BY <1>1, ManifestOutlives

\* What is built of a dataset stays.
LEMMA BuiltStays ==
    ASSUME WorkTypes, DrawsGoOn, run \in Runs, NEW n \in Names, BuiltRight(n),
           UNCHANGED run,
           \A s \in Range(Encodings) : payloads'[<<n, s>>] = payloads[<<n, s>>],
           {d \in metas' : d.dataset = n} = {d \in metas : d.dataset = n}
    PROVE  BuiltRight(n)'
<1>1. PICK t \in TextsAt(draws, n, run.seed, run.target) :
           /\ Fitting(n, run.target, t)
           /\ \A s \in Range(Encodings) : payloads[<<n, s>>] = Encode(t, s)
           /\ {d \in metas : d.dataset = n} = {MetaOf(n, run.seed, t)}
  BY DEF BuiltRight
<1>2. t \in TextsAt(draws', n, run.seed, run.target)
  BY TextsStay DEF Runs
<1>3. QED  BY <1>1, <1>2 DEF BuiltRight

-----------------------------------------------------------------------------
(* Building.                                                               *)

\* The dataset at hand.
LEMMA CurrentFacts ==
    ASSUME WorkTypes, at <= Len(Table)
    PROVE  /\ at \in 1..Len(Table) /\ at \in DOMAIN Table
           /\ Current = Table[at] /\ Current.name \in Names /\ SpecOf(Current.name) = Current
           /\ Current.name \in Exacts <=> Current.exact
           /\ Current.paragraphs \in Seq(Seq(Planes))
           /\ \A p \in DOMAIN Current.paragraphs : p \in Nat /\ Current.paragraphs[p] \in Seq(Planes)
<1>1. at \in 1..Len(Table) /\ at \in DOMAIN Table /\ Current = Table[at]
  BY TableFacts DEF WorkTypes, Current
<1>2. Current.name \in Names /\ SpecOf(Current.name) = Current
  BY <1>1, TableFacts
<1>3. QED  BY <1>1, <1>2, SpecFacts

\* As long as the directory is left alone, what is known of it stays.
LEMMA DirectoryKeeps ==
    ASSUME CorpusIInv, UNCHANGED <<disk, suspect>>, last' # "checked", DrawsGoOn,
           stage # "write"
    PROVE  /\ DiskTypes' /\ CheckExact'
           /\ ManifestInv'
<1>1. DiskTypes'
  BY DEF CorpusIInv, DiskTypes
<1>2. CheckExact'
  BY DEF CheckExact
<1>3. ManifestInv'
  <2>1. Dubious \subseteq Dubious'
    BY DEF Dubious
  <2>2. QED  BY <2>1, ManifestInvStays DEF CorpusIInv
<1>4. QED  BY <1>1, <1>2, <1>3

\* A run at work touches neither the directory nor what it has built.
AtWork == {"build", "grow", "encode"}
Works ==
    /\ stage \in AtWork /\ stage' \in AtWork
    /\ UNCHANGED <<directory, bounds, run, built>>
    /\ DrawsGoOn /\ Done' = Done

\* What a run at work keeps.
LEMMA WorkKeeps ==
    CorpusIInv /\ Works => /\ DiskTypes' /\ BuiltInv' /\ WriteInv' /\ ManifestInv' /\ CheckExact'
                           /\ stage' # "refused" /\ last' = "running" /\ run \in Runs
<1> SUFFICES ASSUME CorpusIInv, Works
             PROVE  /\ DiskTypes' /\ BuiltInv' /\ WriteInv' /\ ManifestInv' /\ CheckExact'
                    /\ stage' # "refused" /\ last' = "running" /\ run \in Runs
  OBVIOUS
<1>1. /\ UNCHANGED <<disk, last, problems, suspect, run, payloads, metas>>
      /\ last = "running" /\ run \in Runs /\ WorkTypes
      /\ stage \in {"build", "grow", "encode"} /\ stage' \in {"build", "grow", "encode"}
  BY DEF Works, AtWork, directory, built, CorpusIInv, WorkTypes
<1>2. DiskTypes' /\ CheckExact' /\ ManifestInv'
  <2>1. stage # "write" /\ last' # "checked"
    BY <1>1
  <2>2. QED  BY <1>1, <2>1, DirectoryKeeps DEF Works
<1>3. WriteInv'
  BY <1>1 DEF WriteInv
<1>4. BuiltInv'
  <2>1. /\ \A f \in Payloads : payloads'[f] # None => f[1] \in Done'
        /\ \A d \in metas' : d.dataset \in Done'
    BY <1>1 DEF CorpusIInv, BuiltInv, Works
  <2>2. ASSUME NEW n \in Done PROVE BuiltRight(n)'
    <3>1. BuiltRight(n)
      BY DEF CorpusIInv, BuiltInv
    <3>2. n \in Names
      <4>1. \E l \in 1..at-1 : n = Table[l].name /\ l \in DOMAIN Table
        <5>1. at - 1 <= Len(Table) /\ at \in Nat \ {0}
          BY <1>1, TableFacts DEF WorkTypes
        <5>2. 1..at-1 \subseteq 1..Len(Table)
          BY <5>1, TableFacts
        <5>3. QED  BY <1>1, <5>2, TableFacts DEF Done
      <4>2. QED  BY <4>1 DEF Names
    <3>3. QED  BY <1>1, <3>1, <3>2, BuiltStays DEF Works
  <2>3. QED  BY <2>1, <2>2 DEF BuiltInv, Works
<1>5. QED  BY <1>1, <1>2, <1>3, <1>4

\* So these are kept when what the run works with is.
LEMMA WorkDone ==
    CorpusIInv /\ Works /\ CorpusTypeOK' /\ WorkTypes' /\ GrowInv' => CorpusIInv'
  BY WorkKeeps DEF CorpusIInv

\* The types that say nothing of what the run is about to do.
LEMMA SameTypes ==
    ASSUME CorpusTypeOK, UNCHANGED <<directory, built>>, drawn' \in Nat, units' \in Nat,
           stage' \in AtWork
    PROVE  CorpusTypeOK'
  BY DEF CorpusTypeOK, directory, built, AtWork

\* A dataset that is not chosen is passed over.
LEMMA SkipExactKeeps == CorpusIInv /\ SkipExact => CorpusIInv'
<1> SUFFICES ASSUME CorpusIInv, SkipExact PROVE CorpusIInv'
  OBVIOUS
<1>1. /\ CorpusTypeOK /\ WorkTypes /\ stage = "build" /\ stage' = "build" /\ at <= Len(Table)
      /\ Skips(Current) /\ at' = at + 1
      /\ UNCHANGED <<directory, bounds, draws, run, drawn, units, text, payloads, metas, built>>
  BY DEF CorpusIInv, SkipExact, growth, built
<1>2. at \in 1..Len(Table) /\ at \in Nat \ {0} /\ Current = Table[at] /\ Len(Table) \in Nat
  BY <1>1, CurrentFacts, TableFacts
<1>3. Done' = Done
  <2>1. \A x : Skips(x)' <=> Skips(x)
    BY <1>1 DEF Skips
  <2>2. {j \in 1..at'-1 : ~Skips(Table[j])'} = {j \in 1..at-1 : ~Skips(Table[j])}
    <3>1. 1..at'-1 = 1..at-1 \cup {at}
      BY <1>1, <1>2
    <3>2. QED  BY <1>1, <1>2, <2>1, <3>1
  <2>3. QED  BY <1>1, <2>2 DEF Done
<1>4. Works
  BY <1>1, <1>3, SameDraws DEF Works, AtWork
<1>5. CorpusTypeOK'
  <2>1. drawn' \in Nat /\ units' \in Nat /\ stage' \in AtWork
    BY <1>1 DEF CorpusTypeOK, AtWork
  <2>2. QED  BY <1>1, <2>1, SameTypes
<1>6. WorkTypes'
  <2>1. at' \in Nat \ {0} /\ at' <= Len(Table) + 1
    BY <1>1, <1>2
  <2>2. UNCHANGED last
    BY <1>1 DEF directory
  <2>3. QED  BY <1>1, <2>1, <2>2 DEF WorkTypes
<1>7. GrowInv'
  BY <1>1 DEF GrowInv
<1>8. QED  BY <1>4, <1>5, <1>6, <1>7, WorkDone

\* Done does not change while at stays where it is.
LEMMA SameDone ==
    ASSUME stage \in AtWork, stage' \in AtWork, UNCHANGED <<at, run>>
    PROVE  Done' = Done
  BY DEF Done, AtWork, Skips

\* An exact text is joined from its paragraphs.
LEMMA TakeExactKeeps == CorpusIInv /\ TakeExact => CorpusIInv'
<1> SUFFICES ASSUME CorpusIInv, TakeExact PROVE CorpusIInv'
  OBVIOUS
<1> DEFINE n == Current.name
<1>1. /\ CorpusTypeOK /\ WorkTypes /\ stage = "build" /\ stage' = "encode" /\ at <= Len(Table)
      /\ ~Skips(Current) /\ Current.exact /\ text' = Joined(Current.paragraphs)
      /\ UNCHANGED <<directory, bounds, draws, run, at, drawn, units, payloads, metas, built, last>>
  BY DEF CorpusIInv, TakeExact, built, directory
<1>2. /\ n \in Names /\ SpecOf(n) = Current /\ n \in Exacts
      /\ Current.paragraphs \in Seq(Seq(Planes))
  BY <1>1, CurrentFacts
<1>3. Works
  <2>1. stage \in AtWork /\ stage' \in AtWork
    BY <1>1 DEF AtWork
  <2>2. QED  BY <1>1, <2>1, SameDraws, SameDone DEF Works
<1>4. CorpusTypeOK'
  <2>1. drawn' \in Nat /\ units' \in Nat /\ stage' \in AtWork
    BY <1>1 DEF CorpusTypeOK, AtWork
  <2>2. QED  BY <1>1, <2>1, SameTypes
<1>5. text' \in Seq(Planes)
  BY <1>1, <1>2, EmptySeq, JoinedNext
<1>6. WorkTypes'
  <2>1. ~Skips(Current)'
    BY <1>1 DEF Skips, Current
  <2>2. QED  BY <1>1, <1>5, <2>1 DEF WorkTypes
<1>7. GrowInv'
  <2>1. Current' = Current
    BY <1>1 DEF Current
  <2>2. text' \in TextsAt(draws', n, run'.seed, run'.target)
    BY <1>1, <1>2 DEF TextsAt, TextsOf
  <2>3. Fitting(n, run'.target, text')
    BY <1>2 DEF Fitting
  <2>4. QED  BY <1>1, <2>1, <2>2, <2>3 DEF GrowInv
<1>8. QED  BY <1>3, <1>4, <1>6, <1>7, WorkDone

\* A text that grows begins with nothing.
LEMMA BeginGrownKeeps == CorpusIInv /\ BeginGrown => CorpusIInv'
<1> SUFFICES ASSUME CorpusIInv, BeginGrown PROVE CorpusIInv'
  OBVIOUS
<1> DEFINE n == Current.name
<1>1. /\ CorpusTypeOK /\ WorkTypes /\ stage = "build" /\ stage' = "grow" /\ at <= Len(Table)
      /\ ~Skips(Current) /\ ~Current.exact /\ drawn' = 0 /\ units' = 0 /\ text' = <<>>
      /\ UNCHANGED <<directory, bounds, draws, run, at, payloads, metas, built, last>>
  BY DEF CorpusIInv, BeginGrown, Fresh, built, directory
<1>2. n \in Names /\ SpecOf(n) = Current /\ n \notin Exacts
  BY <1>1, CurrentFacts
<1>3. run \in Runs /\ run.seed \in Seeds
  BY <1>1 DEF WorkTypes, Runs
<1>4. Works
  <2>1. stage \in AtWork /\ stage' \in AtWork
    BY <1>1 DEF AtWork
  <2>2. QED  BY <1>1, <2>1, SameDraws, SameDone DEF Works
<1>5. CorpusTypeOK'
  <2>1. drawn' \in Nat /\ units' \in Nat /\ stage' \in AtWork
    BY <1>1 DEF AtWork
  <2>2. QED  BY <1>1, <2>1, SameTypes
<1>6. WorkTypes'
  <2>1. ~Skips(Current)' /\ text' \in Seq(Planes)
    BY <1>1, EmptySeq DEF Skips, Current
  <2>2. QED  BY <1>1, <2>1 DEF WorkTypes
<1>7. GrowInv'
  <2> DEFINE ds == draws[<<n, run.seed>>]
  <2>1. Drawable(n, ds) /\ Len(ds) \in Nat
    BY <1>1, <1>2, <1>3 DEF WorkTypes, Drawable
  <2>2. Current' = Current /\ draws'[Stream'] = ds
    BY <1>1 DEF Current, Stream
  <2>3. Joined(Parts(n, ds, 0)) = <<>>
    <3>1. 0 \in 0..Len(ds)
      BY <2>1
    <3> HIDE DEF ds
    <3>2. QED  BY <1>2, <2>1, <3>1, PartsFacts
  <2> HIDE DEF ds
  <2>4. QED  BY <1>1, <2>1, <2>2, <2>3 DEF GrowInv
<1>8. QED  BY <1>4, <1>5, <1>6, <1>7, WorkDone

\* Texts may be put together from either end.
LEMMA TextsAssociate ==
    \A t, u, v \in Seq(Planes) : (t \o u) \o v = t \o (u \o v)
  BY ConcatAssociative

\* The text of k paragraphs and that of k + 1.
LEMMA OneMorePart ==
    ASSUME NEW n \in Names, NEW ds, Drawable(n, ds), NEW k \in 0..Len(ds), k < Len(ds),
           NEW p, p = SpecOf(n).paragraphs[ds[k+1]]
    PROVE  LET t == Joined(Parts(n, ds, k))
               u == Joined(Parts(n, ds, k + 1))
           IN  /\ t \in Seq(Planes) /\ u \in Seq(Planes) /\ p \in Seq(Planes)
               /\ u = IF k = 0 THEN p ELSE t \o Newline \o p
               /\ CodeUnitLength(u) = (IF k = 0 THEN 0 ELSE CodeUnitLength(t) + 1) + CodeUnitLength(p)
               /\ CodeUnitLength(t) \in Nat /\ CodeUnitLength(p) \in Nat
<1> DEFINE t == Joined(Parts(n, ds, k))
           u == Joined(Parts(n, ds, k + 1))
           r == Parts(n, ds, k)
<1>1. /\ r \in Seq(Seq(Planes)) /\ Len(r) = k /\ t \in Seq(Planes)
      /\ Parts(n, ds, k + 1) = Append(r, p)
  BY PartsFacts
<1>2. p \in Seq(Planes)
  <2>1. k + 1 \in 1..Len(ds)
    BY DEF Drawable
  <2>2. ds[k+1] \in DOMAIN SpecOf(n).paragraphs
    BY <2>1 DEF Drawable
  <2>3. QED  BY <2>2, SpecFacts
<1>3. r = <<>> <=> k = 0
  BY <1>1, EmptySeq
<1>4. u = IF k = 0 THEN p ELSE t \o (Newline \o p)
  <2> HIDE DEF r
  <2>1. QED  BY <1>1, <1>2, <1>3, JoinedNext DEF r
<1>5. t \o (Newline \o p) = (t \o Newline) \o p
  <2>1. t \in Seq(Planes) /\ Newline \in Seq(Planes) /\ p \in Seq(Planes)
    BY <1>1, <1>2, NewlineFacts
  <2> HIDE DEF t
  <2>2. QED  BY <2>1, TextsAssociate
<1>6. /\ t \o Newline \in Seq(Planes) /\ CodeUnitLength(t \o Newline) = CodeUnitLength(t) + 1
      /\ CodeUnitLength(t) \in Nat /\ CodeUnitLength(p) \in Nat
  BY <1>1, <1>2, NewlineFacts, LengthAdds
<1>7. /\ (t \o Newline) \o p \in Seq(Planes)
      /\ CodeUnitLength((t \o Newline) \o p) = CodeUnitLength(t) + 1 + CodeUnitLength(p)
  <2>1. CodeUnitLength((t \o Newline) \o p) = CodeUnitLength(t \o Newline) + CodeUnitLength(p)
        /\ (t \o Newline) \o p \in Seq(Planes)
    BY <1>2, <1>6, LengthAdds
  <2>2. QED  BY <1>6, <2>1
<1> HIDE DEF t, u
<1>8. CodeUnitLength(u) = (IF k = 0 THEN 0 ELSE CodeUnitLength(t) + 1) + CodeUnitLength(p)
  BY <1>4, <1>5, <1>6, <1>7
<1>9. u \in Seq(Planes) /\ u = IF k = 0 THEN p ELSE t \o Newline \o p
  BY <1>2, <1>4, <1>5, <1>7
<1>10. QED  BY <1>1, <1>2, <1>6, <1>8, <1>9 DEF t, u

\* Drawing goes on from what was drawn, in this stream and the others.
LEMMA DrawnOn ==
    ASSUME WorkTypes, DrawParagraph, CorpusTypeOK,
           Current.name \in Names, Current.name \notin Exacts
    PROVE  \E p \in DOMAIN Current.paragraphs :
             LET n == Current.name
                 ds == draws[Stream]
                 es == draws'[Stream]
             IN  /\ DrawsGoOn /\ Drawable(n, ds) /\ Drawable(n, es) /\ GoesOn(ds, es)
                 /\ Len(ds) \in Nat /\ Len(es) \in Nat
                 /\ drawn <= Len(ds) => drawn < Len(es) /\ es[drawn + 1] = p
                 /\ \A m \in Names \ Exacts, seed \in Seeds : Drawable(m, draws'[<<m, seed>>])
                 /\ units' = units + CodeUnitLength(Current.paragraphs[p]) + 1
                 /\ text' = IF drawn = 0 THEN Current.paragraphs[p]
                                         ELSE text \o Newline \o Current.paragraphs[p]
<1> DEFINE n == Current.name
           ds == draws[Stream]
           es == draws'[Stream]
<1>1. PICK p \in DOMAIN Current.paragraphs :
          /\ DrawnMay(p)
          /\ draws' = IF drawn < Len(draws[Stream]) THEN draws
                      ELSE [draws EXCEPT ![Stream] = Append(@, p)]
          /\ units' = units + CodeUnitLength(Current.paragraphs[p]) + 1
          /\ text' = IF drawn = 0 THEN Current.paragraphs[p]
                                  ELSE text \o Newline \o Current.paragraphs[p]
  BY DEF DrawParagraph
<1> SUFFICES
           /\ DrawsGoOn /\ Drawable(n, ds) /\ Drawable(n, es) /\ GoesOn(ds, es)
           /\ Len(ds) \in Nat /\ Len(es) \in Nat
           /\ drawn <= Len(ds) => drawn < Len(es) /\ es[drawn + 1] = p
           /\ \A m \in Names \ Exacts, seed \in Seeds : Drawable(m, draws'[<<m, seed>>])
  BY <1>1
<1>2. run.seed \in Seeds /\ at <= Len(Table) /\ drawn \in Nat
  BY DEF WorkTypes, Runs, DrawParagraph, CorpusTypeOK
<1>3. SpecOf(n) = Current /\ p \in Nat
  BY <1>2, CurrentFacts
<1>4. /\ Stream = <<n, run.seed>> /\ Stream \in (Names \ Exacts) \X Seeds
      /\ draws \in [(Names \ Exacts) \X Seeds -> Seq(Nat)]
      /\ \A m \in Names \ Exacts, seed \in Seeds : Drawable(m, draws[<<m, seed>>])
  BY <1>2 DEF Stream, WorkTypes
<1>5. Drawable(n, ds) /\ ds \in Seq(Nat) /\ Len(ds) \in Nat
  BY <1>2, <1>4 DEF Drawable
<1>6. \A xs \in Seq(Nat) : GoesOn(xs, xs)
  BY DEF GoesOn
<1>7. CASE drawn < Len(ds)
  <2>1. draws' = draws /\ es = ds
    BY <1>1, <1>7
  <2>2. p = ds[drawn + 1]
    BY <1>1, <1>7 DEF DrawnMay
  <2>3. DrawsGoOn
    <3>1. \A k \in (Names \ Exacts) \X Seeds : draws[k] \in Seq(Nat)
      BY <1>4
    <3>2. QED  BY <1>4, <1>6, <2>1, <3>1 DEF DrawsGoOn
  <2>4. QED  BY <1>2, <1>4, <1>5, <1>6, <1>7, <2>1, <2>2, <2>3
<1>8. CASE ~(drawn < Len(ds))
  <2> DEFINE more == Append(ds, p)
  <2>1. draws' = [draws EXCEPT ![Stream] = more]
    BY <1>1, <1>8
  <2>2. /\ more \in Seq(Nat) /\ Len(more) = Len(ds) + 1 /\ more[Len(ds) + 1] = p
        /\ \A j \in 1..Len(ds) : more[j] = ds[j]
    BY <1>3, <1>5
  <2> HIDE DEF more
  <2>3. /\ draws' \in [(Names \ Exacts) \X Seeds -> Seq(Nat)]
        /\ es = more /\ \A k \in (Names \ Exacts) \X Seeds : k # Stream => draws'[k] = draws[k]
    BY <1>4, <2>1, <2>2
  <2>4. GoesOn(ds, es)
    BY <1>5, <2>2, <2>3 DEF GoesOn
  <2>5. Drawable(n, es)
    <3>1. p \in DOMAIN SpecOf(n).paragraphs
      BY <1>3
    <3>2. ASSUME NEW j \in 1..Len(es) PROVE es[j] \in DOMAIN SpecOf(n).paragraphs
      <4>1. j \in 1..Len(ds) \/ j = Len(ds) + 1
        BY <1>5, <2>2, <2>3
      <4>2. QED  BY <1>5, <2>2, <2>3, <3>1, <4>1 DEF Drawable
    <3>3. QED  BY <2>2, <2>3, <3>2 DEF Drawable
  <2>6. \A m \in Names \ Exacts, seed \in Seeds : Drawable(m, draws'[<<m, seed>>])
    <3> TAKE m \in Names \ Exacts, seed \in Seeds
    <3>1. CASE <<m, seed>> = Stream
      <4>1. <<m, seed>> = <<n, run.seed>>
        BY <1>4, <3>1
      <4>2. m = n
        BY <4>1
      <4>3. draws'[<<m, seed>>] = es
        BY <3>1
      <4> HIDE DEF n, es
      <4>4. QED  BY <2>5, <4>2, <4>3
    <3>2. CASE <<m, seed>> # Stream
      BY <1>4, <2>3, <3>2
    <3>3. QED  BY <3>1, <3>2
  <2>7. DrawsGoOn
    <3>1. \A m \in Names \ Exacts, seed \in Seeds : GoesOn(draws[<<m, seed>>], draws'[<<m, seed>>])
      <4> TAKE m \in Names \ Exacts, seed \in Seeds
      <4>1. CASE <<m, seed>> = Stream
        BY <2>4, <4>1
      <4>2. CASE <<m, seed>> # Stream
        <5>1. draws[<<m, seed>>] \in Seq(Nat)
          BY <1>4
        <5>2. QED  BY <1>6, <2>3, <4>2, <5>1
      <4>3. QED  BY <4>1, <4>2
    <3>2. QED  BY <1>4, <2>3, <3>1 DEF DrawsGoOn
  <2>8. drawn <= Len(ds) => drawn < Len(es) /\ es[drawn + 1] = p
    BY <1>2, <1>5, <1>8, <2>2, <2>3
  <2>9. Len(es) \in Nat
    BY <1>5, <2>2, <2>3
  <2>10. QED  BY <1>5, <2>4, <2>5, <2>6, <2>7, <2>8, <2>9
<1>9. QED  BY <1>7, <1>8

\* One paragraph is drawn, as the target has not been reached.
LEMMA DrawParagraphKeeps == CorpusIInv /\ DrawParagraph => CorpusIInv'
<1> SUFFICES ASSUME CorpusIInv, DrawParagraph PROVE CorpusIInv'
  OBVIOUS
<1> DEFINE n == Current.name
           ds == draws[Stream]
           es == draws'[Stream]
           k == drawn
<1>1. /\ CorpusTypeOK /\ WorkTypes /\ stage = "grow" /\ stage' = "grow" /\ at <= Len(Table)
      /\ ~Skips(Current) /\ units < run.target /\ drawn' = drawn + 1
      /\ UNCHANGED <<directory, bounds, run, at, payloads, metas, built, last>>
      /\ run \in Runs /\ k \in Nat /\ units \in Nat
  BY DEF CorpusIInv, DrawParagraph, built, directory, WorkTypes, CorpusTypeOK
<1>2. /\ ~Current.exact /\ k <= Len(ds) /\ text = Joined(Parts(n, ds, k))
      /\ units = IF k = 0 THEN 0 ELSE CodeUnitLength(text) + 1
      /\ \A l \in 0..k-1 : ~Enough(n, ds, run.target, l)
  BY <1>1 DEF CorpusIInv, GrowInv
<1>3. /\ n \in Names /\ SpecOf(n) = Current /\ n \notin Exacts
      /\ run.seed \in Seeds /\ run.target \in Nat
  BY <1>1, <1>2, CurrentFacts DEF Runs
<1>4. PICK p \in DOMAIN Current.paragraphs :
          /\ DrawsGoOn /\ Drawable(n, ds) /\ Drawable(n, es) /\ GoesOn(ds, es)
          /\ Len(ds) \in Nat /\ Len(es) \in Nat
          /\ k < Len(es) /\ es[k + 1] = p
          /\ \A m \in Names \ Exacts, seed \in Seeds : Drawable(m, draws'[<<m, seed>>])
          /\ units' = units + CodeUnitLength(Current.paragraphs[p]) + 1
          /\ text' = IF k = 0 THEN Current.paragraphs[p]
                                  ELSE text \o Newline \o Current.paragraphs[p]
  BY <1>1, <1>2, <1>3, DrawnOn
<1> DEFINE q == Current.paragraphs[p]
           t == Joined(Parts(n, es, k))
           u == Joined(Parts(n, es, k + 1))
<1>5. text = t /\ \A l \in 0..k : Enough(n, es, run.target, l) <=> Enough(n, ds, run.target, l)
  <2>1. k \in 0..Len(ds) /\ \A l \in 0..k : l \in 0..Len(ds)
    BY <1>1, <1>2, <1>4
  <2> HIDE DEF ds, es
  <2>2. QED  BY <1>2, <1>4, <2>1, SameParts
<1>6. /\ t \in Seq(Planes) /\ u \in Seq(Planes) /\ q \in Seq(Planes)
      /\ u = IF k = 0 THEN q ELSE t \o Newline \o q
      /\ CodeUnitLength(u) = (IF k = 0 THEN 0 ELSE CodeUnitLength(t) + 1) + CodeUnitLength(q)
      /\ CodeUnitLength(t) \in Nat /\ CodeUnitLength(q) \in Nat
  <2>1. k \in 0..Len(es) /\ q = SpecOf(n).paragraphs[es[k+1]]
    BY <1>1, <1>3, <1>4
  <2> HIDE DEF q, es
  <2>2. QED  BY <1>3, <1>4, <2>1, OneMorePart
<1>7. text' = u /\ units' = CodeUnitLength(u) + 1 /\ units' < run.target + CodeUnitLength(q) + 1
      /\ units' \in Nat
  <2>1. text' = u
    BY <1>4, <1>5, <1>6
  <2>2. units' = units + CodeUnitLength(q) + 1
    BY <1>4
  <2> HIDE DEF t, u, q
  <2>3. units = IF k = 0 THEN 0 ELSE CodeUnitLength(t) + 1
    BY <1>2, <1>5
  <2> DEFINE cq == CodeUnitLength(q)
             ct == CodeUnitLength(t)
             cu == CodeUnitLength(u)
  <2>4. cq \in Nat /\ ct \in Nat /\ cu = (IF k = 0 THEN 0 ELSE ct + 1) + cq
    BY <1>6
  <2>5. units' = units + cq + 1 /\ units = (IF k = 0 THEN 0 ELSE ct + 1)
    BY <2>2, <2>3
  <2> HIDE DEF cq, ct, cu, k
  <2>6. units' = cu + 1 /\ units' < run.target + cq + 1 /\ units' \in Nat
    BY <1>1, <1>3, <2>4, <2>5
  <2>7. QED  BY <2>1, <2>6 DEF cq, cu
<1>8. \A l \in 0..k : ~Enough(n, es, run.target, l)
  <2>1. ~Enough(n, es, run.target, k)
    <3>1. k > 0 => CodeUnitLength(GrownOf(n, es, k)) = CodeUnitLength(t) + 1
      <4>1. k \in 0..Len(es)
        BY <1>1, <1>4
      <4> HIDE DEF es
      <4>2. QED  BY <1>3, <1>4, <4>1, PartsFacts
    <3>2. k > 0 => CodeUnitLength(GrownOf(n, es, k)) = units
      BY <1>1, <1>2, <1>5, <3>1
    <3>3. units < run.target /\ run.target # 0
      BY <1>1, <1>3
    <3>4. k > 0 => ~(CodeUnitLength(GrownOf(n, es, k)) >= run.target)
      BY <1>1, <1>3, <3>2, <3>3
    <3> HIDE DEF es, k
    <3>5. QED  BY <3>3, <3>4 DEF Enough
  <2>2. \A l \in 0..k : l = k \/ l \in 0..k-1
    BY <1>1
  <2>3. QED  BY <1>1, <1>2, <1>5, <2>1, <2>2
<1>9. Works
  <2>1. stage \in AtWork /\ stage' \in AtWork
    BY <1>1 DEF AtWork
  <2>2. QED  BY <1>1, <1>4, <2>1, SameDone DEF Works
<1>10. CorpusTypeOK'
  <2>1. drawn' \in Nat /\ units' \in Nat /\ stage' \in AtWork
    BY <1>1, <1>7 DEF AtWork
  <2>2. QED  BY <1>1, <2>1, SameTypes
<1>11. WorkTypes'
  <2>1. ~Skips(Current)'
    BY <1>1 DEF Skips, Current
  <2>2. text' \in Seq(Planes) /\ draws' \in [(Names \ Exacts) \X Seeds -> Seq(Nat)]
    BY <1>4, <1>6, <1>7 DEF DrawsGoOn
  <2>3. QED  BY <1>1, <1>4, <2>1, <2>2 DEF WorkTypes
<1>12. GrowInv'
  <2>1. Current' = Current /\ draws'[Stream'] = es /\ run' = run
    BY <1>1 DEF Current, Stream
  <2>2. q \in Range(Current.paragraphs)
    BY DEF Range
  <2>3. drawn' = k + 1 /\ drawn' <= Len(es) /\ drawn' # 0
    BY <1>1, <1>4
  <2>4. \A l \in 0..drawn'-1 : ~Enough(n, es, run.target, l)
    BY <1>1, <1>8, <2>3
  <2> HIDE DEF es, q
  <2>5. QED  BY <1>1, <1>2, <1>7, <2>1, <2>2, <2>3, <2>4 DEF GrowInv
<1>13. QED  BY <1>9, <1>10, <1>11, <1>12, WorkDone

\* The first draws that reach the target make the text.
LEMMA GrownEnoughKeeps == CorpusIInv /\ GrownEnough => CorpusIInv'
<1> SUFFICES ASSUME CorpusIInv, GrownEnough PROVE CorpusIInv'
  OBVIOUS
<1> DEFINE n == Current.name
           ds == draws[Stream]
           k == drawn
           g == GrownOf(n, ds, k)
<1>1. /\ CorpusTypeOK /\ WorkTypes /\ stage = "grow" /\ stage' = "encode" /\ at <= Len(Table)
      /\ ~Skips(Current) /\ units >= run.target /\ text' = text \o Newline
      /\ UNCHANGED <<directory, bounds, draws, run, at, drawn, units, payloads, metas, built, last>>
      /\ run \in Runs /\ k \in Nat /\ units \in Nat
  BY DEF CorpusIInv, GrownEnough, built, directory, WorkTypes, CorpusTypeOK
<1>2. /\ ~Current.exact /\ k <= Len(ds) /\ text = Joined(Parts(n, ds, k))
      /\ units = IF k = 0 THEN 0 ELSE CodeUnitLength(text) + 1
      /\ \A l \in 0..k-1 : ~Enough(n, ds, run.target, l)
      /\ k = 0 \/ \E p \in Range(Current.paragraphs) : units < run.target + CodeUnitLength(p) + 1
  BY <1>1 DEF CorpusIInv, GrowInv
<1>3. /\ n \in Names /\ SpecOf(n) = Current /\ n \notin Exacts
      /\ run.seed \in Seeds /\ run.target \in Nat
  BY <1>1, <1>2, CurrentFacts DEF Runs
<1>4. Stream = <<n, run.seed>> /\ Drawable(n, ds) /\ Len(ds) \in Nat /\ k \in 0..Len(ds)
  BY <1>1, <1>2, <1>3 DEF WorkTypes, Drawable, Stream
<1>5. /\ text' = g /\ g \in Seq(Planes) /\ CodeUnitLength(text) \in Nat
      /\ CodeUnitLength(g) = CodeUnitLength(text) + 1
  <2>1. text' = g
    BY <1>1, <1>2 DEF GrownOf
  <2> HIDE DEF ds
  <2>2. g \in Seq(Planes) /\ Joined(Parts(n, ds, k)) \in Seq(Planes)
        /\ CodeUnitLength(g) = CodeUnitLength(Joined(Parts(n, ds, k))) + 1
    BY <1>3, <1>4, PartsFacts
  <2>3. CodeUnitLength(text) \in Nat
    BY <1>2, <2>2, LengthAdds
  <2>4. QED  BY <1>2, <2>1, <2>2, <2>3
<1>6. k # 0 => CodeUnitLength(g) = units
  BY <1>2, <1>5
<1>7. k = 0 => run.target = 0
  BY <1>1, <1>2, <1>3
<1>8. Shortest(n, ds, run.target, k)
  <2>1. run.target = 0 \/ (k > 0 /\ CodeUnitLength(g) >= run.target)
    BY <1>1, <1>3, <1>6, <1>7
  <2>2. Enough(n, ds, run.target, k)
    BY <2>1 DEF Enough
  <2>3. QED  BY <1>2, <2>2 DEF Shortest
<1>9. text' \in TextsAt(draws, n, run.seed, run.target)
  <2>1. text' \in TextsOf(n, ds, run.target)
    BY <1>3, <1>4, <1>5, <1>8 DEF TextsOf
  <2>2. QED  BY <1>3, <1>4, <2>1 DEF TextsAt
<1>10. Fitting(n, run.target, text')
  <2>1. CodeUnitLength(g) >= run.target
    BY <1>1, <1>3, <1>5, <1>6, <1>7
  <2>2. run.target = 0 \/ \E p \in Range(SpecOf(n).paragraphs) :
                              CodeUnitLength(g) < run.target + CodeUnitLength(p) + 1
    BY <1>2, <1>3, <1>6, <1>7
  <2>3. QED  BY <1>5, <2>1, <2>2 DEF Fitting
<1>11. Works
  <2>1. stage \in AtWork /\ stage' \in AtWork
    BY <1>1 DEF AtWork
  <2>2. QED  BY <1>1, <2>1, SameDraws, SameDone DEF Works
<1>12. CorpusTypeOK'
  <2>1. drawn' \in Nat /\ units' \in Nat /\ stage' \in AtWork
    BY <1>1 DEF AtWork
  <2>2. QED  BY <1>1, <2>1, SameTypes
<1>13. WorkTypes'
  <2>1. ~Skips(Current)' /\ text' \in Seq(Planes)
    BY <1>1, <1>5 DEF Skips, Current
  <2>2. QED  BY <1>1, <2>1 DEF WorkTypes
<1>14. GrowInv'
  <2>1. Current' = Current
    BY <1>1 DEF Current
  <2>2. QED  BY <1>1, <1>9, <1>10, <2>1 DEF GrowInv
<1>15. QED  BY <1>11, <1>12, <1>13, <1>14, WorkDone

\* The datasets done do not include the one at hand.
LEMMA DoneGrows ==
    ASSUME WorkTypes, at <= Len(Table), ~Skips(Current), stage \in AtWork
    PROVE  /\ Current.name \notin Done /\ Done \subseteq Names
           /\ {Table[l].name : l \in {j \in 1..(at+1)-1 : ~Skips(Table[j])}} = Done \cup {Current.name}
<1>1. at \in 1..Len(Table) /\ Current = Table[at] /\ Len(Table) \in Nat
  BY CurrentFacts, TableFacts
<1>2. Done = {Table[l].name : l \in {j \in 1..at-1 : ~Skips(Table[j])}}
  BY DEF Done, AtWork
<1>3. \A l \in 1..at-1 : l \in 1..Len(Table) /\ l # at
  BY <1>1
<1>4. Current.name \notin Done /\ Done \subseteq Names
  BY <1>1, <1>2, <1>3, TableFacts
<1>5. 1..(at+1)-1 = 1..at-1 \cup {at}
  BY <1>1
<1>6. QED  BY <1>1, <1>2, <1>4, <1>5

\* Every text is accepted, in both byte orders, and kept with its metadata.
LEMMA EncodeDatasetKeeps == CorpusIInv /\ EncodeDataset => CorpusIInv'
<1> SUFFICES ASSUME CorpusIInv, EncodeDataset PROVE CorpusIInv'
  OBVIOUS
<1> DEFINE n == Current.name
           m == MetaOf(n, run.seed, text)
           mine == {n} \X Range(Encodings)
<1>1. /\ CorpusTypeOK /\ WorkTypes /\ BuiltInv /\ stage = "encode" /\ at <= Len(Table)
      /\ ~Skips(Current) /\ run \in Runs /\ last = "running" /\ text \in Seq(Planes)
      /\ text \in TextsAt(draws, n, run.seed, run.target) /\ Fitting(n, run.target, text)
      /\ UNCHANGED <<disk, last, problems, suspect, directory, bounds, draws, run, drawn, units, text>>
      /\ at \in Nat \ {0} /\ Len(Table) \in Nat
  BY TableFacts DEF CorpusIInv, EncodeDataset, GrowInv, WorkTypes, directory, growth
<1>2. n \in Names /\ (n \in Exacts <=> Current.exact) /\ run.seed \in Seeds
  BY <1>1, CurrentFacts DEF Runs
<1>3. \A s \in Range(Encodings) : Accepted(Encode(text, s)) /\ Encode(text, s) \in Contents
  BY <1>1, EncodeFacts DEF Accepted, Measure, CodeUnitLength
<1>4. /\ payloads' = [f \in Payloads |-> IF f \in mine THEN Encode(text, f[2]) ELSE payloads[f]]
      /\ metas' = metas \cup {m}
      /\ stage' = "build" /\ at' = at + 1
  <2>1. \A f \in mine : Accepted(Encode(text, f[2]))
    BY <1>3
  <2>2. m = [dataset |-> n, seed |-> MetaSeed, counts |-> Measure(text),
             digests |-> [s \in Range(Encodings) |-> Encode(text, s)]]
    BY <1>2 DEF MetaOf, MetaSeed
  <2> HIDE DEF m
  <2>3. QED  BY <2>1, <2>2 DEF EncodeDataset
<1>5. m.dataset = n
  BY DEF MetaOf
<1>6. n \notin Done /\ Done \subseteq Names /\ Done' = Done \cup {n}
  <2>1. stage \in AtWork
    BY <1>1 DEF AtWork
  <2>2. n \notin Done /\ Done \subseteq Names
        /\ {Table[l].name : l \in {j \in 1..(at+1)-1 : ~Skips(Table[j])}} = Done \cup {n}
    BY <1>1, <2>1, DoneGrows
  <2>3. \A x : Skips(x)' <=> Skips(x)
    BY <1>1 DEF Skips
  <2>4. Done' = {Table[l].name : l \in {j \in 1..at'-1 : ~Skips(Table[j])'}}
    BY <1>4 DEF Done
  <2>5. QED  BY <1>4, <2>2, <2>3, <2>4
<1>7. DrawsGoOn
  BY <1>1, SameDraws
<1>8. DiskTypes' /\ CheckExact' /\ ManifestInv'
  BY <1>1, <1>7, DirectoryKeeps
<1>9. CorpusTypeOK'
  BY <1>1, <1>4 DEF CorpusTypeOK
<1>10. WorkTypes'
  <2>1. payloads' \in [Payloads -> Contents \cup {None}]
    <3> SUFFICES ASSUME NEW f \in Payloads
                 PROVE  (IF f \in mine THEN Encode(text, f[2]) ELSE payloads[f]) \in Contents \cup {None}
      BY <1>4
    <3>1. payloads[f] \in Contents \cup {None}
      BY <1>1 DEF WorkTypes
    <3>2. QED  BY <1>3, <3>1
  <2>2. at' \in Nat \ {0} /\ at' <= Len(Table) + 1
    BY <1>1, <1>4
  <2>3. QED  BY <1>1, <1>4, <2>1, <2>2 DEF WorkTypes
<1>11. GrowInv' /\ WriteInv'
  BY <1>1, <1>4 DEF GrowInv, WriteInv
<1>12. BuiltInv'
  <2>1. /\ \A f \in Payloads : payloads'[f] # None => f[1] \in Done'
        /\ \A d \in metas' : d.dataset \in Done'
    <3> HIDE DEF m, n
    <3>1. QED  BY <1>1, <1>4, <1>5, <1>6 DEF BuiltInv
  <2>2. ASSUME NEW l \in Done PROVE BuiltRight(l)'
    <3>1. l # n /\ l \in Names /\ BuiltRight(l)
      BY <1>1, <1>6 DEF BuiltInv
    <3> HIDE DEF m, n
    <3>2. \A s \in Range(Encodings) : payloads'[<<l, s>>] = payloads[<<l, s>>]
      BY <1>4, <3>1, PayloadFacts
    <3>3. {d \in metas' : d.dataset = l} = {d \in metas : d.dataset = l}
      BY <1>4, <1>5, <3>1
    <3>4. QED  BY <1>1, <1>7, <3>1, <3>2, <3>3, BuiltStays
  <2>3. ASSUME NEW l, l = n PROVE BuiltRight(l)'
    <3>1. \A s \in Range(Encodings) : payloads'[<<n, s>>] = Encode(text, s)
      BY <1>2, <1>4, PayloadFacts
    <3>2. {d \in metas' : d.dataset = n} = {m}
      <4> HIDE DEF m, n
      <4>1. QED  BY <1>1, <1>4, <1>5, <1>6 DEF BuiltInv
    <3>3. \E t \in TextsAt(draws', n, run'.seed, run'.target) :
             /\ Fitting(n, run'.target, t)
             /\ \A s \in Range(Encodings) : payloads'[<<n, s>>] = Encode(t, s)
             /\ {d \in metas' : d.dataset = n} = {MetaOf(n, run'.seed, t)}
      BY <1>1, <3>1, <3>2
    <3> HIDE DEF n
    <3>4. QED  BY <2>3, <3>3 DEF BuiltRight
  <2>4. ASSUME NEW l \in Done' PROVE BuiltRight(l)'
    <3>1. CASE l \in Done
      BY <2>2, <3>1
    <3>2. CASE l = n
      BY <2>3, <3>2
    <3>3. QED  BY <1>6, <3>1, <3>2
  <2>5. QED  BY <2>1, <2>4 DEF BuiltInv
<1>13. QED  BY <1>4, <1>8, <1>9, <1>10, <1>11, <1>12 DEF CorpusIInv

-----------------------------------------------------------------------------
(* Beginning, and writing.                                                 *)

\* What has been built stays when nothing is added to it.
LEMMA AllBuiltStays ==
    ASSUME WorkTypes, BuiltInv, DrawsGoOn, run \in Runs, UNCHANGED <<run, payloads, metas>>,
           Done' = Done, Done \subseteq Names
    PROVE  BuiltInv'
<1>1. ASSUME NEW n \in Done PROVE BuiltRight(n)'
  BY BuiltStays DEF BuiltInv
<1>2. QED  BY <1>1 DEF BuiltInv

\* So does the order in which files are written, with what they should hold.
LEMMA SameOrder ==
    ASSUME UNCHANGED <<run, payloads, metas>>
    PROVE  /\ WriteOrder' = WriteOrder /\ ManifestBytes' = ManifestBytes
           /\ Expected' = Expected
           /\ \A f : ExpectedContent(f)' = ExpectedContent(f)
<1>1. Expected' = Expected
  BY DEF Expected
<1>2. WriteOrder' = WriteOrder
  <2>1. \A n : FilesOf(n)' = FilesOf(n)
    BY <1>1 DEF FilesOf
  <2> DEFINE F == [l \in DOMAIN Sorted |-> FilesOf(Sorted[l])]
             G == [l \in DOMAIN Sorted |-> FilesOf(Sorted[l])']
  <2>2. F = G
    BY <2>1
  <2>3. PayloadOrder = FlattenSeq(F) /\ PayloadOrder' = FlattenSeq(G)
    BY DEF PayloadOrder
  <2> HIDE DEF F, G
  <2>4. QED  BY <2>2, <2>3 DEF WriteOrder
<1>3. ManifestBytes' = ManifestBytes
  BY DEF ManifestBytes
<1>4. QED  BY <1>1, <1>2, <1>3 DEF ExpectedContent

\* A run begins with nothing done.
LEMMA StartKeeps == CorpusIInv /\ Start => CorpusIInv'
<1> SUFFICES ASSUME CorpusIInv, Start PROVE CorpusIInv'
  OBVIOUS
<1>1. /\ CorpusTypeOK /\ WorkTypes /\ BuiltInv /\ stage = "idle" /\ stage' = "build" /\ at = 1
      /\ last' = "running" /\ problems' = {}
      /\ UNCHANGED <<disk, suspect, touches, draws, at, drawn, units, text, payloads, metas>>
  BY DEF CorpusIInv, Start, WorkTypes, growth, built
<1>2. run' \in Runs
  <2>1. PICK seed \in Seeds, check \in BOOLEAN :
          \/ run' = [profile |-> "fixtures", seed |-> seed, target |-> FixtureTarget,
                     check |-> check]
          \/ \E t \in BenchTargets :
                run' = [profile |-> "bench", seed |-> seed, target |-> t, check |-> check]
    BY DEF Start
  <2>2. QED  BY <2>1, TargetsAssumption DEF Runs
<1>3. DiskTypes' /\ CheckExact' /\ ManifestInv'
  BY <1>1, SameDraws, DirectoryKeeps
<1>4. Done = {} /\ Done' = {}
  BY <1>1 DEF Done
<1>5. BuiltInv'
  BY <1>1, <1>4 DEF BuiltInv
<1>6. CorpusTypeOK'
  BY <1>1 DEF CorpusTypeOK
<1>7. WorkTypes'
  BY <1>1, <1>2, TableFacts DEF WorkTypes
<1>8. GrowInv' /\ WriteInv'
  BY <1>1 DEF GrowInv, WriteInv
<1>9. QED  BY <1>1, <1>3, <1>5, <1>6, <1>7, <1>8 DEF CorpusIInv

\* When the table is done with, what has been chosen is.
LEMMA AllBuiltKeeps == CorpusIInv /\ AllBuilt => CorpusIInv'
<1> SUFFICES ASSUME CorpusIInv, AllBuilt PROVE CorpusIInv'
  OBVIOUS
<1>1. /\ CorpusTypeOK /\ WorkTypes /\ BuiltInv /\ stage = "build" /\ at > Len(Table)
      /\ at <= Len(Table) + 1 /\ at \in Nat /\ Len(Table) \in Nat
      /\ stage' \in {"check", "write"} /\ at' = 1 /\ run \in Runs /\ last = "running"
      /\ UNCHANGED <<disk, last, problems, suspect, bounds, draws, run, drawn, units, text,
                     payloads, metas>>
  BY TableFacts DEF CorpusIInv, AllBuilt, WorkTypes, directory, growth, built
<1>2. Done = Chosen
  <2>1. at - 1 = Len(Table)
    BY <1>1
  <2>2. Done = {Table[l].name : l \in {j \in 1..Len(Table) : ~Skips(Table[j])}}
    BY <1>1, <2>1 DEF Done
  <2>3. \A l \in 1..Len(Table) : Table[l].name \in Chosen <=> ~Skips(Table[l])
    <3> TAKE l \in 1..Len(Table)
    <3>1. Table[l].name \in Names /\ (Table[l].name \in Exacts <=> Table[l].exact)
      BY TableFacts, SpecFacts
    <3>2. run.profile = "fixtures" <=> run.profile # "bench"
      BY <1>1 DEF Runs
    <3>3. QED  BY <3>1, <3>2 DEF Chosen, Skips
  <2>4. \A n \in Chosen : \E l \in 1..Len(Table) : Table[l].name = n
    BY TableFacts DEF Chosen
  <2>5. QED  BY <2>2, <2>3, <2>4
<1>3. Done' = Done /\ Done \subseteq Names
  BY <1>1, <1>2 DEF Done, Chosen
<1>4. DrawsGoOn
  BY <1>1, SameDraws
<1>5. DiskTypes' /\ CheckExact' /\ ManifestInv'
  BY <1>1, <1>4, DirectoryKeeps
<1>6. BuiltInv'
  BY <1>1, <1>3, <1>4, AllBuiltStays
<1>7. CorpusTypeOK'
  BY <1>1 DEF CorpusTypeOK
<1>8. WorkTypes'
  BY <1>1 DEF WorkTypes
<1>9. WriteInv'
  <2>1. Len(WriteOrder) \in Nat /\ WriteOrder' = WriteOrder
    BY <1>1, <1>2, BuiltFacts, OrderFacts, SameOrder
  <2>2. at' <= Len(WriteOrder') + 1 /\ 1..at'-1 = {}
    BY <1>1, <2>1
  <2>3. QED  BY <1>1, <2>2 DEF WriteInv
<1>10. GrowInv' /\ stage' # "refused"
  BY <1>1 DEF GrowInv
<1>11. QED  BY <1>5, <1>6, <1>7, <1>8, <1>9, <1>10 DEF CorpusIInv

\* One file is written, the manifest after all others.
LEMMA WriteFileKeeps == CorpusIInv /\ WriteFile => CorpusIInv'
<1> SUFFICES ASSUME CorpusIInv, WriteFile PROVE CorpusIInv'
  OBVIOUS
<1> DEFINE f == WriteOrder[at]
<1>1. /\ CorpusTypeOK /\ WorkTypes /\ DiskTypes /\ BuiltInv /\ WriteInv /\ ManifestInv
      /\ stage = "write" /\ stage' = "write" /\ at <= Len(WriteOrder)
      /\ at \in Nat \ {0} /\ at' = at + 1 /\ run \in Runs /\ last = "running"
      /\ disk' = [disk EXCEPT ![f] = ExpectedContent(f)]
      /\ UNCHANGED <<last, problems, suspect, bounds, draws, run, drawn, units, text,
                     payloads, metas>>
  BY DEF CorpusIInv, WriteFile, WorkTypes, growth, built
<1>2. Done = Chosen /\ Done' = Done /\ Chosen \subseteq Names
  BY <1>1 DEF Done, Chosen
<1>3. /\ Len(WriteOrder) \in Nat \ {0} /\ WriteOrder[Len(WriteOrder)] = Manifest
      /\ \A k \in 1..Len(WriteOrder)-1 : WriteOrder[k] \in Payloads \cap Expected
      /\ \A g \in Expected : \E k \in 1..Len(WriteOrder) : WriteOrder[k] = g
      /\ \A k \in 1..Len(WriteOrder) : WriteOrder[k] \in Expected
      /\ ManifestBytes \in Manifests /\ ManifestRight(ManifestBytes, draws)
  BY <1>1, <1>2, BuiltFacts, OrderFacts
<1>4. /\ WriteOrder' = WriteOrder /\ ManifestBytes' = ManifestBytes
      /\ \A g : ExpectedContent(g)' = ExpectedContent(g)
  BY <1>1, SameOrder
<1>5. at \in 1..Len(WriteOrder) /\ f \in Expected /\ (f \in Payloads \/ f = Manifest)
  BY <1>1, <1>3 DEF Expected
<1>6. /\ f \in Files /\ DOMAIN disk = Files /\ disk'[f] = ExpectedContent(f)
      /\ DOMAIN disk' = Files /\ \A g \in Files : g # f => disk'[g] = disk[g]
      /\ disk' = [g \in Files |-> disk'[g]]
  BY <1>1, <1>5, PayloadFacts DEF CorpusTypeOK
<1>7. DrawsGoOn
  BY <1>1, SameDraws
<1>8. DiskTypes'
  <2>1. ASSUME NEW g \in Payloads PROVE disk'[g] \in Contents \cup {None, Edited}
    <3>1. CASE g = f
      <4>1. f # Manifest /\ ExpectedContent(f) = payloads[f] /\ payloads[f] \in Contents \cup {None}
        BY <1>1, <3>1, PayloadFacts DEF ExpectedContent, WorkTypes
      <4>2. QED  BY <1>6, <3>1, <4>1
    <3>2. CASE g # f
      BY <1>1, <1>6, <3>2, PayloadFacts DEF DiskTypes
    <3>3. QED  BY <3>1, <3>2
  <2>2. disk'[Manifest] \in Manifests \cup {None, Torn, Edited}
    BY <1>1, <1>3, <1>6, PayloadFacts DEF DiskTypes, ExpectedContent
  <2>3. QED  BY <1>6, <2>1, <2>2 DEF DiskTypes
<1>9. WriteInv'
  <2>1. at' <= Len(WriteOrder') + 1
    BY <1>1, <1>3, <1>4
  <2>2. ASSUME NEW j \in 1..at'-1 PROVE disk'[WriteOrder[j]] = ExpectedContent(WriteOrder[j])
    <3>1. j \in 1..Len(WriteOrder) /\ (j = at \/ j \in 1..at-1)
      BY <1>1, <1>3
    <3>2. WriteOrder[j] \in Files
      BY <1>3, <3>1, PayloadFacts DEF Expected
    <3>3. QED  BY <1>1, <1>6, <3>1, <3>2 DEF WriteInv
  <2> HIDE DEF f
  <2>3. QED  BY <1>1, <1>4, <2>1, <2>2 DEF WriteInv
<1>10. ManifestInv'
  <2>1. Dubious = suspect \cup Opened(at - 1)
    BY <1>1 DEF Dubious
  <2>2. Dubious' = suspect \cup {WriteOrder[k] : k \in 1..at}
    <3>1. Opened(at - 1)' = {WriteOrder[k] : k \in 1..at'-1}
      BY <1>4 DEF Opened
    <3>2. at' - 1 = at
      BY <1>1
    <3>3. QED  BY <1>1, <3>1, <3>2 DEF Dubious
  <2>3. 1..at = 1..at-1 \cup {at}
    BY <1>1
  <2>4. Dubious' = Dubious \cup {f}
    BY <2>1, <2>2, <2>3 DEF Opened
  <2>5. CASE f # Manifest
    <3>1. disk'[Manifest] = disk[Manifest]
      BY <1>6, <2>5, PayloadFacts
    <3>2. \A g \in Payloads \ Dubious' : g \notin Dubious /\ disk'[g] = disk[g]
      BY <1>6, <2>4, PayloadFacts
    <3>3. QED  BY <1>1, <1>7, <3>1, <3>2, ManifestOutlives
  <2>6. CASE f = Manifest
    <3>1. at = Len(WriteOrder)
      BY <1>1, <1>3, <2>6, PayloadFacts
    <3>2. disk'[Manifest] = ManifestBytes
      BY <1>6, <2>6 DEF ExpectedContent
    <3>3. ASSUME NEW g \in Payloads PROVE Describes(ManifestBytes, g) /\ disk'[g] = disk[g]
      <4>1. g # Manifest /\ disk'[g] = disk[g]
        BY <1>6, <2>6, PayloadFacts
      <4>2. ASSUME g \in Expected PROVE disk[g] = payloads[g]
        <5>1. PICK k \in 1..Len(WriteOrder) : WriteOrder[k] = g
          BY <1>3, <4>2
        <5>2. k \in 1..at-1
          BY <1>1, <1>3, <3>1, <4>1, <5>1
        <5>3. QED  BY <1>1, <4>1, <5>1, <5>2 DEF WriteInv, ExpectedContent
      <4>3. QED  BY <1>1, <4>1, <4>2, BuiltDescribed
    <3>4. ASSUME NEW g \in Payloads PROVE Describes(ManifestBytes, g)'
      BY <1>4, <3>3 DEF Describes
    <3>5. ManifestRight(ManifestBytes, draws')
      BY <1>1, <1>3
    <3>6. QED  BY <1>4, <3>2, <3>4, <3>5 DEF ManifestInv
  <2>7. QED  BY <2>5, <2>6
<1>11. BuiltInv'
  BY <1>1, <1>2, <1>7, AllBuiltStays
<1>12. CorpusTypeOK' /\ WorkTypes'
  BY <1>1, <1>6 DEF CorpusTypeOK, WorkTypes
<1>13. GrowInv' /\ CheckExact' /\ stage' # "refused"
  BY <1>1 DEF GrowInv, CheckExact
<1>14. QED  BY <1>8, <1>9, <1>10, <1>11, <1>12, <1>13 DEF CorpusIInv

-----------------------------------------------------------------------------
(* How a run ends.                                                         *)

\* A run that is over leaves nothing but what lies in the directory.
LEMMA Forgets ==
    ASSUME WorkTypes, CorpusTypeOK, stage' = "idle", Forget, UNCHANGED <<run, draws>>
    PROVE  /\ WorkTypes' /\ GrowInv' /\ BuiltInv' /\ stage' # "refused"
           /\ drawn' \in Nat /\ units' \in Nat /\ DOMAIN payloads' = Payloads
           /\ DrawsGoOn /\ Dubious' = suspect'
<1>1. payloads' = NothingBuilt /\ metas' = {} /\ at' = 1 /\ text' = <<>> /\ drawn' = 0 /\ units' = 0
  BY DEF Forget
<1>2. payloads' \in [Payloads -> Contents \cup {None}] /\ text' \in Seq(Planes)
  BY <1>1, EmptySeq DEF NothingBuilt
<1>3. WorkTypes'
  BY <1>1, <1>2 DEF WorkTypes
<1>4. GrowInv'
  BY DEF GrowInv
<1>5. BuiltInv'
  <2>1. Done' = {}
    BY DEF Done
  <2>2. QED  BY <1>1, <2>1 DEF BuiltInv, NothingBuilt
<1>6. Dubious' = suspect'
  BY DEF Dubious
<1>7. QED  BY <1>1, <1>2, <1>3, <1>4, <1>5, <1>6, SameDraws

\* What a run has opened, and what it has written, are files it makes.
LEMMA WritesFiles ==
    ASSUME CorpusIInv, stage = "write"
    PROVE  /\ Done = Chosen /\ run \in Runs /\ Len(WriteOrder) \in Nat \ {0}
           /\ \A k \in 1..Len(WriteOrder) : WriteOrder[k] \in Files /\ WriteOrder[k] \in Expected
           /\ \A k \in 1..Len(WriteOrder) : WriteOrder[k] # Manifest => WriteOrder[k] \in Payloads
           /\ \A g \in Expected : \E k \in 1..Len(WriteOrder) : WriteOrder[k] = g
           /\ at <= Len(WriteOrder) + 1 /\ at \in Nat \ {0}
<1>1. WorkTypes /\ BuiltInv /\ WriteInv
  BY DEF CorpusIInv
<1>2. Done = Chosen
  BY DEF Done
<1>3. /\ Len(WriteOrder) \in Nat \ {0}
      /\ \A k \in 1..Len(WriteOrder) : WriteOrder[k] \in Expected
      /\ \A g \in Expected : \E k \in 1..Len(WriteOrder) : WriteOrder[k] = g
  BY <1>1, <1>2, BuiltFacts, OrderFacts
<1>4. QED  BY <1>1, <1>2, <1>3, PayloadFacts DEF WorkTypes, WriteInv, Expected

\* A run that has written everything leaves what it built.
LEMMA WrittenKeeps == CorpusIInv /\ Written => CorpusIInv'
<1> SUFFICES ASSUME CorpusIInv, Written PROVE CorpusIInv'
  OBVIOUS
<1>1. /\ CorpusTypeOK /\ WorkTypes /\ DiskTypes /\ BuiltInv /\ WriteInv /\ ManifestInv
      /\ stage = "write" /\ at > Len(WriteOrder)
      /\ last' = "wrote" /\ stage' = "idle" /\ suspect' = suspect \ Expected /\ Forget
      /\ UNCHANGED <<disk, problems, bounds, draws, run>>
  BY DEF CorpusIInv, Written
<1>2. /\ Done = Chosen /\ run \in Runs /\ Len(WriteOrder) \in Nat \ {0}
      /\ \A g \in Expected : \E k \in 1..Len(WriteOrder) : WriteOrder[k] = g
      /\ at <= Len(WriteOrder) + 1 /\ at \in Nat \ {0}
  BY <1>1, WritesFiles
<1>3. /\ \A f \in Payloads : f \in Expected <=> f[1] \in Chosen
      /\ \A n \in Chosen : n \in Names /\
            \E t \in TextsAt(draws, n, run.seed, run.target) :
               \A s \in Range(Encodings) : payloads[<<n, s>>] = Encode(t, s)
      /\ ManifestBytes \in Manifests /\ ManifestRight(ManifestBytes, draws)
  BY <1>1, <1>2, BuiltFacts
<1>4. \A g \in Expected : disk[g] = ExpectedContent(g)
  <2> TAKE g \in Expected
  <2>1. PICK k \in 1..Len(WriteOrder) : WriteOrder[k] = g
    BY <1>2
  <2>2. k \in 1..at-1
    BY <1>1, <1>2
  <2>3. QED  BY <1>1, <2>1, <2>2 DEF WriteInv
<1>5. disk[Manifest] = ManifestBytes
      /\ \A f \in Payloads : f \in Expected => disk[f] = payloads[f]
  BY <1>4, PayloadFacts DEF Expected, ExpectedContent
<1>6. /\ WorkTypes' /\ GrowInv' /\ BuiltInv' /\ stage' # "refused"
      /\ drawn' \in Nat /\ units' \in Nat /\ DOMAIN payloads' = Payloads
      /\ Dubious' = suspect'
  BY <1>1, Forgets
<1>7. CorpusTypeOK' /\ DiskTypes' /\ CheckExact'
  BY <1>1, <1>6 DEF CorpusTypeOK, DiskTypes, CheckExact
<1>8. WriteInv'
  <2>1. \A n \in Chosen : \E t \in TextsAt(draws, n, run.seed, run.target) :
                             \A s \in Range(Encodings) : disk[<<n, s>>] = Encode(t, s)
    <3> TAKE n \in Chosen
    <3>1. n \in Names
      BY <1>3
    <3>2. \A s \in Range(Encodings) : disk[<<n, s>>] = payloads[<<n, s>>]
      BY <1>3, <1>5, <3>1, PayloadFacts
    <3>3. QED  BY <1>3, <3>2
  <2>2. Chosen' = Chosen
    BY <1>1 DEF Chosen
  <2>3. /\ ManifestBytes.profile = run.profile /\ ManifestBytes.seed = run.seed
        /\ ManifestBytes.target = run.target
    BY DEF ManifestBytes
  <2>4. QED  BY <1>1, <1>2, <1>3, <1>5, <2>1, <2>2, <2>3 DEF WriteInv
<1>9. ManifestInv'
  <2>1. \A f \in Payloads : Describes(ManifestBytes, f)
    BY <1>1, <1>5, BuiltDescribed
  <2>2. ASSUME NEW f \in Payloads PROVE Describes(disk[Manifest], f)'
    BY <1>1, <1>5, <2>1 DEF Describes
  <2>3. QED  BY <1>1, <1>3, <1>5, <2>2 DEF ManifestInv
<1>10. QED  BY <1>6, <1>7, <1>8, <1>9 DEF CorpusIInv

\* A run that stops leaves a beginning of the file it was writing, if any.
LEMMA StopsKeeps == CorpusIInv /\ Stops => CorpusIInv'
<1> SUFFICES ASSUME CorpusIInv, Stops PROVE CorpusIInv'
  OBVIOUS
<1>1. /\ CorpusTypeOK /\ WorkTypes /\ DiskTypes /\ BuiltInv /\ WriteInv /\ ManifestInv
      /\ last' = "stopped" /\ stage' = "idle" /\ Forget /\ stage \notin {"idle", "refused"}
      /\ UNCHANGED <<problems, bounds, draws, run>>
  BY DEF CorpusIInv, Stops
<1>2. /\ WorkTypes' /\ GrowInv' /\ BuiltInv' /\ stage' # "refused"
      /\ drawn' \in Nat /\ units' \in Nat /\ DOMAIN payloads' = Payloads
      /\ DrawsGoOn /\ Dubious' = suspect'
  BY <1>1, Forgets
<1>3. WriteInv' /\ CheckExact'
  BY <1>1 DEF WriteInv, CheckExact
<1>4. CASE disk' = disk /\ suspect' = suspect \cup (IF stage = "write" THEN Opened(at - 1) ELSE {})
  <2>1. Dubious \subseteq Dubious'
    BY <1>2, <1>4 DEF Dubious
  <2>2. ManifestInv' /\ DiskTypes'
    BY <1>1, <1>2, <1>4, <2>1, ManifestInvStays DEF DiskTypes
  <2>3. suspect' \subseteq Files
    <3>1. ASSUME stage = "write" PROVE Opened(at - 1) \subseteq Files
      <4>1. 1..at-1 \subseteq 1..Len(WriteOrder)
        BY <3>1, WritesFiles
      <4>2. QED  BY <3>1, <4>1, WritesFiles DEF Opened
    <3>2. QED  BY <1>1, <1>4, <3>1 DEF CorpusTypeOK
  <2>4. CorpusTypeOK'
    BY <1>1, <1>2, <1>4, <2>3 DEF CorpusTypeOK
  <2>5. QED  BY <1>2, <1>3, <2>2, <2>4 DEF CorpusIInv
<1>5. CASE /\ stage = "write" /\ at <= Len(WriteOrder)
           /\ \E b \in Beginnings(WriteOrder[at]) : disk' = [disk EXCEPT ![WriteOrder[at]] = b]
           /\ suspect' = suspect \cup Opened(at)
  <2> DEFINE f == WriteOrder[at]
  <2>1. PICK b \in Beginnings(f) : disk' = [disk EXCEPT ![f] = b]
    BY <1>5
  <2>2. /\ at \in 1..Len(WriteOrder) /\ f \in Files /\ f \in Expected
        /\ f # Manifest => f \in Payloads
        /\ 1..at \subseteq 1..Len(WriteOrder) /\ 1..at = 1..at-1 \cup {at}
    BY <1>5, WritesFiles
  <2>3. /\ DOMAIN disk = Files /\ disk'[f] = b /\ DOMAIN disk' = Files
        /\ \A g \in Files : g # f => disk'[g] = disk[g]
        /\ disk' = [g \in Files |-> disk'[g]]
    BY <1>1, <2>1, <2>2 DEF CorpusTypeOK
  <2>4. f = Manifest => b = Torn
    BY DEF Beginnings
  <2>5. f # Manifest => b \in Contents
    <3> SUFFICES ASSUME f # Manifest PROVE b \in Contents
      OBVIOUS
    <3>1. payloads[f] \in Contents
      <4>1. payloads[f] # None /\ payloads[f] \in Contents \cup {None}
        BY <1>1, <2>2 DEF Expected, WorkTypes
      <4>2. QED  BY <4>1
    <3>2. b = <<>> \/ \E n \in 0..Len(payloads[f])-1 : b = SubSeq(payloads[f], 1, n)
      BY DEF Beginnings
    <3> DEFINE c == payloads[f]
    <3>3. Len(c) \in Nat /\ \A n \in 0..Len(c)-1 : SubSeq(c, 1, n) \in Contents
      <4>1. Contents = Seq({"high", "low", "bmp"} \X Range(Encodings))
        BY DEF Contents
      <4> HIDE DEF c
      <4>2. Len(c) \in Nat /\ \A n \in 0..Len(c)-1 : \A j \in 1..n : j \in 1..Len(c)
        BY <3>1, <4>1 DEF c
      <4>3. QED  BY <3>1, <4>1, <4>2, SubSeqProperties DEF c
    <3>4. QED  BY <3>2, <3>3, EmptySeq DEF Contents
  <2> HIDE DEF f
  <2>6. DiskTypes'
    <3>1. \A g \in Payloads : disk'[g] \in Contents \cup {None, Edited}
      BY <1>1, <2>3, <2>4, <2>5, PayloadFacts DEF DiskTypes
    <3>2. disk'[Manifest] \in Manifests \cup {None, Torn, Edited}
      BY <1>1, <2>3, <2>4, PayloadFacts DEF DiskTypes
    <3>3. QED  BY <2>3, <3>1, <3>2 DEF DiskTypes
  <2>7. ManifestInv'
    <3>1. disk'[Manifest] \in Manifests => disk'[Manifest] = disk[Manifest]
      BY <2>3, <2>4, NamesAssumption, PayloadFacts
    <3>2. ASSUME NEW g \in Payloads \ Dubious' PROVE g \notin Dubious /\ disk'[g] = disk[g]
      <4>1. g \notin suspect /\ g \notin Opened(at)
        BY <1>2, <1>5
      <4>2. g \notin Opened(at - 1) /\ g # f
        BY <2>2, <4>1 DEF Opened, f
      <4>3. QED  BY <1>5, <2>3, <4>1, <4>2, PayloadFacts DEF Dubious
    <3>3. QED  BY <1>1, <1>2, <3>1, <3>2, ManifestOutlives
  <2>8. suspect' \subseteq Files
    <3>1. Opened(at) \subseteq Files
      BY <1>5, <2>2, WritesFiles DEF Opened
    <3>2. QED  BY <1>1, <1>5, <3>1 DEF CorpusTypeOK
  <2>9. CorpusTypeOK'
    BY <1>1, <1>2, <2>3, <2>8 DEF CorpusTypeOK
  <2>10. QED  BY <1>2, <1>3, <2>6, <2>7, <2>9 DEF CorpusIInv
<1>6. QED  BY <1>4, <1>5 DEF Stops

\* Whoever changes a file makes it suspect, and a manifest no longer whole.
LEMMA TouchKeeps == CorpusIInv /\ Touch => CorpusIInv'
<1> SUFFICES ASSUME CorpusIInv, Touch PROVE CorpusIInv'
  OBVIOUS
<1>1. /\ CorpusTypeOK /\ WorkTypes /\ DiskTypes /\ BuiltInv /\ ManifestInv
      /\ stage = "idle" /\ stage' = "idle" /\ last' = "touched" /\ problems' = {}
      /\ suspect' = suspect \cup {f \in Files : disk'[f] # disk[f]}
      /\ UNCHANGED <<draws, run, at, drawn, units, text, payloads, metas>>
  BY DEF CorpusIInv, Touch, growth, built
<1>2. PICK f \in Files, b \in {None, Edited} : disk' = [disk EXCEPT ![f] = b]
  BY DEF Touch
<1>3. /\ DOMAIN disk = Files /\ disk'[f] = b /\ DOMAIN disk' = Files
      /\ \A g \in Files : g # f => disk'[g] = disk[g]
      /\ disk' = [g \in Files |-> disk'[g]]
  BY <1>1, <1>2 DEF CorpusTypeOK
<1>4. DiskTypes'
  <2>1. \A g \in Payloads : disk'[g] \in Contents \cup {None, Edited}
    BY <1>1, <1>3, PayloadFacts DEF DiskTypes
  <2>2. disk'[Manifest] \in Manifests \cup {None, Torn, Edited}
    BY <1>1, <1>3, PayloadFacts DEF DiskTypes
  <2>3. QED  BY <1>3, <2>1, <2>2 DEF DiskTypes
<1>5. ManifestInv'
  <2>1. DrawsGoOn
    BY <1>1, SameDraws
  <2>2. disk'[Manifest] \in Manifests => disk'[Manifest] = disk[Manifest]
    BY <1>3, NamesAssumption, PayloadFacts
  <2>3. \A g \in Payloads \ Dubious' : g \notin Dubious /\ disk'[g] = disk[g]
    BY <1>1, PayloadFacts DEF Dubious
  <2>4. QED  BY <1>1, <2>1, <2>2, <2>3, ManifestOutlives
<1>6. BuiltInv'
  <2>1. Done = {} /\ Done' = {}
    BY <1>1 DEF Done
  <2>2. QED  BY <1>1, <2>1 DEF BuiltInv
<1>7. CorpusTypeOK' /\ WorkTypes'
  BY <1>1, <1>3 DEF CorpusTypeOK, WorkTypes
<1>8. GrowInv' /\ WriteInv' /\ CheckExact'
  BY <1>1 DEF GrowInv, WriteInv, CheckExact
<1>9. QED  BY <1>1, <1>4, <1>5, <1>6, <1>7, <1>8 DEF CorpusIInv

-----------------------------------------------------------------------------
(* Comparing.                                                              *)

\* A manifest that was written whole, by a run with the same arguments, is the
\* one this run would write.
LEMMA SameManifest ==
    ASSUME WorkTypes, BuiltInv, stage \in {"write", "check"},
           NEW mf \in Manifests, ManifestRight(mf, draws),
           mf.profile = run.profile, mf.seed = run.seed, mf.target = run.target
    PROVE  mf = ManifestBytes
<1>1. Done = Chosen /\ ChosenFor(mf.profile) = Chosen
  BY DEF Done, Chosen, ChosenFor
<1>2. run.seed \in Seeds
  BY DEF WorkTypes, Runs
<1>3. ASSUME NEW n \in Chosen
      PROVE  {d \in mf.datasets : d.dataset = n} = {d \in metas : d.dataset = n}
  <2>1. PICK t \in TextsAt(draws, n, run.seed, run.target) :
             {d \in metas : d.dataset = n} = {MetaOf(n, run.seed, t)}
    BY <1>1, BuiltFacts
  <2>2. PICK u \in TextsAt(draws, n, run.seed, run.target) :
             {d \in mf.datasets : d.dataset = n} = {MetaOf(n, run.seed, u)}
    BY <1>1 DEF ManifestRight
  <2>3. t = u
    BY <1>2, TextAt DEF Chosen
  <2>4. QED  BY <2>1, <2>2, <2>3
<1>4. /\ \A d \in mf.datasets : d.dataset \in Chosen
      /\ \A d \in metas : d.dataset \in Chosen
  BY <1>1 DEF ManifestRight, BuiltInv
<1>5. \A d \in mf.datasets : d \in metas
  <2> TAKE d \in mf.datasets
  <2>1. d \in {x \in mf.datasets : x.dataset = d.dataset} /\ d.dataset \in Chosen
    BY <1>4
  <2>2. d \in {x \in metas : x.dataset = d.dataset}
    BY <1>3, <2>1
  <2>3. QED  BY <2>2
<1>6. \A d \in metas : d \in mf.datasets
  <2> TAKE d \in metas
  <2>1. d \in {x \in metas : x.dataset = d.dataset} /\ d.dataset \in Chosen
    BY <1>4
  <2>2. d \in {x \in mf.datasets : x.dataset = d.dataset}
    BY <1>3, <2>1
  <2>3. QED  BY <2>2
<1>7. mf.datasets = metas
  BY <1>5, <1>6
<1>8. mf = [profile |-> mf.profile, seed |-> mf.seed, target |-> mf.target,
           datasets |-> mf.datasets]
  BY DEF Manifests
<1>9. QED  BY <1>7, <1>8 DEF ManifestBytes

\* What a payload that was built holds, and that nothing else holds the same.
LEMMA HoldsFacts ==
    ASSUME WorkTypes, NEW n \in Names, NEW s \in Range(Encodings),
           NEW t \in Seq(Planes), TextOf(n) = t
    PROVE  /\ Holds(Encode(t, s), n, s)
           /\ \A c \in Contents : Holds(c, n, s) => c = Encode(t, s)
<1>1. Holds(Encode(t, s), n, s)
  BY EncodeFacts DEF Holds
<1>2. ASSUME NEW c \in Contents, Holds(c, n, s) PROVE c = Encode(t, s)
  <2>1. StoredIn(c, s) /\ ErrorBits(c) = {} /\ CodePoints(c) = t
    BY <1>2 DEF Holds
  <2>2. QED  BY <2>1, EncodingIsUnique
<1>3. QED  BY <1>1, <1>2

\* What --check is to find out: the directory holds what the run has built.
Expectation ==
    /\ \A f \in Files \ {Hidden} :
          disk[f] # None <=> (f = Manifest \/ f \in Chosen \X Range(Encodings))
    /\ \A f \in Chosen \X Range(Encodings) :
          disk[f] # Edited /\ Holds(disk[f], f[1], f[2])
    /\ disk[Manifest] \notin {Torn, Edited}
    /\ <<disk[Manifest].profile, disk[Manifest].seed, disk[Manifest].target>>
          = <<run.profile, run.seed, run.target>>

\* A comparison finds nothing missing, different or unexpected exactly then.
LEMMA NothingToReport ==
    ASSUME CorpusIInv, stage = "check"
    PROVE  (Missing = {} /\ Differing = {} /\ Unexpected = {}) <=> Expectation
<1>1. /\ WorkTypes /\ DiskTypes /\ BuiltInv /\ ManifestInv /\ Done = Chosen
  BY DEF CorpusIInv, Done
<1>2. /\ Expected = (Chosen \X Range(Encodings)) \cup {Manifest}
      /\ Chosen \subseteq Names
      /\ ManifestBytes \in Manifests
  BY <1>1, BuiltFacts
<1>3. ASSUME NEW f \in Chosen \X Range(Encodings)
      PROVE  /\ f \in Payloads /\ f \in Expected /\ f # Manifest /\ ExpectedContent(f) = payloads[f]
             /\ payloads[f] \in Contents /\ Holds(payloads[f], f[1], f[2])
             /\ \A c \in Contents : Holds(c, f[1], f[2]) => c = payloads[f]
  <2> DEFINE n == f[1]
             s == f[2]
  <2>1. f = <<n, s>> /\ n \in Chosen /\ n \in Names /\ s \in Range(Encodings)
    BY <1>2
  <2>2. f \in Payloads /\ f \in Expected /\ f # Manifest /\ ExpectedContent(f) = payloads[f]
    BY <1>2, <2>1, PayloadFacts DEF ExpectedContent
  <2>3. PICK t \in Seq(Planes) : TextOf(n) = t /\ \A x \in Range(Encodings) : payloads[<<n, x>>] = Encode(t, x)
    BY <1>1, <2>1, BuiltFacts
  <2>4. payloads[f] = Encode(t, s) /\ Encode(t, s) \in Contents
    BY <2>1, <2>3, EncodeFacts
  <2> HIDE DEF n, s
  <2>5. /\ Holds(Encode(t, s), n, s)
        /\ \A c \in Contents : Holds(c, n, s) => c = Encode(t, s)
    BY <1>1, <2>1, <2>3, HoldsFacts
  <2>6. QED  BY <2>2, <2>4, <2>5 DEF n, s
<1>4. \A f \in Files \ {Hidden} : f \in Expected <=> (f = Manifest \/ f \in Chosen \X Range(Encodings))
  BY <1>2
<1>5. Manifest \in Expected /\ Hidden \notin Expected /\ Expected \subseteq Files
      /\ ExpectedContent(Manifest) = ManifestBytes
  BY <1>2, <1>3, PayloadFacts DEF ExpectedContent
<1>6. ASSUME Missing = {}, Differing = {}, Unexpected = {} PROVE Expectation
  <2>1. \A f \in Expected : disk[f] # None /\ disk[f] = ExpectedContent(f)
    BY <1>6 DEF Missing, Differing
  <2>2. \A f \in Files \ {Hidden} : f \notin Expected => disk[f] = None
    BY <1>6 DEF Unexpected
  <2>3. \A f \in Files \ {Hidden} :
          disk[f] # None <=> (f = Manifest \/ f \in Chosen \X Range(Encodings))
    BY <1>4, <2>1, <2>2
  <2>4. \A f \in Chosen \X Range(Encodings) :
          disk[f] # Edited /\ Holds(disk[f], f[1], f[2])
    <3> TAKE f \in Chosen \X Range(Encodings)
    <3>1. disk[f] = payloads[f] /\ payloads[f] \in Contents /\ Holds(payloads[f], f[1], f[2])
      BY <1>3, <2>1
    <3>2. QED  BY <3>1, NamesAssumption
  <2>5. disk[Manifest] = ManifestBytes
    BY <1>5, <2>1
  <2>6. disk[Manifest] \notin {Torn, Edited}
    BY <1>2, <2>5, NamesAssumption
  <2>7. QED  BY <2>3, <2>4, <2>5, <2>6 DEF Expectation, ManifestBytes
<1>7. ASSUME Expectation PROVE Missing = {} /\ Differing = {} /\ Unexpected = {}
  <2>1. Missing = {}
    <3>1. \A f \in Expected : f \in Files \ {Hidden}
      BY <1>5
    <3>2. QED  BY <1>4, <1>7, <3>1 DEF Missing, Expectation
  <2>2. Unexpected = {}
    <3>1. \A f \in Files \ (Expected \cup {Hidden}) : f \in Files \ {Hidden} /\ f \notin Expected
      OBVIOUS
    <3>2. QED  BY <1>4, <1>7, <3>1 DEF Unexpected, Expectation
  <2>3. \A f \in Expected : disk[f] # None
    BY <2>1 DEF Missing
  <2>4. ASSUME NEW f \in Chosen \X Range(Encodings) PROVE disk[f] = ExpectedContent(f)
    <3>1. /\ f \in Payloads /\ f \in Expected /\ ExpectedContent(f) = payloads[f]
          /\ \A c \in Contents : Holds(c, f[1], f[2]) => c = payloads[f]
      BY <1>3
    <3>2. disk[f] \in Contents
      <4>1. disk[f] \in Contents \cup {None, Edited} /\ disk[f] # Edited /\ disk[f] # None
        BY <1>1, <1>7, <2>3, <3>1 DEF DiskTypes, Expectation
      <4>2. QED  BY <4>1
    <3>3. Holds(disk[f], f[1], f[2])
      BY <1>7 DEF Expectation
    <3>4. QED  BY <3>1, <3>2, <3>3
  <2>5. disk[Manifest] = ManifestBytes
    <3>1. disk[Manifest] \in Manifests
      <4>1. disk[Manifest] \in Manifests \cup {None, Torn, Edited} /\ disk[Manifest] # None
        BY <1>1, <1>5, <2>3 DEF DiskTypes
      <4>2. QED  BY <1>7, <4>1 DEF Expectation
    <3>2. /\ disk[Manifest].profile = run.profile /\ disk[Manifest].seed = run.seed
          /\ disk[Manifest].target = run.target
      BY <1>7 DEF Expectation
    <3>3. ManifestRight(disk[Manifest], draws)
      BY <1>1, <3>1 DEF ManifestInv
    <3>4. QED  BY <1>1, <3>1, <3>2, <3>3, SameManifest
  <2>6. Differing = {}
    BY <1>2, <1>5, <2>4, <2>5 DEF Differing
  <2>7. QED  BY <2>1, <2>2, <2>6
<1>8. QED  BY <1>6, <1>7

\* The text of a dataset depends on the draws and the arguments of the run.
LEMMA TextOfStays ==
    ASSUME UNCHANGED <<run, draws>>
    PROVE  \A n : TextOf(n)' = TextOf(n)
<1> DEFINE First(dr, r, n, k) == [j \in 1..k |-> SpecOf(n).paragraphs[dr[<<n, r.seed>>][j]]]
           Grown(dr, r, n, k) == Joined(First(dr, r, n, k)) \o Newline
           Reach(dr, r, n, k) == \/ r.target = 0
                                 \/ k > 0 /\ CodeUnitLength(Grown(dr, r, n, k)) >= r.target
           T(dr, r, n) ==
             IF n \in Exacts THEN Joined(SpecOf(n).paragraphs)
             ELSE Grown(dr, r, n, CHOOSE k \in 0..Len(dr[<<n, r.seed>>]) :
                                     /\ Reach(dr, r, n, k)
                                     /\ \A j \in 0..k-1 : ~Reach(dr, r, n, j))
<1> TAKE n
<1>1. TextOf(n) = T(draws, run, n)
  BY DEF TextOf, GrownText, Reaches, FirstDraws
<1>2. TextOf(n)' = T(draws', run', n)
  BY DEF TextOf, GrownText, Reaches, FirstDraws
<1> HIDE DEF T
<1>3. QED  BY <1>1, <1>2

\* --check reports nothing exactly if that is so.
LEMMA CheckDirectoryKeeps == CorpusIInv /\ CheckDirectory => CorpusIInv'
<1> SUFFICES ASSUME CorpusIInv, CheckDirectory PROVE CorpusIInv'
  OBVIOUS
<1>1. /\ CorpusTypeOK /\ WorkTypes /\ DiskTypes /\ ManifestInv
      /\ stage = "check" /\ stage' = "idle" /\ last' = "checked" /\ Forget
      /\ problems' = ({"missing"} \X Missing) \cup ({"differs"} \X Differing)
                       \cup ({"unexpected"} \X Unexpected)
      /\ UNCHANGED <<disk, suspect, draws, run>>
  BY DEF CorpusIInv, CheckDirectory
<1>2. /\ WorkTypes' /\ GrowInv' /\ BuiltInv' /\ stage' # "refused"
      /\ drawn' \in Nat /\ units' \in Nat /\ DOMAIN payloads' = Payloads
      /\ DrawsGoOn /\ Dubious' = suspect'
  BY <1>1, Forgets
<1>3. Dubious = suspect
  BY <1>1 DEF Dubious
<1>4. ManifestInv' /\ DiskTypes' /\ WriteInv'
  BY <1>1, <1>2, <1>3, ManifestInvStays DEF DiskTypes, WriteInv
<1>5. CorpusTypeOK'
  <2>1. Missing \subseteq Files /\ Differing \subseteq Files /\ Unexpected \subseteq Files
    BY PayloadFacts DEF Missing, Differing, Unexpected, Expected
  <2>2. problems' \subseteq {"missing", "differs", "unexpected"} \X Files
    BY <1>1, <2>1
  <2>3. QED  BY <1>1, <1>2, <2>2 DEF CorpusTypeOK
<1>6. CheckExact'
  <2>1. problems' = {} <=> Missing = {} /\ Differing = {} /\ Unexpected = {}
    <3>1. \A word, S : {word} \X S = {} <=> S = {}
      <4> SUFFICES ASSUME NEW word, NEW S PROVE {word} \X S = {} <=> S = {}
        OBVIOUS
      <4>1. \A x \in S : <<word, x>> \in {word} \X S
        OBVIOUS
      <4>2. S = {} => {word} \X S = {}
        OBVIOUS
      <4>3. QED  BY <4>1, <4>2
    <3>2. \A S, T, U : S \cup T \cup U = {} <=> S = {} /\ T = {} /\ U = {}
      OBVIOUS
    <3> DEFINE M == {"missing"} \X Missing
               D == {"differs"} \X Differing
               U == {"unexpected"} \X Unexpected
    <3>3. problems' = M \cup D \cup U
      BY <1>1
    <3>4. /\ M = {} <=> Missing = {}
          /\ D = {} <=> Differing = {}
          /\ U = {} <=> Unexpected = {}
      BY <3>1
    <3> HIDE DEF M, D, U
    <3>5. QED  BY <3>2, <3>3, <3>4
  <2>2. problems' = {} <=> Expectation
    BY <1>1, <2>1, NothingToReport
  <2>3. Expectation' <=> Expectation
    <3>1. \A n : TextOf(n)' = TextOf(n)
      BY <1>1, TextOfStays
    <3>2. \A c, n, s : Holds(c, n, s)' <=> Holds(c, n, s)
      BY <3>1 DEF Holds
    <3>3. Chosen' = Chosen
      BY <1>1 DEF Chosen
    <3>4. QED  BY <1>1, <3>2, <3>3 DEF Expectation
  <2>4. QED  BY <2>2, <2>3 DEF CheckExact, Expectation
<1>7. QED  BY <1>2, <1>4, <1>5, <1>6 DEF CorpusIInv

-----------------------------------------------------------------------------
(* All executions.                                                         *)

\* Nothing has been run, and the directory is empty.
LEMMA CorpusStarts == CorpusInit => CorpusIInv
<1> SUFFICES ASSUME CorpusInit PROVE CorpusIInv
  OBVIOUS
<1>1. /\ disk = [f \in Files |-> None] /\ last = "none" /\ problems = {} /\ suspect = {}
      /\ draws = [k \in (Names \ Exacts) \X Seeds |-> <<>>]
      /\ stage = "idle" /\ run = NoRun /\ at = 1 /\ drawn = 0 /\ units = 0 /\ text = <<>>
      /\ payloads = NothingBuilt /\ metas = {}
  BY DEF CorpusInit
<1>2. CorpusTypeOK
  BY <1>1 DEF CorpusTypeOK, NothingBuilt
<1>3. WorkTypes
  <2>1. draws \in [(Names \ Exacts) \X Seeds -> Seq(Nat)]
    BY <1>1, EmptySeq
  <2>2. \A n \in Names \ Exacts, seed \in Seeds : draws[<<n, seed>>] = <<>>
    BY <1>1
  <2>3. \A n : Drawable(n, <<>>)
    BY EmptySeq DEF Drawable
  <2>4. payloads \in [Payloads -> Contents \cup {None}] /\ text \in Seq(Planes)
    BY <1>1, EmptySeq DEF NothingBuilt
  <2>5. QED  BY <1>1, <2>1, <2>2, <2>3, <2>4 DEF WorkTypes
<1>4. DiskTypes
  BY <1>1, PayloadFacts DEF DiskTypes
<1>5. BuiltInv
  <2>1. Done = {}
    BY <1>1 DEF Done
  <2>2. QED  BY <1>1, <2>1 DEF BuiltInv, NothingBuilt
<1>6. ManifestInv
  BY <1>1, NamesAssumption, PayloadFacts DEF ManifestInv
<1>7. GrowInv /\ WriteInv /\ CheckExact
  BY <1>1 DEF GrowInv, WriteInv, CheckExact
<1>8. QED  BY <1>1, <1>2, <1>3, <1>4, <1>5, <1>6, <1>7 DEF CorpusIInv

\* Nothing changes when nothing happens.
LEMMA RestKeeps == CorpusIInv /\ UNCHANGED corpusVars => CorpusIInv'
<1> SUFFICES ASSUME CorpusIInv, UNCHANGED corpusVars PROVE CorpusIInv'
  OBVIOUS
<1>1. /\ UNCHANGED <<disk, last, problems, suspect, draws, stage, run, at, drawn, units, text,
                     payloads, metas>>
      /\ WorkTypes
  BY DEF CorpusIInv, corpusVars, directory, growth, built, WorkTypes
<1>2. CorpusTypeOK' /\ DiskTypes' /\ stage' # "refused"
  BY <1>1 DEF CorpusIInv, CorpusTypeOK, DiskTypes
<1>3. Current' = Current /\ Stream' = Stream /\ \A x : Skips(x)' <=> Skips(x)
  BY <1>1 DEF Current, Stream, Skips
<1>4. WorkTypes'
  BY <1>1, <1>3 DEF WorkTypes
<1>5. GrowInv'
  BY <1>1, <1>3 DEF CorpusIInv, GrowInv
<1>6. Chosen' = Chosen /\ Done' = Done
  BY <1>1, <1>3 DEF Chosen, Done
<1>7. BuiltInv'
  <2>1. \A n \in Done : BuiltRight(n)' <=> BuiltRight(n)
    BY <1>1 DEF BuiltRight
  <2>2. QED  BY <1>1, <1>6, <2>1 DEF CorpusIInv, BuiltInv
<1>8. WriteOrder' = WriteOrder /\ \A f : ExpectedContent(f)' = ExpectedContent(f)
  BY <1>1, SameOrder
<1>9. WriteInv'
  BY <1>1, <1>6, <1>8 DEF CorpusIInv, WriteInv
<1>10. Dubious' = Dubious
  BY <1>1, <1>8 DEF Dubious, Opened
<1>11. ManifestInv'
  <2>1. DrawsGoOn
    BY <1>1, SameDraws
  <2>2. QED  BY <1>1, <1>10, <2>1, ManifestInvStays DEF CorpusIInv
<1>12. CheckExact'
  <2>1. \A n : TextOf(n)' = TextOf(n)
    BY <1>1, TextOfStays
  <2>2. \A c, n, s : Holds(c, n, s)' <=> Holds(c, n, s)
    BY <2>1 DEF Holds
  <2>3. Expectation' <=> Expectation
    BY <1>1, <1>6, <2>2 DEF Expectation
  <2>4. CheckExact <=> (last = "checked" => (problems = {} <=> Expectation))
    BY DEF CheckExact, Expectation
  <2>5. CheckExact' <=> (last' = "checked" => (problems' = {} <=> Expectation'))
    BY DEF CheckExact, Expectation
  <2>6. QED  BY <1>1, <2>3, <2>4, <2>5 DEF CorpusIInv
<1>13. QED  BY <1>2, <1>4, <1>5, <1>7, <1>9, <1>11, <1>12 DEF CorpusIInv

\* The invariant holds in every state of every sequence of runs.
THEOREM CorpusInvariant == CorpusSpec => []CorpusIInv
<1>1. CorpusInit => CorpusIInv
  BY CorpusStarts
<1>2. CorpusIInv /\ [CorpusNext]_corpusVars => CorpusIInv'
  <2> SUFFICES ASSUME CorpusIInv, [CorpusNext]_corpusVars PROVE CorpusIInv'
    OBVIOUS
  <2>1. CASE Step
    <3>1. CASE Start
      BY <3>1, StartKeeps
    <3>2. CASE SkipExact
      BY <3>2, SkipExactKeeps
    <3>3. CASE TakeExact
      BY <3>3, TakeExactKeeps
    <3>4. CASE BeginGrown
      BY <3>4, BeginGrownKeeps
    <3>5. CASE DrawParagraph
      BY <3>5, DrawParagraphKeeps
    <3>6. CASE GrownEnough
      BY <3>6, GrownEnoughKeeps
    <3>7. CASE EncodeDataset
      BY <3>7, EncodeDatasetKeeps
    <3>8. CASE AllBuilt
      BY <3>8, AllBuiltKeeps
    <3>9. CASE WriteFile
      BY <3>9, WriteFileKeeps
    <3>10. CASE Written
      BY <3>10, WrittenKeeps
    <3>11. CASE CheckDirectory
      BY <3>11, CheckDirectoryKeeps
    <3>12. CASE Stops
      BY <3>12, StopsKeeps
    <3>13. CASE Touch
      BY <3>13, TouchKeeps
    <3>14. QED  BY <2>1, <3>1, <3>2, <3>3, <3>4, <3>5, <3>6, <3>7, <3>8, <3>9, <3>10,
                   <3>11, <3>12, <3>13 DEF Step
  <2>2. CASE UNCHANGED corpusVars
    BY <2>2, RestKeeps
  <2>3. QED  BY <2>1, <2>2 DEF CorpusNext, Rest
<1>3. QED  BY <1>1, <1>2, PTL DEF CorpusSpec

\* What the invariant says of a run that has built everything.
LEMMA InvariantBuilds == CorpusIInv => CorpusInv
<1> SUFFICES ASSUME CorpusIInv PROVE CorpusInv
  OBVIOUS
<1>1. CorpusTypeOK /\ WorkTypes /\ BuiltInv /\ stage # "refused"
  BY DEF CorpusIInv
<1> SUFFICES ASSUME stage \in {"write", "check"}
    PROVE  /\ Expected = (Chosen \X Range(Encodings)) \cup {Manifest}
           /\ \A n \in Chosen, s \in Range(Encodings) : Holds(payloads[<<n, s>>], n, s)
           /\ \A n \in Chosen \ Exacts, s \in Range(Encodings) :
                /\ Len(payloads[<<n, s>>]) >= run.target
                /\ \/ run.target = 0
                   \/ \E p \in Range(SpecOf(n).paragraphs) :
                         Len(payloads[<<n, s>>]) < run.target + CodeUnitLength(p) + 1
  BY <1>1 DEF CorpusInv, BuiltExact
<1>2. Done = Chosen
  BY DEF Done
<1>3. /\ Expected = (Chosen \X Range(Encodings)) \cup {Manifest}
      /\ \A n \in Chosen : n \in Names /\
            \E t \in Seq(Planes) :
               /\ Fitting(n, run.target, t) /\ TextOf(n) = t
               /\ \A s \in Range(Encodings) : payloads[<<n, s>>] = Encode(t, s)
  BY <1>1, <1>2, BuiltFacts
<1>4. ASSUME NEW n \in Chosen, NEW s \in Range(Encodings)
      PROVE  /\ Holds(payloads[<<n, s>>], n, s)
             /\ n \notin Exacts =>
                /\ Len(payloads[<<n, s>>]) >= run.target
                /\ \/ run.target = 0
                   \/ \E p \in Range(SpecOf(n).paragraphs) :
                         Len(payloads[<<n, s>>]) < run.target + CodeUnitLength(p) + 1
  <2>1. PICK t \in Seq(Planes) :
               /\ Fitting(n, run.target, t) /\ TextOf(n) = t
               /\ payloads[<<n, s>>] = Encode(t, s)
    BY <1>3
  <2>2. Holds(Encode(t, s), n, s)
    BY <1>1, <1>3, <2>1, HoldsFacts
  <2>3. Len(Encode(t, s)) = CodeUnitLength(t)
    BY EncodeFacts
  <2>4. QED  BY <2>1, <2>2, <2>3 DEF Fitting
<1>5. QED  BY <1>3, <1>4

\* A dataset's bytes are its own text in both byte orders, well-formed, of the
\* size asked for, and nothing is ever refused, whatever the tables, seeds and
\* targets are.
THEOREM CorpusIsItsText == CorpusSpec => []CorpusInv
<1>1. CorpusSpec => []CorpusIInv
  BY CorpusInvariant
<1>2. CorpusIInv => CorpusInv
  BY InvariantBuilds
<1>3. QED  BY <1>1, <1>2, PTL

\* What the invariant says of a manifest.
LEMMA InvariantVouches == CorpusIInv => ManifestVouches
<1> SUFFICES ASSUME CorpusIInv PROVE ManifestVouches
  OBVIOUS
<1>1. WorkTypes /\ DiskTypes /\ WriteInv /\ ManifestInv
  BY DEF CorpusIInv
<1>2. ASSUME disk[Manifest] \notin {None, Torn, Edited}
      PROVE  \A f \in Payloads \ (suspect \cup (IF stage = "write" THEN Opened(at - 1) ELSE {})) :
                Describes(disk[Manifest], f)
  <2>1. disk[Manifest] \in Manifests
    BY <1>1, <1>2 DEF DiskTypes
  <2>2. QED  BY <1>1, <2>1 DEF ManifestInv, Dubious
<1>3. ASSUME last = "wrote"
      PROVE  /\ disk[Manifest].seed = run.seed /\ disk[Manifest].target = run.target
             /\ {d.dataset : d \in disk[Manifest].datasets} = Chosen
             /\ \A f \in Chosen \X Range(Encodings) :
                   Holds(disk[f], f[1], f[2]) /\ Describes(disk[Manifest], f)
  <2> DEFINE mf == disk[Manifest]
  <2>1. /\ run \in Runs /\ mf \in Manifests /\ ManifestRight(mf, draws)
        /\ mf.profile = run.profile /\ mf.seed = run.seed /\ mf.target = run.target
        /\ \A n \in Chosen : \E t \in TextsAt(draws, n, run.seed, run.target) :
              \A s \in Range(Encodings) : disk[<<n, s>>] = Encode(t, s)
    BY <1>1, <1>3 DEF WriteInv, ManifestInv
  <2>2. ChosenFor(mf.profile) = Chosen /\ Chosen \subseteq Names /\ run.seed \in Seeds
    BY <2>1 DEF ChosenFor, Chosen, Runs
  <2>3. {d.dataset : d \in mf.datasets} = Chosen
    <3>1. \A d \in mf.datasets : d.dataset \in Chosen
      BY <2>1, <2>2 DEF ManifestRight
    <3>2. ASSUME NEW n \in Chosen PROVE \E d \in mf.datasets : d.dataset = n
      <4>1. PICK t : {d \in mf.datasets : d.dataset = n} = {MetaOf(n, mf.seed, t)}
        BY <2>1, <2>2 DEF ManifestRight
      <4>2. QED  BY <4>1
    <3>3. QED  BY <3>1, <3>2
  <2>4. ASSUME NEW f \in Chosen \X Range(Encodings)
        PROVE  Holds(disk[f], f[1], f[2]) /\ Describes(mf, f)
    <3> DEFINE n == f[1]
               s == f[2]
    <3>1. f = <<n, s>> /\ n \in Chosen /\ n \in Names /\ s \in Range(Encodings)
      BY <2>2
    <3>2. PICK t \in TextsAt(draws, n, run.seed, run.target) : disk[f] = Encode(t, s)
      BY <2>1, <3>1
    <3>3. t \in Seq(Planes) /\ TextOf(n) = t
      BY <1>1, <2>2, <3>1, TextAt, TextOfIs
    <3>4. Holds(disk[f], n, s)
      BY <1>1, <3>1, <3>2, <3>3, HoldsFacts
    <3>5. ASSUME NEW d \in mf.datasets, d.dataset = n PROVE d = MetaOf(n, run.seed, t)
      <4>1. PICK u \in TextsAt(draws, n, run.seed, run.target) :
               {x \in mf.datasets : x.dataset = n} = {MetaOf(n, run.seed, u)}
        BY <2>1, <2>2, <3>1 DEF ManifestRight
      <4>2. t = u
        BY <1>1, <2>2, <3>1, TextAt
      <4>3. QED  BY <3>5, <4>1, <4>2
    <3> HIDE DEF mf, n, s
    <3>6. /\ MetaOf(n, run.seed, t).digests[s] = Encode(t, s)
          /\ MetaOf(n, run.seed, t).counts.code_units = CodeUnitLength(t)
          /\ MetaOf(n, run.seed, t).counts.surrogate_pairs = Supplementary(t)
          /\ Len(Encode(t, s)) = CodeUnitLength(t)
          /\ Highs(Encode(t, s)) = Supplementary(t)
      BY <2>2, <3>1, <3>3, MetaFacts, EncodeFacts
    <3>7. Highs(disk[f]) = Cardinality({k \in DOMAIN disk[f] : disk[f][k][1] = "high"})
      BY DEF Highs
    <3>8. ASSUME NEW d \in mf.datasets, n = d.dataset
          PROVE  /\ disk[f] = d.digests[s]
                 /\ Len(disk[f]) = d.counts.code_units
                 /\ Highs(disk[f]) = d.counts.surrogate_pairs
      BY <3>2, <3>5, <3>6, <3>8
    <3>9. QED  BY <3>4, <3>7, <3>8 DEF Describes, n, s
  <2>5. QED  BY <2>1, <2>3, <2>4
<1>4. QED  BY <1>2, <1>3 DEF ManifestVouches

\* Whatever stops a run, a manifest that is whole describes every payload that
\* was not opened or altered since, and after a run that completed all of them.
THEOREM ManifestsVouch == CorpusSpec => []ManifestVouches
<1>1. CorpusSpec => []CorpusIInv
  BY CorpusInvariant
<1>2. CorpusIInv => ManifestVouches
  BY InvariantVouches
<1>3. QED  BY <1>1, <1>2, PTL

\* --check reports nothing if and only if the directory holds exactly what a
\* run with these arguments writes.
THEOREM CheckIsExact == CorpusSpec => []CheckExact
<1>1. CorpusSpec => []CorpusIInv
  BY CorpusInvariant
<1>2. CorpusIInv => CheckExact
  BY DEF CorpusIInv
<1>3. QED  BY <1>1, <1>2, PTL

=============================================================================
