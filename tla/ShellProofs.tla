----------------------------- MODULE ShellProofs -----------------------------
(***************************************************************************)
(* Proofs about the shell loop of Shell.tla, for every set of keys, names  *)
(* and contents and every size of the line and of the history.             *)
(*                                                                         *)
(* The inductive invariant, ShellInv, says that files, text, line, echo    *)
(* and history are sequences, that the two indices the code does not check *)
(* are in range, that the echo is the line, and that a clear dirty flag    *)
(* tells the truth.                                                        *)
(*                                                                         *)
(* And about the calculator of Calc.tla: eval gives every expression the   *)
(* value it means.                                                         *)
(***************************************************************************)
EXTENDS ShellCalc, SequenceTheorems, WellFoundedInduction, TLAPS

Chars == Letters \cup {NL}
Typed == Keys \cup {Space, Tab}

FilesOK == DOMAIN files \subseteq Names /\ \A f \in DOMAIN files : files[f] \in Seq(Chars)

EditorOK ==
    /\ path \in Words /\ buffer \in Seq(Chars)
    /\ cursor \in Nat /\ cursor <= Len(buffer)

PromptOK ==
    /\ items \in Seq(Seq(Typed)) /\ Len(items) <= MaxHistory
    /\ index \in -1 .. Len(items) - 1
    /\ line \in Seq(Typed) /\ shown \in Seq(Typed) /\ plain \in BOOLEAN

\* Everything the properties below rest on.
ShellInv == FilesOK /\ EditorOK /\ PromptOK /\ EchoMatches /\ CleanMeansStored

-----------------------------------------------------------------------------
(***************************************************************************)
(* Sequences.                                                              *)
(***************************************************************************)

\* A part of a sequence.
LEMMA CutFacts ==
    ASSUME NEW S, NEW s \in Seq(S), NEW m \in 1 .. Len(s) + 1, NEW n \in 0 .. Len(s)
    PROVE  /\ SubSeq(s, m, n) \in Seq(S)
           /\ Len(SubSeq(s, m, n)) = IF m <= n THEN n - m + 1 ELSE 0
<1>1. m \in Int /\ n \in Int /\ \A i \in m .. n : s[i] \in S
  OBVIOUS
<1>. QED BY <1>1, SubSeqProperties

\* Nothing is cut off.
LEMMA CutNone ==
    ASSUME NEW S, NEW s \in Seq(S)
    PROVE  SubSeq(s, 1, Len(s) - 0) = s
<1>1. Len(s) - 0 = Len(s)
  OBVIOUS
<1>. QED BY <1>1, SubSeqFull

\* Everything is cut off.
LEMMA CutAll ==
    ASSUME NEW S, NEW s \in Seq(S)
    PROVE  SubSeq(s, 1, Len(s) - Len(s)) = <<>>
<1>1. Len(s) - Len(s) = 0
  OBVIOUS
<1>. QED BY <1>1, SubSeqEmpty

\* A non-empty set of naturals has a least element.
LEMMA LeastNatural ==
    ASSUME NEW T \in SUBSET Nat, T # {}
    PROVE  \E m \in T : \A y \in T : m <= y
<1>. DEFINE LT == {ss \in Nat \X Nat : ss[1] < ss[2]}
<1>1. IsWellFoundedOn(LT, Nat)
  BY NatLessThanWellFounded DEF OpToRel
<1>2. PICK m \in T : \A y \in T : ~(<<y, m>> \in LT)
  <2>. HIDE DEF LT
  <2>. QED BY <1>1, WFMin
<1>3. ASSUME NEW y \in T  PROVE  m <= y
  <2>1. y \in Nat /\ m \in Nat
    OBVIOUS
  <2>2. y < m => <<y, m>> \in LT
    BY <2>1
  <2>. QED BY <1>2, <2>1, <2>2
<1>. QED BY <1>2, <1>3

\* The ends that Trim looks for exist.
LEMMA EndsExist ==
    ASSUME NEW n \in Nat, NEW T \in SUBSET (1 .. n), T # {}
    PROVE  Min(T) \in 1 .. n /\ Max(T) \in 1 .. n
<1>1. T \in SUBSET Nat
  OBVIOUS
<1>2. \E m \in T : \A y \in T : m <= y
  BY <1>1, LeastNatural
<1>3. \E m \in T : \A y \in T : m >= y
  <2>. DEFINE U == {u \in Nat : \A y \in T : y <= u}
  <2>1. U \in SUBSET Nat /\ n \in U
    OBVIOUS
  <2>2. PICK u \in U : \A w \in U : u <= w
    <3>. HIDE DEF U
    <3>. QED BY <2>1, LeastNatural
  <2>3. u \in Nat /\ \A y \in T : y <= u
    OBVIOUS
  <2>4. u \in T
    <3>1. SUFFICES ASSUME u \notin T  PROVE FALSE
      OBVIOUS
    <3>2. \A y \in T : y \in 1 .. n /\ y <= u /\ y # u
      BY <2>3, <3>1
    <3>3. \A y \in T : y <= u - 1
      BY <2>3, <3>2
    <3>4. u - 1 \in Nat
      <4>1. PICK y \in T : y \in 1 .. n /\ y <= u
        BY <3>2
      <4>. QED BY <2>3, <4>1
    <3>5. u - 1 \in U
      BY <3>3, <3>4
    <3>6. u <= u - 1
      BY <2>2, <3>5
    <3>. QED BY <2>3, <3>6
  <2>. QED BY <2>3, <2>4
<1>4. Min(T) \in T
  BY <1>2 DEF Min
<1>5. Max(T) \in T
  BY <1>3 DEF Max
<1>. QED BY <1>4, <1>5

\* str::trim of a line is a line.
LEMMA TrimFacts ==
    ASSUME NEW s \in Seq(Typed)
    PROVE  Trim(s) \in Seq(Typed)
<1>. DEFINE ink == {i \in DOMAIN s : s[i] \notin {Space, Tab}}
<1>1. CASE ink = {}
  BY <1>1, EmptySeq DEF Trim
<1>2. CASE ink # {}
  <2>1. Len(s) \in Nat /\ ink \in SUBSET (1 .. Len(s))
    OBVIOUS
  <2>2. Trim(s) = SubSeq(s, Min(ink), Max(ink))
    BY <1>2 DEF Trim
  <2>. HIDE DEF ink
  <2>3. Min(ink) \in 1 .. Len(s) /\ Max(ink) \in 1 .. Len(s)
    BY <1>2, <2>1, EndsExist
  <2>4. Min(ink) \in 1 .. Len(s) + 1 /\ Max(ink) \in 0 .. Len(s)
    BY <2>1, <2>3
  <2>. QED BY <2>2, <2>4, CutFacts
<1>. QED BY <1>1, <1>2

-----------------------------------------------------------------------------
(***************************************************************************)
(* The prompt.                                                             *)
(***************************************************************************)

\* After n cells were erased and s was printed, the screen shows the line
\* without its last n characters, followed by s.
LEMMA RedrawFacts ==
    ASSUME PromptOK, EchoMatches, NEW n \in 0 .. Len(line), NEW s \in Seq(Typed), Redraw(n, s)
    PROVE  /\ plain' \in BOOLEAN /\ shown' \in Seq(Typed)
           /\ plain' => shown' = SubSeq(line, 1, Len(line) - n) \o s
<1>1. plain' \in BOOLEAN /\ (plain' => plain)
  BY DEF Redraw, PromptOK
<1>2. CASE plain'
  <2>1. shown = line
    BY <1>1, <1>2 DEF EchoMatches
  <2>2. shown' = SubSeq(line, 1, Len(line) - n) \o s
    BY <1>2, <2>1 DEF Redraw
  <2>3. line \in Seq(Typed) /\ 1 \in 1 .. Len(line) + 1 /\ Len(line) - n \in 0 .. Len(line)
    BY DEF PromptOK
  <2>4. SubSeq(line, 1, Len(line) - n) \in Seq(Typed)
    BY <2>3, CutFacts
  <2>. QED BY <1>1, <2>2, <2>4, ConcatProperties
<1>3. CASE ~plain'
  BY <1>1, <1>3, EmptySeq DEF Redraw
<1>. QED BY <1>2, <1>3

\* load_line replaces line and echo by the same text.
LEMMA LoadFacts ==
    ASSUME PromptOK, EchoMatches, NEW s \in Seq(Typed), load_line(s)
    PROVE  line' = s /\ plain' \in BOOLEAN /\ shown' \in Seq(Typed) /\ EchoMatches'
<1>1. line' = s /\ Redraw(Len(line), s) /\ line \in Seq(Typed) /\ Len(line) \in 0 .. Len(line)
  BY DEF load_line, PromptOK
<1>2. /\ plain' \in BOOLEAN /\ shown' \in Seq(Typed)
      /\ plain' => shown' = SubSeq(line, 1, Len(line) - Len(line)) \o s
  BY <1>1, RedrawFacts
<1>3. SubSeq(line, 1, Len(line) - Len(line)) \o s = s
  BY <1>1, CutAll, ConcatEmptySeq
<1>. QED BY <1>1, <1>2, <1>3 DEF EchoMatches

\* A key, a serial byte or a scroll event: one lemma per arm of the loop.
LEMMA TypeCharKeeps ==
    ASSUME PromptOK, EchoMatches, NEW c \in Typed, TypeChar(c)
    PROVE  PromptOK' /\ EchoMatches'
<1>1. line \in Seq(Typed) /\ line' = Append(line, c) /\ Redraw(0, <<c>>)
      /\ 0 \in 0 .. Len(line) /\ <<c>> \in Seq(Typed)
  BY DEF TypeChar, PromptOK
<1>2. /\ plain' \in BOOLEAN /\ shown' \in Seq(Typed)
      /\ plain' => shown' = SubSeq(line, 1, Len(line) - 0) \o <<c>>
  BY <1>1, RedrawFacts
<1>3. SubSeq(line, 1, Len(line) - 0) \o <<c>> = Append(line, c) /\ Append(line, c) \in Seq(Typed)
  BY <1>1, CutNone, AppendIsConcat, AppendProperties
<1>4. items' = items /\ index' = index
  BY DEF TypeChar
<1>. QED BY <1>1, <1>2, <1>3, <1>4 DEF EchoMatches, PromptOK

\* Backspace at the prompt removes a character from the line and from the screen.
LEMMA EraseCharKeeps ==
    ASSUME PromptOK, EchoMatches, EraseChar
    PROVE  PromptOK' /\ EchoMatches'
<1>1. /\ line \in Seq(Typed) /\ line' = SubSeq(line, 1, Len(line) - 1) /\ Redraw(1, <<>>)
      /\ Len(line) \in Nat \ {0}
  BY EmptySeq DEF EraseChar, PromptOK
<1>2. 1 \in 0 .. Len(line) /\ <<>> \in Seq(Typed) /\ 1 \in 1 .. Len(line) + 1
      /\ Len(line) - 1 \in 0 .. Len(line)
  BY <1>1, EmptySeq
<1>3. /\ plain' \in BOOLEAN /\ shown' \in Seq(Typed)
      /\ plain' => shown' = SubSeq(line, 1, Len(line) - 1) \o <<>>
  BY <1>1, <1>2, RedrawFacts
<1>4. SubSeq(line, 1, Len(line) - 1) \in Seq(Typed)
  BY <1>1, <1>2, CutFacts
<1>5. SubSeq(line, 1, Len(line) - 1) \o <<>> = SubSeq(line, 1, Len(line) - 1)
  BY <1>4, ConcatEmptySeq
<1>6. items' = items /\ index' = index
  BY DEF EraseChar
<1>. QED BY <1>1, <1>3, <1>4, <1>5, <1>6 DEF EchoMatches, PromptOK

\* The larger of two integers.
LEMMA LargerFacts ==
    ASSUME NEW a \in Int, NEW b \in Int
    PROVE  Max({a, b}) = IF a >= b THEN a ELSE b
<1>1. \E m \in {a, b} : \A y \in {a, b} : m >= y
  OBVIOUS
<1>2. Max({a, b}) \in {a, b} /\ \A y \in {a, b} : Max({a, b}) >= y
  BY <1>1 DEF Max
<1>. QED BY <1>2

\* Up replaces line and echo by an older command.
LEMMA PrevKeeps ==
    ASSUME PromptOK, EchoMatches, prev
    PROVE  PromptOK' /\ EchoMatches'
<1>1. items \in Seq(Seq(Typed)) /\ Len(items) \in Nat \ {0} /\ index \in -1 .. Len(items) - 1
  BY EmptySeq DEF prev, PromptOK
<1>2. index' = IF index < 0 THEN Len(items) - 1 ELSE Max({0, index - 1})
  BY DEF prev
<1>3. Max({0, index - 1}) = IF 0 >= index - 1 THEN 0 ELSE index - 1
  BY <1>1, LargerFacts
<1>4. index' \in 0 .. Len(items) - 1
  BY <1>1, <1>2, <1>3
<1>5. items[index' + 1] \in Seq(Typed)
  BY <1>1, <1>4
<1>6. /\ line' = items[index' + 1] /\ plain' \in BOOLEAN /\ shown' \in Seq(Typed)
      /\ EchoMatches'
  BY <1>5, LoadFacts DEF prev
<1>7. items' = items
  BY DEF prev
<1>. QED BY <1>1, <1>4, <1>5, <1>6, <1>7 DEF PromptOK

\* Down replaces them by a newer command, or by nothing.
LEMMA NextKeeps ==
    ASSUME PromptOK, EchoMatches, next
    PROVE  PromptOK' /\ EchoMatches'
<1>1. items \in Seq(Seq(Typed)) /\ Len(items) \in Nat /\ index \in -1 .. Len(items) - 1
      /\ items' = items
  BY DEF next, PromptOK
<1>2. CASE index >= 0 /\ index < Len(items) - 1 /\ index' = index + 1 /\ load_line(items[index' + 1])
  <2>1. index' \in 0 .. Len(items) - 1
    BY <1>1, <1>2
  <2>2. items[index' + 1] \in Seq(Typed)
    BY <1>1, <2>1
  <2>3. /\ line' = items[index' + 1] /\ plain' \in BOOLEAN /\ shown' \in Seq(Typed)
        /\ EchoMatches'
    BY <1>2, <2>2, LoadFacts
  <2>. QED BY <1>1, <2>1, <2>2, <2>3 DEF PromptOK
<1>3. CASE index' = -1 /\ load_line(<<>>)
  <2>1. <<>> \in Seq(Typed)
    BY EmptySeq
  <2>2. line' = <<>> /\ plain' \in BOOLEAN /\ shown' \in Seq(Typed) /\ EchoMatches'
    BY <1>3, <2>1, LoadFacts
  <2>. QED BY <1>1, <1>3, <2>1, <2>2 DEF PromptOK
<1>. QED BY <1>2, <1>3 DEF next

\* Every key at the prompt keeps the echo equal to the line.
LEMMA TypingKeeps ==
    ASSUME PromptOK, EchoMatches, typing
    PROVE  PromptOK' /\ EchoMatches'
<1>1. CASE \E c \in Typed : TypeChar(c)
  BY <1>1, TypeCharKeeps
<1>2. CASE Abandon
  BY <1>2, EmptySeq DEF Abandon, NewPrompt, EchoMatches, PromptOK
<1>3. CASE ScrollView
  BY <1>3, EmptySeq DEF ScrollView, EchoMatches, PromptOK
<1>. QED BY <1>1, <1>2, <1>3, EraseCharKeeps, PrevKeeps, NextKeeps DEF typing, Typed

\* A command that runs enters the history, and its oldest entry goes when the
\* history is full; the next prompt starts at its end.
LEMMA RunKeeps ==
    ASSUME PromptOK, push(Trim(line)), NewPrompt
    PROVE  PromptOK' /\ EchoMatches'
<1>1. /\ items \in Seq(Seq(Typed)) /\ Trim(line) \in Seq(Typed) /\ Len(items) <= MaxHistory
      /\ Len(items) \in Nat
  BY TrimFacts DEF PromptOK
<1>2. items' \in Seq(Seq(Typed)) /\ Len(items') <= MaxHistory
  <2>1. CASE items' = items
    BY <1>1, <2>1
  <2>2. CASE Len(items) = MaxHistory /\ items' = Append(Tail(items), Trim(line))
    <3>1. items # <<>>
      BY <2>2, EmptySeq, PromptAssumption
    <3>2. Tail(items) \in Seq(Seq(Typed)) /\ Len(Tail(items)) = Len(items) - 1
      BY <1>1, <3>1, HeadTailProperties
    <3>3. /\ Append(Tail(items), Trim(line)) \in Seq(Seq(Typed))
          /\ Len(Append(Tail(items), Trim(line))) = Len(items) - 1 + 1
      BY <1>1, <3>2, AppendProperties
    <3>. QED BY <1>1, <2>2, <3>3
  <2>3. CASE Len(items) # MaxHistory /\ items' = Append(items, Trim(line))
    BY <1>1, <2>3, AppendProperties, PromptAssumption
  <2>. QED BY <2>1, <2>2, <2>3 DEF push
<1>3. index' = -1 /\ -1 \in -1 .. Len(items') - 1
  BY <1>2 DEF push
<1>4. line' = <<>> /\ shown' = <<>> /\ plain' = TRUE /\ <<>> \in Seq(Typed)
  BY EmptySeq DEF NewPrompt
<1>. QED BY <1>2, <1>3, <1>4 DEF EchoMatches, PromptOK

-----------------------------------------------------------------------------
(***************************************************************************)
(* The files and the editor.                                               *)
(***************************************************************************)

\* RamFs::write keeps the map well formed.
LEMMA WriteKeeps ==
    ASSUME FilesOK, NEW p, NEW d \in Seq(Chars), write(p, d)
    PROVE  FilesOK'
BY DEF write, Valid, FilesOK

\* A command leaves well-formed files.
LEMMA DispatchKeeps ==
    ASSUME FilesOK, NEW c \in Commands, dispatch(c)
    PROVE  FilesOK'
<1>1. CASE c.op = "touch" /\ cmd_touch(c.src)
  <2>1. <<>> \in Seq(Chars)
    BY EmptySeq
  <2>2. CASE UNCHANGED files
    BY <2>2 DEF FilesOK
  <2>3. CASE write(c.src, <<>>)
    BY <2>1, <2>3, WriteKeeps
  <2>. QED BY <1>1, <2>2, <2>3 DEF cmd_touch
<1>2. CASE c.op = "write" /\ cmd_write(c.src, c.content)
  <2>1. c.content \in Contents
    BY <1>2 DEF Commands
  <2>2. c.content \in Seq(Letters)
    BY <2>1, EditorAssumption
  <2>3. c.content \in Seq(Chars)
    BY <2>2 DEF Chars
  <2>. QED BY <1>2, <2>3, WriteKeeps DEF cmd_write
<1>3. CASE c.op = "cat" /\ cmd_cat(c.src)
  BY <1>3 DEF cmd_cat, FilesOK
<1>4. CASE c.op = "rm" /\ cmd_rm(c.src)
  BY <1>4 DEF cmd_rm, delete, FilesOK
<1>5. CASE c.op = "cp" /\ cmd_cp(c.src, c.dst)
  <2>1. CASE UNCHANGED files
    BY <2>1 DEF FilesOK
  <2>2. CASE Stored(c.src) /\ write(c.dst, files[c.src])
    <3>1. files[c.src] \in Seq(Chars)
      BY <2>2 DEF Stored, FilesOK
    <3>. QED BY <2>2, <3>1, WriteKeeps
  <2>. QED BY <1>5, <2>1, <2>2 DEF cmd_cp
<1>6. CASE c.op = "mv" /\ cmd_mv(c.src, c.dst)
  <2>1. CASE files' = files
    BY <2>1 DEF FilesOK
  <2>2. CASE Stored(c.src) /\ Valid(c.dst)
    <3>1. files' = delete([f \in DOMAIN files \cup {c.dst} |->
                              IF f = c.dst THEN files[c.src] ELSE files[f]], c.src)
      BY <1>6, <2>2 DEF cmd_mv
    <3>2. c.dst \in Names /\ files[c.src] \in Seq(Chars)
      BY <2>2 DEF Stored, Valid, FilesOK
    <3>. QED BY <3>1, <3>2 DEF delete, FilesOK
  <2>. QED BY <1>6, <2>1, <2>2 DEF cmd_mv
<1>. QED BY <1>1, <1>2, <1>3, <1>4, <1>5, <1>6 DEF dispatch

\* The text the editor starts from is a text.
LEMMA OpenedFacts ==
    ASSUME FilesOK, NEW p
    PROVE  Opened(p) \in Seq(Chars)
<1>1. CASE ~Stored(p)
  BY <1>1, EmptySeq DEF Opened
<1>2. CASE Stored(p)
  <2>1. files[p] \in Seq(Chars) /\ NL \in Chars
    BY <1>2 DEF Stored, FilesOK, Chars
  <2>2. Append(files[p], NL) \in Seq(Chars)
    BY <2>1, AppendProperties
  <2>. QED BY <1>2, <2>1, <2>2 DEF Opened
<1>. QED BY <1>1, <1>2

\* Ctrl+S: the file, if it has a name, holds the text afterwards.
LEMMA SaveKeeps ==
    ASSUME FilesOK, EditorOK, save, mode' = mode
    PROVE  FilesOK' /\ EditorOK' /\ CleanMeansStored'
<1>1. write(path, buffer) /\ path' = path /\ buffer' = buffer /\ cursor' = cursor
  BY DEF save
<1>2. FilesOK' /\ EditorOK'
  BY <1>1, WriteKeeps DEF EditorOK
<1>3. Valid(path') => Stored(path)' /\ files'[path'] = buffer'
  BY <1>1 DEF write, Valid, Stored
<1>. QED BY <1>2, <1>3 DEF CleanMeansStored

\* An arrow key moves only the hardware cursor.
LEMMA MoveKeeps ==
    ASSUME FilesOK, EditorOK, CleanMeansStored, mode' = mode, NEW r, NEW c, MoveTo(r, c)
    PROVE  FilesOK' /\ EditorOK' /\ CleanMeansStored'
<1>1. files' = files /\ path' = path /\ buffer' = buffer /\ cursor' = cursor /\ dirty' = dirty
  BY DEF MoveTo
<1>2. Opened(path)' = Opened(path)
  BY <1>1 DEF Opened, Stored
<1>3. CleanMeansStored'
  BY <1>1, <1>2 DEF CleanMeansStored, Stored
<1>. QED BY <1>1, <1>3 DEF FilesOK, EditorOK

\* What every edit ends with.
LEMMA EditedKeeps ==
    ASSUME FilesOK, EditorOK, NEW text \in Seq(Chars), NEW offset \in Nat, offset <= Len(text),
           Edited(text, offset)
    PROVE  FilesOK' /\ EditorOK' /\ CleanMeansStored'
<1>1. /\ buffer' = text /\ cursor' = offset /\ dirty' = TRUE
      /\ files' = files /\ path' = path
  BY DEF Edited
<1>. QED BY <1>1 DEF CleanMeansStored, FilesOK, EditorOK

\* Backspace in the editor marks the text as changed.
LEMMA BackspaceKeeps ==
    ASSUME FilesOK, EditorOK, backspace
    PROVE  FilesOK' /\ EditorOK' /\ CleanMeansStored'
<1>. DEFINE front == SubSeq(buffer, 1, cursor - 1)
            rear == SubSeq(buffer, cursor + 1, Len(buffer))
<1>1. /\ buffer \in Seq(Chars) /\ Len(buffer) \in Nat /\ cursor \in 1 .. Len(buffer)
      /\ Edited(front \o rear, cursor - 1)
  BY DEF backspace, EditorOK
<1>2. /\ 1 \in 1 .. Len(buffer) + 1 /\ cursor - 1 \in 0 .. Len(buffer)
      /\ cursor + 1 \in 1 .. Len(buffer) + 1 /\ Len(buffer) \in 0 .. Len(buffer)
  BY <1>1
<1>3. front \in Seq(Chars) /\ Len(front) = IF 1 <= cursor - 1 THEN cursor - 1 - 1 + 1 ELSE 0
  BY <1>1, <1>2, CutFacts
<1>4. rear \in Seq(Chars)
  BY <1>1, <1>2, CutFacts
<1>. HIDE DEF front, rear
<1>5. front \o rear \in Seq(Chars) /\ Len(front \o rear) = Len(front) + Len(rear)
  BY <1>3, <1>4, ConcatProperties
<1>6. cursor - 1 \in Nat /\ cursor - 1 <= Len(front \o rear)
  BY <1>1, <1>3, <1>4, <1>5
<1>. QED BY <1>1, <1>5, <1>6, EditedKeeps

\* So does a character.
LEMMA InsertKeeps ==
    ASSUME FilesOK, EditorOK, NEW c \in Chars, insert(c)
    PROVE  FilesOK' /\ EditorOK' /\ CleanMeansStored'
<1>. DEFINE front == SubSeq(buffer, 1, cursor)
            rear == SubSeq(buffer, cursor + 1, Len(buffer))
<1>1. /\ buffer \in Seq(Chars) /\ Len(buffer) \in Nat /\ cursor \in 0 .. Len(buffer)
      /\ Edited(front \o <<c>> \o rear, cursor + 1)
  BY DEF insert, EditorOK
<1>2. /\ 1 \in 1 .. Len(buffer) + 1
      /\ cursor + 1 \in 1 .. Len(buffer) + 1 /\ Len(buffer) \in 0 .. Len(buffer)
  BY <1>1
<1>3. front \in Seq(Chars) /\ Len(front) = IF 1 <= cursor THEN cursor - 1 + 1 ELSE 0
  BY <1>1, <1>2, CutFacts
<1>4. rear \in Seq(Chars)
  BY <1>1, <1>2, CutFacts
<1>. HIDE DEF front, rear
<1>5. <<c>> \in Seq(Chars) /\ Len(<<c>>) = 1
  OBVIOUS
<1>6. front \o <<c>> \in Seq(Chars) /\ Len(front \o <<c>>) = Len(front) + Len(<<c>>)
  BY <1>3, <1>5, ConcatProperties
<1>7. /\ front \o <<c>> \o rear \in Seq(Chars)
      /\ Len(front \o <<c>> \o rear) = Len(front \o <<c>>) + Len(rear)
  BY <1>4, <1>6, ConcatProperties
<1>8. cursor + 1 \in Nat /\ cursor + 1 <= Len(front \o <<c>> \o rear)
  <2>1. Len(front) = cursor /\ Len(rear) \in Nat
    BY <1>1, <1>3, <1>4
  <2>. QED BY <1>1, <1>5, <1>6, <1>7, <2>1
<1>. QED BY <1>1, <1>7, <1>8, EditedKeeps

\* Every key of the editor keeps a text that is marked clean equal to its file.
LEMMA EditKeeps ==
    ASSUME FilesOK, EditorOK, CleanMeansStored, edit, mode' = mode
    PROVE  FilesOK' /\ EditorOK' /\ CleanMeansStored'
<1>1. CASE up \/ down \/ left \/ right
  <2>1. \E r, c : MoveTo(r, c)
    BY <1>1 DEF up, down, left, right
  <2>. QED BY <2>1, MoveKeeps
<1>2. CASE \E c \in Chars : insert(c)
  BY <1>2, InsertKeeps
<1>. QED BY <1>1, <1>2, SaveKeeps, BackspaceKeeps DEF edit, Chars

-----------------------------------------------------------------------------
(***************************************************************************)
(* The shell.                                                              *)
(***************************************************************************)

\* The invariant holds when the shell starts.
LEMMA ShellInit == Init => ShellInv
<1>. SUFFICES ASSUME Init  PROVE ShellInv
  OBVIOUS
<1>. USE DEF Init
<1>1. FilesOK
  BY DEF InitFiles, FilesOK
<1>2. EditorOK
  BY EmptySeq DEF InitEditor, EditorOK, Words
<1>3. PromptOK /\ EchoMatches
  BY EmptySeq, PromptAssumption DEF InitPrompt, PromptOK, EchoMatches
<1>4. CleanMeansStored
  BY DEF CleanMeansStored
<1>. QED BY <1>1, <1>2, <1>3, <1>4 DEF ShellInv

\* Every key preserves the invariant.
LEMMA ShellNext == ShellInv /\ [Next]_vars => ShellInv'
<1>. SUFFICES ASSUME ShellInv, [Next]_vars  PROVE ShellInv'
  OBVIOUS
<1>. USE DEF ShellInv
<1>1. CASE AtPrompt
  <2>1. PromptOK' /\ EchoMatches'
    BY <1>1, TypingKeeps DEF AtPrompt
  <2>2. FilesOK' /\ EditorOK' /\ CleanMeansStored'
    BY <1>1 DEF AtPrompt, edVars, FilesOK, EditorOK, CleanMeansStored
  <2>. QED BY <2>1, <2>2
<1>2. ASSUME NEW c \in Commands, Run(c)  PROVE ShellInv'
  <2>1. PromptOK' /\ EchoMatches'
    BY <1>2, RunKeeps DEF Run
  <2>2. CASE dispatch(c) /\ UNCHANGED <<edVars, mode>>
    <3>1. FilesOK'
      BY <2>2, DispatchKeeps
    <3>2. EditorOK' /\ CleanMeansStored'
      BY <1>2, <2>2 DEF Run, edVars, EditorOK, CleanMeansStored
    <3>. QED BY <2>1, <3>1, <3>2
  <2>3. CASE c.op = "edit" /\ open(c.src) /\ mode' = "editor"
    <3>1. /\ path' = c.src /\ buffer' = Opened(c.src) /\ cursor' = Len(Opened(c.src))
          /\ files' = files
      BY <2>3 DEF open
    <3>2. c.src \in Words
      BY <2>3 DEF Commands
    <3>3. Opened(c.src) \in Seq(Chars)
      BY OpenedFacts
    <3>4. FilesOK' /\ EditorOK'
      BY <3>1, <3>2, <3>3 DEF FilesOK, EditorOK
    <3>5. CleanMeansStored'
      <4>1. Opened(path)' = Opened(c.src)
        BY <3>1 DEF Opened, Stored
      <4>. QED BY <3>1, <4>1 DEF CleanMeansStored
    <3>. QED BY <2>1, <3>4, <3>5
  <2>. QED BY <1>2, <2>2, <2>3 DEF Run
<1>3. CASE InEditor
  <2>1. FilesOK' /\ EditorOK' /\ CleanMeansStored'
    BY <1>3, EditKeeps DEF InEditor
  <2>2. PromptOK' /\ EchoMatches'
    BY <1>3 DEF InEditor, promptVars, PromptOK, EchoMatches
  <2>. QED BY <2>1, <2>2
<1>4. CASE Escape
  <2>1. FilesOK' /\ CleanMeansStored'
    BY <1>4 DEF Escape, FilesOK, CleanMeansStored
  <2>2. EditorOK'
    BY <1>4, EmptySeq DEF Escape, EditorOK, Words
  <2>3. PromptOK' /\ EchoMatches'
    BY <1>4 DEF Escape, promptVars, PromptOK, EchoMatches
  <2>. QED BY <2>1, <2>2, <2>3
<1>5. CASE UNCHANGED vars
  <2>1. /\ UNCHANGED <<files, path, buffer, cursor, dirty, mode>>
        /\ UNCHANGED <<items, index, line, shown, plain>>
    BY <1>5 DEF vars, edVars, promptVars
  <2>2. FilesOK' /\ EditorOK' /\ PromptOK' /\ EchoMatches'
    BY <2>1 DEF FilesOK, EditorOK, PromptOK, EchoMatches
  <2>3. CleanMeansStored'
    BY <2>1 DEF CleanMeansStored, Opened, Stored
  <2>. QED BY <2>2, <2>3
<1>. QED BY <1>1, <1>2, <1>3, <1>4, <1>5 DEF Next

\* Every state of the shell loop satisfies the inductive invariant.
THEOREM ShellInvariant == Spec => []ShellInv
BY ShellInit, ShellNext, PTL DEF Spec

\* The history index and the insertion offset never leave their range: no
\* sequence of arrows, Ctrl+C, commands and edits makes History::prev, next,
\* String::insert or remove panic.
THEOREM IndicesInRange == Spec => []NoPanic
<1>1. ShellInv => NoPanic
  BY DEF ShellInv, PromptOK, EditorOK, NoPanic
<1>. QED BY <1>1, ShellInvariant, PTL

\* What is shown after the prompt is the line Enter runs, for every length of
\* the lines recalled from the history.
THEOREM EchoIsLine == Spec => []EchoMatches
<1>1. ShellInv => EchoMatches
  BY DEF ShellInv
<1>. QED BY <1>1, ShellInvariant, PTL

\* While the editor's dirty flag is clear, closing it with Escape loses nothing.
THEOREM CleanIsStored == Spec => []CleanMeansStored
<1>1. ShellInv => CleanMeansStored
  BY DEF ShellInv
<1>. QED BY <1>1, ShellInvariant, PTL

-----------------------------------------------------------------------------
(***************************************************************************)
(* What commands and edits do to the files.                                *)
(***************************************************************************)

\* The files, other than those a command overwrites, keep their contents
\* somewhere; only mv gives them another name.
LEMMA DispatchLoses ==
    ASSUME NEW c, dispatch(c), NEW f \in DOMAIN files \ Overwritten(c)
    PROVE  \E g \in DOMAIN files' : files'[g] = files[f]
<1>1. CASE c.op = "touch" /\ cmd_touch(c.src)
  <2>1. CASE UNCHANGED files
    BY <2>1
  <2>2. CASE ~Stored(c.src) /\ write(c.src, <<>>)
    BY <2>2 DEF Stored, write
  <2>. QED BY <1>1, <2>1, <2>2 DEF cmd_touch
<1>2. CASE c.op = "write" /\ cmd_write(c.src, c.content)
  <2>1. f # c.src
    BY <1>2 DEF Overwritten
  <2>. QED BY <1>2, <2>1 DEF cmd_write, write
<1>3. CASE c.op = "cat" /\ cmd_cat(c.src)
  BY <1>3 DEF cmd_cat
<1>4. CASE c.op = "rm" /\ cmd_rm(c.src)
  <2>1. f # c.src
    BY <1>4 DEF Overwritten
  <2>. QED BY <1>4, <2>1 DEF cmd_rm, delete
<1>5. CASE c.op = "cp" /\ cmd_cp(c.src, c.dst)
  <2>1. f # c.dst
    BY <1>5 DEF Overwritten
  <2>. QED BY <1>5, <2>1 DEF cmd_cp, write
<1>6. CASE c.op = "mv" /\ cmd_mv(c.src, c.dst)
  <2>1. f # c.dst
    BY <1>6 DEF Overwritten
  <2>2. CASE f # c.src
    BY <1>6, <2>1, <2>2 DEF cmd_mv, delete
  <2>3. CASE f = c.src
    <3>1. CASE files' = files
      BY <3>1
    <3>2. CASE Stored(c.src) /\ Valid(c.dst)
      <4>1. files' = delete([g \in DOMAIN files \cup {c.dst} |->
                                IF g = c.dst THEN files[c.src] ELSE files[g]], c.src)
        BY <1>6, <3>2 DEF cmd_mv
      <4>2. c.dst \in DOMAIN files' /\ files'[c.dst] = files[c.src]
        BY <2>1, <2>3, <4>1 DEF delete
      <4>. QED BY <2>3, <4>2
    <3>. QED BY <1>6, <3>1, <3>2 DEF cmd_mv
  <2>. QED BY <2>2, <2>3
<1>. QED BY <1>1, <1>2, <1>3, <1>4, <1>5, <1>6 DEF dispatch

\* A key in the editor leaves the other files alone.
LEMMA EditLeaves ==
    ASSUME edit, NEW f \in DOMAIN files \ {path}
    PROVE  f \in DOMAIN files' /\ files'[f] = files[f]
<1>1. CASE save
  BY <1>1 DEF save, write
<1>2. CASE UNCHANGED files
  BY <1>2
<1>3. ASSUME ~save  PROVE UNCHANGED files
  BY <1>3 DEF edit, up, down, left, right, MoveTo, backspace, insert, Edited
<1>. QED BY <1>1, <1>2, <1>3

\* NothingLost as a predicate on one step.
KeepsContents ==
    /\ files' # files => \A c \in Commands : Run(c) =>
         \A f \in DOMAIN files \ Overwritten(c) :
             \E g \in DOMAIN files' : files'[g] = files[f]
    /\ mode = "editor" =>
         \A f \in DOMAIN files \ {path} : f \in DOMAIN files' /\ files'[f] = files[f]

\* No command does away with the contents of a file that it does not remove,
\* write, copy or move over, and the editor changes only the file it edits.
THEOREM ContentsKept == Spec => NothingLost
<1>1. ASSUME [Next]_vars  PROVE [KeepsContents]_vars
  <2>1. ASSUME Next  PROVE KeepsContents
    <3>1. ASSUME files' # files, NEW c \in Commands, Run(c),
                 NEW f \in DOMAIN files \ Overwritten(c)
          PROVE  \E g \in DOMAIN files' : files'[g] = files[f]
      <4>1. dispatch(c)
        BY <3>1 DEF Run, open
      <4>. QED BY <4>1, DispatchLoses
    <3>2. ASSUME mode = "editor", NEW f \in DOMAIN files \ {path}
          PROVE  f \in DOMAIN files' /\ files'[f] = files[f]
      <4>1. CASE InEditor
        BY <4>1, EditLeaves DEF InEditor
      <4>2. CASE Escape
        BY <4>2 DEF Escape
      <4>. QED BY <2>1, <3>2, <4>1, <4>2 DEF Next, AtPrompt, Run
    <3>. QED BY <3>1, <3>2 DEF KeepsContents
  <2>. QED BY <1>1, <2>1
<1>2. Spec => [][KeepsContents]_vars
  BY <1>1, PTL DEF Spec
<1>. QED BY <1>2 DEF NothingLost, KeepsContents

-----------------------------------------------------------------------------
(***************************************************************************)
(* The calculator.  tokenize, shunting_yard and eval_rpn each read a       *)
(* sequence from left to right; Takes says that one of them gets from one  *)
(* state to another by reading s.                                          *)
(***************************************************************************)
Reader(kind, st, x) ==
    CASE kind = "tokenize" -> Tokenize1(st, x)
      [] kind = "yard" -> Yard1(st, x)
      [] kind = "rpn" -> Rpn1(st, x)

Takes(kind, a, s, b) ==
    \E f : /\ f[0] = a /\ f[Len(s)] = b
           /\ \A k \in 1 .. Len(s) : f[k] = Reader(kind, f[k - 1], s[k])

\* The three readers, by name.
LEMMA Readers ==
    ASSUME NEW st, NEW x
    PROVE  /\ Reader("tokenize", st, x) = Tokenize1(st, x)
           /\ Reader("yard", st, x) = Yard1(st, x)
           /\ Reader("rpn", st, x) = Rpn1(st, x)
  BY DEF Reader

\* Reading one element.
LEMMA TakesOne ==
    ASSUME NEW kind, NEW a, NEW x
    PROVE  Takes(kind, a, <<x>>, Reader(kind, a, x))
<1>. DEFINE f == [k \in 0 .. 1 |-> IF k = 0 THEN a ELSE Reader(kind, a, x)]
<1>1. Len(<<x>>) = 1 /\ <<x>>[1] = x
  OBVIOUS
<1>2. f[0] = a /\ f[1] = Reader(kind, a, x)
  OBVIOUS
<1>3. ASSUME NEW k \in 1 .. Len(<<x>>)
      PROVE  f[k] = Reader(kind, f[k - 1], <<x>>[k])
  <2>1. k = 1 /\ k - 1 = 0
    BY <1>1
  <2>. HIDE DEF f
  <2>. QED BY <1>1, <1>2, <2>1
<1>. HIDE DEF f
<1>. QED BY <1>1, <1>2, <1>3 DEF Takes

\* Reading one sequence and then another.
LEMMA TakesBoth ==
    ASSUME NEW kind, NEW a, NEW b, NEW c, NEW S, NEW s \in Seq(S), NEW t \in Seq(S),
           Takes(kind, a, s, b), Takes(kind, b, t, c)
    PROVE  Takes(kind, a, s \o t, c)
<1>1. PICK f : /\ f[0] = a /\ f[Len(s)] = b
               /\ \A k \in 1 .. Len(s) : f[k] = Reader(kind, f[k - 1], s[k])
  BY DEF Takes
<1>2. PICK g : /\ g[0] = b /\ g[Len(t)] = c
               /\ \A k \in 1 .. Len(t) : g[k] = Reader(kind, g[k - 1], t[k])
  BY DEF Takes
<1>3. PICK m \in Nat, n \in Nat : m = Len(s) /\ n = Len(t)
  OBVIOUS
<1>4. /\ Len(s \o t) = m + n
      /\ \A k \in 1 .. m : (s \o t)[k] = s[k]
      /\ \A k \in m + 1 .. m + n : (s \o t)[k] = t[k - m]
  <2>1. /\ Len(s \o t) = m + n
        /\ \A k \in 1 .. m + n : (s \o t)[k] = IF k <= m THEN s[k] ELSE t[k - m]
    BY <1>3, ConcatProperties
  <2>. QED BY <2>1
<1>. DEFINE h == [k \in 0 .. m + n |-> IF k <= m THEN f[k] ELSE g[k - m]]
<1>5. \A k \in 0 .. m : h[k] = f[k]
  OBVIOUS
<1>6. ASSUME NEW k \in m .. m + n  PROVE h[k] = g[k - m]
  <2>1. CASE k = m
    <3>1. k - m = 0 /\ k \in 0 .. m
      BY <2>1
    <3>. QED BY <1>1, <1>2, <1>3, <1>5, <2>1, <3>1
  <2>2. CASE k # m
    BY <2>2
  <2>. QED BY <2>1, <2>2
<1>. HIDE DEF h
<1>7. h[0] = a /\ h[m + n] = c
  <2>1. 0 \in 0 .. m /\ m + n \in m .. m + n /\ (m + n) - m = n
    OBVIOUS
  <2>2. h[0] = f[0]
    BY <1>5, <2>1
  <2>3. h[m + n] = g[n]
    BY <1>6, <2>1
  <2>. QED BY <1>1, <1>2, <1>3, <2>2, <2>3
<1>8. ASSUME NEW k \in 1 .. m + n
      PROVE  h[k] = Reader(kind, h[k - 1], (s \o t)[k])
  <2>1. CASE k <= m
    <3>1. k \in 1 .. m /\ k \in 0 .. m /\ k - 1 \in 0 .. m
      BY <2>1
    <3>2. h[k] = f[k] /\ h[k - 1] = f[k - 1] /\ (s \o t)[k] = s[k]
      BY <1>4, <1>5, <3>1
    <3>. QED BY <1>1, <1>3, <3>1, <3>2
  <2>2. CASE k > m
    <3>1. /\ k \in m + 1 .. m + n /\ k \in m .. m + n /\ k - 1 \in m .. m + n
          /\ k - m \in 1 .. n /\ (k - 1) - m = (k - m) - 1
      BY <2>2
    <3>2. h[k] = g[k - m] /\ h[k - 1] = g[(k - m) - 1] /\ (s \o t)[k] = t[k - m]
      BY <1>4, <1>6, <3>1
    <3>. QED BY <1>2, <1>3, <3>1, <3>2
  <2>3. k <= m \/ k > m
    OBVIOUS
  <2>. QED BY <2>1, <2>2, <2>3
<1>. QED BY <1>4, <1>7, <1>8 DEF Takes

\* Functions that follow a reader along s exist, and all of them lead where
\* Takes does.
IsRun(kind, g, a, s) ==
    g = [k \in 0 .. Len(s) |-> IF k = 0 THEN a ELSE Reader(kind, g[k - 1], s[k])]

\* Both facts, the second by induction on the element read.
LEMMA TakesMeans ==
    ASSUME NEW kind, NEW a, NEW b, NEW S, NEW s \in Seq(S), Takes(kind, a, s, b)
    PROVE  /\ \E g : IsRun(kind, g, a, s)
           /\ \A g : IsRun(kind, g, a, s) => g[Len(s)] = b
<1>1. PICK f : /\ f[0] = a /\ f[Len(s)] = b
               /\ \A k \in 1 .. Len(s) : f[k] = Reader(kind, f[k - 1], s[k])
  BY DEF Takes
<1>2. PICK n \in Nat : n = Len(s)
  OBVIOUS
<1>. DEFINE r == [k \in 0 .. n |-> f[k]]
<1>3. IsRun(kind, r, a, s)
  <2>1. ASSUME NEW k \in 0 .. n
        PROVE  r[k] = IF k = 0 THEN a ELSE Reader(kind, r[k - 1], s[k])
    <3>1. CASE k = 0
      BY <1>1, <3>1
    <3>2. CASE k # 0
      <4>1. k \in 1 .. n /\ k - 1 \in 0 .. n
        BY <3>2
      <4>2. r[k] = f[k] /\ r[k - 1] = f[k - 1]
        BY <4>1
      <4>. HIDE DEF r
      <4>. QED BY <1>1, <1>2, <3>2, <4>1, <4>2
    <3>. QED BY <3>1, <3>2
  <2>2. r = [k \in 0 .. n |-> r[k]]
    OBVIOUS
  <2>. HIDE DEF r
  <2>. QED BY <1>2, <2>1, <2>2 DEF IsRun
<1>. HIDE DEF r
<1>4. ASSUME NEW g, IsRun(kind, g, a, s)  PROVE g[Len(s)] = b
  <2>1. ASSUME NEW k \in 0 .. n
        PROVE  g[k] = IF k = 0 THEN a ELSE Reader(kind, g[k - 1], s[k])
    BY <1>2, <1>4 DEF IsRun
  <2>. DEFINE T == {k \in 0 .. n : g[k] # f[k]}
  <2>2. SUFFICES ASSUME T # {}  PROVE FALSE
    <3>1. n \in 0 .. n
      OBVIOUS
    <3>. QED BY <1>1, <1>2, <3>1
  <2>3. PICK m \in T : \A y \in T : m <= y
    <3>1. T \in SUBSET Nat
      OBVIOUS
    <3>. HIDE DEF T
    <3>. QED BY <2>2, <3>1, LeastNatural
  <2>4. m \in 0 .. n /\ g[m] # f[m]
    OBVIOUS
  <2>5. CASE m = 0
    BY <1>1, <2>1, <2>4, <2>5
  <2>6. CASE m # 0
    <3>1. m \in 1 .. n /\ m - 1 \in 0 .. n /\ ~(m <= m - 1)
      BY <2>4, <2>6
    <3>2. m - 1 \notin T
      BY <2>3, <3>1
    <3>3. g[m - 1] = f[m - 1]
      BY <3>1, <3>2
    <3>. QED BY <1>1, <1>2, <2>1, <2>4, <2>6, <3>1, <3>3
  <2>. QED BY <2>5, <2>6
<1>. QED BY <1>3, <1>4

\* Two elements, one behind the other.
LEMMA Pair == ASSUME NEW S, NEW x \in S, NEW y \in S  PROVE  <<x, y>> = <<x>> \o <<y>>
<1>1. /\ <<x, y>> \in Seq(S) /\ Len(<<x, y>>) = 2 /\ <<x, y>>[1] = x /\ <<x, y>>[2] = y
      /\ <<x>> \in Seq(S) /\ Len(<<x>>) = 1 /\ <<x>>[1] = x
      /\ <<y>> \in Seq(S) /\ Len(<<y>>) = 1 /\ <<y>>[1] = y
  OBVIOUS
<1>2. PICK p, q : p = <<x>> /\ q = <<y>>
  OBVIOUS
<1>3. PICK s \in Seq(S), t \in Seq(S) : s = <<x, y>> /\ t = p \o q
  BY <1>1, <1>2, ConcatProperties
<1>4. /\ Len(t) = 2
      /\ \A i \in 1 .. 2 : t[i] = IF i <= 1 THEN p[i] ELSE q[i - 1]
  <2>1. p \in Seq(S) /\ q \in Seq(S) /\ Len(p) = 1 /\ Len(q) = 1
    BY <1>1, <1>2
  <2>. QED BY <1>3, <2>1, ConcatProperties
<1>5. t[1] = x /\ t[2] = y
  <2>1. p[1] = x /\ q[1] = y
    BY <1>1, <1>2
  <2>2. t[1] = p[1] /\ t[2] = q[1]
    BY <1>4
  <2>. QED BY <2>1, <2>2
<1>6. Len(s) = Len(t) /\ s[1] = t[1] /\ s[2] = t[2] /\ Len(s) = 2
  BY <1>1, <1>3, <1>4, <1>5
<1>7. s = t
  <2>1. ASSUME NEW i \in 1 .. Len(s)  PROVE s[i] = t[i]
    <3>1. i = 1 \/ i = 2
      BY <1>6
    <3>. QED BY <1>6, <3>1
  <2>. QED BY <1>6, <2>1, SeqEqual
<1>. QED BY <1>2, <1>3, <1>7

\* The last element is the one that was appended.
LEMMA LastAppended ==
    ASSUME NEW S, NEW s \in Seq(S), NEW x \in S
    PROVE  /\ Append(s, x) \in Seq(S) /\ Append(s, x) # <<>> /\ Last(Append(s, x)) = x
  BY AppendProperties DEF Last

\* The last element of two sequences is that of the second.
LEMMA LastJoined ==
    ASSUME NEW S, NEW s \in Seq(S), NEW t \in Seq(S), t # <<>>
    PROVE  s \o t \in Seq(S) /\ s \o t # <<>> /\ Last(s \o t) = Last(t)
<1>1. PICK m \in Nat, n \in Nat : m = Len(s) /\ n = Len(t) /\ n # 0
  BY EmptySeq
<1>2. /\ s \o t \in Seq(S) /\ Len(s \o t) = m + n
      /\ \A i \in 1 .. m + n : (s \o t)[i] = IF i <= m THEN s[i] ELSE t[i - m]
  BY <1>1, ConcatProperties
<1>3. m + n \in 1 .. m + n /\ ~(m + n <= m) /\ (m + n) - m = n /\ m + n # 0
  BY <1>1
<1>4. (s \o t)[m + n] = t[n]
  BY <1>2, <1>3
<1>. QED BY <1>1, <1>2, <1>3, <1>4 DEF Last

-----------------------------------------------------------------------------
(***************************************************************************)
(* tokenize.  Characters chars give the tokens T, and a bad number if b,   *)
(* wherever an operand may begin.                                          *)
(***************************************************************************)
Symbols == {Sign(s) : s \in Ops \cup {" ", "(", ")"}} \cup {Digit(d) : d \in 0 .. 9}
Tokens == {Num(n) : n \in Int} \cup {Op(o) : o \in Ops} \cup {LParen, RParen}

Between(out, bad) == [out |-> out, lit |-> NoLiteral, bad |-> bad]

Reads(chars, T, b) ==
    \A out \in Seq(Tokens), bad \in BOOLEAN : StartsNumber(out) =>
        \E st : /\ Takes("tokenize", Between(out, bad), chars, st)
                /\ Finish(st) = Between(out \o T, bad \/ b)

\* What the tokens are made of.
LEMMA TokenKinds ==
    /\ \A n \in Int : Num(n) \in Tokens /\ Num(n).t = "num" /\ Num(n).n = n
    /\ \A o \in Ops : Op(o) \in Tokens /\ Op(o).t = "op" /\ Op(o).op = o
    /\ LParen \in Tokens /\ LParen.t = "(" /\ RParen \in Tokens /\ RParen.t = ")"
<1>1. \A n \in Int : Num(n) \in Tokens /\ Num(n).t = "num" /\ Num(n).n = n
  BY DEF Tokens, Num
<1>2. \A o \in Ops : Op(o) \in Tokens /\ Op(o).t = "op" /\ Op(o).op = o
  BY DEF Tokens, Op
<1>3. LParen \in Tokens /\ LParen.t = "(" /\ RParen \in Tokens /\ RParen.t = ")"
  BY DEF Tokens, LParen, RParen
<1>. QED BY <1>1, <1>2, <1>3

\* Between two tokens there is nothing to finish.
LEMMA FinishBetween == ASSUME NEW out, NEW bad  PROVE  Finish(Between(out, bad)) = Between(out, bad)
  BY DEF Finish, Between, NoLiteral

\* After a minus that begins a number.
AfterMinus(out, bad) ==
    [out |-> out, lit |-> [open |-> TRUE, neg |-> TRUE, digits |-> <<>>], bad |-> bad]

\* What a character that is no digit does: it ends a number, and then it stands
\* for itself, but for a minus where an operand may begin.
SignIs(s, out, bad) ==
    CASE s = " " -> Between(out, bad)
      [] s = "-" /\ StartsNumber(out) -> AfterMinus(out, bad)
      [] s \in Ops /\ ~(s = "-" /\ StartsNumber(out)) -> Between(Append(out, Op(s)), bad)
      [] s = "(" -> Between(Append(out, LParen), bad)
      [] s = ")" -> Between(Append(out, RParen), bad)

\* That is what reading it does, whatever was being read before.
LEMMA SignRead ==
    ASSUME NEW st, NEW out, NEW bad, Finish(st) = Between(out, bad), NEW s
    PROVE  Tokenize1(st, Sign(s)) = SignIs(s, out, bad)
<1>. DEFINE f == Between(out, bad)
            minus == [open |-> TRUE, neg |-> TRUE, digits |-> <<>>]
<1>1. /\ f.out = out
      /\ [f EXCEPT !.lit = minus] = AfterMinus(out, bad)
      /\ \A x : [f EXCEPT !.out = Append(@, x)] = Between(Append(out, x), bad)
  <2>1. f.out = out
    BY DEF Between
  <2>2. ASSUME NEW l  PROVE [f EXCEPT !.lit = l] = [out |-> out, lit |-> l, bad |-> bad]
    BY DEF Between
  <2>3. ASSUME NEW x  PROVE [f EXCEPT !.out = x] = Between(x, bad)
    BY DEF Between
  <2>4. ASSUME NEW x  PROVE [f EXCEPT !.out = Append(@, x)] = Between(Append(out, x), bad)
    <3>1. [f EXCEPT !.out = Append(@, x)] = [f EXCEPT !.out = Append(out, x)]
      BY <2>1
    <3>. HIDE DEF f
    <3>. QED BY <2>3, <3>1
  <2>5. AfterMinus(out, bad) = [out |-> out, lit |-> minus, bad |-> bad]
    BY DEF AfterMinus
  <2>. HIDE DEF f, minus
  <2>. QED BY <2>1, <2>2, <2>4, <2>5
<1>2. Sign(s).t = "sign" /\ Sign(s).s = s
  BY DEF Sign
<1>. HIDE DEF f
<1>3. Finish(st) = f
  BY DEF f
<1>4. Tokenize1(st, Sign(s)) =
        CASE s = " " -> f
          [] s = "-" /\ StartsNumber(out) -> [f EXCEPT !.lit = minus]
          [] s \in Ops /\ ~(s = "-" /\ StartsNumber(out)) -> [f EXCEPT !.out = Append(@, Op(s))]
          [] s = "(" -> [f EXCEPT !.out = Append(@, LParen)]
          [] s = ")" -> [f EXCEPT !.out = Append(@, RParen)]
  BY <1>1, <1>2, <1>3 DEF Tokenize1
<1>. HIDE DEF minus
<1>. QED BY <1>1, <1>4 DEF SignIs, f

\* The same without the CASE.
LEMMA SignCases ==
    ASSUME NEW out, NEW bad
    PROVE  /\ SignIs(" ", out, bad) = Between(out, bad)
           /\ SignIs("(", out, bad) = Between(Append(out, LParen), bad)
           /\ SignIs(")", out, bad) = Between(Append(out, RParen), bad)
           /\ StartsNumber(out) => SignIs("-", out, bad) = AfterMinus(out, bad)
           /\ \A o \in Ops : ~StartsNumber(out) => SignIs(o, out, bad) = Between(Append(out, Op(o)), bad)
  BY DEF SignIs, Ops

\* A number in range, or an error with an integer in the place of its value.
LEMMA CheckedFacts ==
    ASSUME NEW n
    PROVE  checked(n).ok \in BOOLEAN /\ checked(n).v \in Int
<1>1. InRange(n) => n \in Int
  BY CalcAssumption DEF InRange
<1>. QED BY <1>1 DEF checked, Ok, Err

\* parse gives a number, and says if it is in range.
LEMMA ParseFacts ==
    ASSUME NEW lit
    PROVE  parse(lit).ok \in BOOLEAN /\ parse(lit).v \in Int
<1>1. Err.ok \in BOOLEAN /\ Err.v \in Int
  BY DEF Err
<1>. QED BY <1>1, CheckedFacts DEF parse

\* The parts of a literal.
LEMMA LiteralParts ==
    ASSUME NEW lit \in Literals
    PROVE  /\ lit.neg \in BOOLEAN /\ lit.digits \in Seq(0 .. 9) /\ lit.digits # <<>>
           /\ Len(lit.digits) \in Nat /\ Len(lit.digits) > 0
<1>1. lit.neg \in BOOLEAN /\ lit.digits \in Seq(0 .. 9) /\ lit.digits # <<>>
  BY CalcAssumption
<1>. QED BY <1>1, EmptySeq

\* The digits of a number.
LEMMA DigitsRead ==
    ASSUME NEW out, NEW bad, NEW neg \in BOOLEAN, NEW digits \in Seq(0 .. 9), digits # <<>>
    PROVE  LET typed1 == [k \in DOMAIN digits |-> Digit(digits[k])]
           IN  /\ typed1 \in Seq(Symbols)
               /\ Takes("tokenize",
                    [out |-> out, lit |-> [open |-> neg, neg |-> neg, digits |-> <<>>], bad |-> bad],
                    typed1,
                    [out |-> out, lit |-> [open |-> TRUE, neg |-> neg, digits |-> digits], bad |-> bad])
<1>. DEFINE typed == [k \in DOMAIN digits |-> Digit(digits[k])]
            at(begun, ds) == [out |-> out, lit |-> [open |-> begun, neg |-> neg, digits |-> ds],
                             bad |-> bad]
<1>1. PICK n \in Nat : n = Len(digits) /\ n > 0 /\ DOMAIN digits = 1 .. n
  BY EmptySeq
<1>2. typed = [k \in 1 .. n |-> Digit(digits[k])] /\ \A k \in 1 .. n : digits[k] \in 0 .. 9
  BY <1>1
<1>3. /\ typed \in Seq(Symbols) /\ Len(typed) = n
      /\ \A k \in 1 .. n : typed[k] = Digit(digits[k])
  <2>1. \A k \in 1 .. n : Digit(digits[k]) \in Symbols
    BY <1>2 DEF Symbols
  <2>. QED BY <1>2, <2>1
<1>. HIDE DEF typed
<1>4. ASSUME NEW begun \in BOOLEAN, NEW ds, NEW d
      PROVE  Tokenize1(at(begun, ds), Digit(d)) = at(TRUE, Append(ds, d))
  <2>1. Digit(d).t = "digit" /\ Digit(d).d = d
    BY DEF Digit
  <2>2. Tokenize1(at(begun, ds), Digit(d)) =
          [at(begun, ds) EXCEPT !.lit.open = TRUE, !.lit.digits = Append(@, d)]
    BY <2>1 DEF Tokenize1
  <2>. QED BY <2>2
<1>. DEFINE f == [k \in 0 .. n |-> at(IF k = 0 THEN neg ELSE TRUE, SubSeq(digits, 1, k))]
<1>5. /\ f[0] = at(neg, <<>>) /\ f[n] = at(TRUE, digits)
  <2>1. SubSeq(digits, 1, 0) = <<>> /\ SubSeq(digits, 1, n) = digits
    BY <1>1, SubSeqEmpty, SubSeqFull
  <2>2. 0 \in 0 .. n /\ n \in 0 .. n /\ n # 0
    BY <1>1
  <2>. HIDE DEF at
  <2>. QED BY <2>1, <2>2
<1>6. ASSUME NEW k \in 1 .. n
      PROVE  f[k] = Tokenize1(f[k - 1], typed[k])
  <2>1. k \in 0 .. n /\ k - 1 \in 0 .. n /\ k # 0 /\ 1 \in 1 .. Len(digits) /\ k \in 1 .. Len(digits)
    BY <1>1
  <2>2. SubSeq(digits, 1, k) = Append(SubSeq(digits, 1, k - 1), digits[k])
    <3>1. SubSeq(digits, 1, k) = SubSeq(digits, 1, k - 1) \o <<digits[k]>>
      BY <2>1, SubSeqRecursiveSecond
    <3>2. SubSeq(digits, 1, k - 1) \in Seq(0 .. 9)
      <4>1. \A i \in 1 .. k - 1 : digits[i] \in 0 .. 9
        BY <1>2, <2>1
      <4>. QED BY <2>1, <4>1, SubSeqProperties
    <3>. QED BY <1>2, <3>1, <3>2, AppendIsConcat
  <2>3. /\ f[k] = at(TRUE, SubSeq(digits, 1, k))
        /\ f[k - 1] = at(IF k - 1 = 0 THEN neg ELSE TRUE, SubSeq(digits, 1, k - 1))
    <3>. HIDE DEF at
    <3>. QED BY <2>1
  <2>4. PICK begun \in BOOLEAN : begun = IF k - 1 = 0 THEN neg ELSE TRUE
    OBVIOUS
  <2>. HIDE DEF at, f
  <2>5. f[k - 1] = at(begun, SubSeq(digits, 1, k - 1)) /\ typed[k] = Digit(digits[k])
    BY <1>3, <2>3, <2>4
  <2>6. Tokenize1(f[k - 1], typed[k]) = at(TRUE, Append(SubSeq(digits, 1, k - 1), digits[k]))
    <3>1. PICK ds, d : ds = SubSeq(digits, 1, k - 1) /\ d = digits[k]
      OBVIOUS
    <3>2. Tokenize1(at(begun, ds), Digit(d)) = at(TRUE, Append(ds, d))
      BY <1>4
    <3>. QED BY <2>5, <3>1, <3>2
  <2>. QED BY <2>2, <2>3, <2>6
<1>. HIDE DEF at, f
<1>7. Takes("tokenize", at(neg, <<>>), typed, at(TRUE, digits))
  BY <1>3, <1>5, <1>6 DEF Takes, Reader
<1>. QED BY <1>3, <1>7 DEF typed, at

\* A number is read as one token.
LEMMA AtomReads ==
    ASSUME NEW lit \in Literals
    PROVE  /\ Atom(lit).chars \in Seq(Symbols)
           /\ Reads(Atom(lit).chars, <<Num(parse(lit).v)>>, ~parse(lit).ok)
<1>. DEFINE typed == [k \in DOMAIN lit.digits |-> Digit(lit.digits[k])]
            sign == IF lit.neg THEN <<Sign("-")>> ELSE <<>>
            tok == Num(parse(lit).v)
<1>1. Atom(lit).chars = sign \o typed
  BY DEF Atom
<1>2. /\ lit.neg \in BOOLEAN /\ lit.digits \in Seq(0 .. 9) /\ lit.digits # <<>>
  BY LiteralParts
<1>3. typed \in Seq(Symbols)
  BY <1>2, DigitsRead
<1>4. sign \in Seq(Symbols)
  <2>1. Sign("-") \in Symbols
    BY DEF Symbols, Ops
  <2>. QED BY <2>1
<1>5. Atom(lit).chars \in Seq(Symbols)
  <2>. HIDE DEF sign, typed
  <2>. QED BY <1>1, <1>3, <1>4, ConcatProperties
<1>6. ASSUME NEW out \in Seq(Tokens), NEW bad \in BOOLEAN, StartsNumber(out)
      PROVE  \E st : /\ Takes("tokenize", Between(out, bad), Atom(lit).chars, st)
                     /\ Finish(st) = Between(out \o <<tok>>, bad \/ ~parse(lit).ok)
  <2>. DEFINE read == [open |-> TRUE, neg |-> lit.neg, digits |-> lit.digits]
              start == [out |-> out, lit |-> [open |-> lit.neg, neg |-> lit.neg, digits |-> <<>>],
                        bad |-> bad]
              end == [out |-> out, lit |-> read, bad |-> bad]
  <2>1. Takes("tokenize", start, typed, end)
    BY <1>2, DigitsRead
  <2>2. Takes("tokenize", Between(out, bad), Atom(lit).chars, end)
    <3>. HIDE DEF typed, end
    <3>1. CASE lit.neg = TRUE
      <4>1. Tokenize1(Between(out, bad), Sign("-")) = start
        <5>1. start = AfterMinus(out, bad)
          BY <3>1 DEF AfterMinus
        <5>2. Tokenize1(Between(out, bad), Sign("-")) = SignIs("-", out, bad)
          BY FinishBetween, SignRead
        <5>. HIDE DEF start
        <5>. QED BY <1>6, <5>1, <5>2, SignCases
      <4>2. Takes("tokenize", Between(out, bad), <<Sign("-")>>, start)
        <5>1. Reader("tokenize", Between(out, bad), Sign("-")) = start
          BY <4>1, Readers
        <5>. HIDE DEF start
        <5>. QED BY <5>1, TakesOne
      <4>3. sign = <<Sign("-")>>
        BY <3>1
      <4>. HIDE DEF start, sign
      <4>. QED BY <1>1, <1>3, <1>4, <2>1, <4>2, <4>3, TakesBoth
    <3>2. CASE lit.neg = FALSE
      <4>1. start = Between(out, bad)
        BY <3>2 DEF Between, NoLiteral
      <4>2. Atom(lit).chars = typed
        <5>1. sign = <<>>
          BY <3>2
        <5>. HIDE DEF sign
        <5>. QED BY <1>1, <1>3, <5>1, ConcatEmptySeq
      <4>. HIDE DEF start
      <4>. QED BY <2>1, <4>1, <4>2
    <3>. QED BY <1>2, <3>1, <3>2
  <2>3. parse(read) = parse(lit)
    BY DEF parse, Signed
  <2>4. Finish(end) = Between(out \o <<tok>>, bad \/ ~parse(lit).ok)
    <3>1. Finish(end) = [end EXCEPT !.lit = NoLiteral, !.out = Append(@, Num(parse(read).v)),
                                    !.bad = @ \/ ~parse(read).ok]
      <4>1. end.lit = read /\ read.open = TRUE
        OBVIOUS
      <4>. HIDE DEF end, read
      <4>. QED BY <4>1 DEF Finish
    <3>. HIDE DEF read
    <3>2. Finish(end) = Between(Append(out, tok), bad \/ ~parse(lit).ok)
      BY <2>3, <3>1 DEF Between
    <3>3. Append(out, tok) = out \o <<tok>>
      BY ParseFacts, TokenKinds, AppendIsConcat
    <3>. QED BY <3>2, <3>3
  <2>. HIDE DEF end
  <2>. QED BY <2>2, <2>4
<1>. QED BY <1>5, <1>6 DEF Reads

\* An expression in parentheses.
LEMMA GroupReads ==
    ASSUME NEW c \in Seq(Symbols), NEW T \in Seq(Tokens), NEW b \in BOOLEAN, Reads(c, T, b)
    PROVE  /\ <<Sign("(")>> \o c \o <<Sign(")")>> \in Seq(Symbols)
           /\ Reads(<<Sign("(")>> \o c \o <<Sign(")")>>, <<LParen>> \o T \o <<RParen>>, b)
<1>1. /\ <<Sign("(")>> \in Seq(Symbols) /\ <<Sign(")")>> \in Seq(Symbols)
      /\ <<Sign("(")>> \o c \in Seq(Symbols) /\ <<Sign("(")>> \o c \o <<Sign(")")>> \in Seq(Symbols)
  <2>1. Sign("(") \in Symbols /\ Sign(")") \in Symbols
    BY DEF Symbols
  <2>2. <<Sign("(")>> \in Seq(Symbols) /\ <<Sign(")")>> \in Seq(Symbols)
    BY <2>1
  <2>3. <<Sign("(")>> \o c \in Seq(Symbols)
    BY <2>2, ConcatProperties
  <2>. QED BY <2>2, <2>3, ConcatProperties
<1>2. ASSUME NEW out \in Seq(Tokens), NEW bad \in BOOLEAN
      PROVE  \E st : /\ Takes("tokenize", Between(out, bad), <<Sign("(")>> \o c \o <<Sign(")")>>, st)
                     /\ Finish(st) = Between(out \o (<<LParen>> \o T \o <<RParen>>), bad \/ b)
  <2>. DEFINE out1 == Append(out, LParen)
              out2 == Append(out1 \o T, RParen)
  <2>1. out1 \in Seq(Tokens) /\ out1 # <<>> /\ Last(out1) = LParen
    BY TokenKinds DEF Last
  <2>2. StartsNumber(out1)
    BY <2>1, TokenKinds DEF StartsNumber
  <2>3. out2 = out \o (<<LParen>> \o T \o <<RParen>>)
    <3>1. <<LParen>> \in Seq(Tokens) /\ <<RParen>> \in Seq(Tokens)
      BY TokenKinds
    <3>2. out1 = out \o <<LParen>>
      BY TokenKinds, AppendIsConcat
    <3>3. out1 \o T \in Seq(Tokens) /\ <<LParen>> \o T \in Seq(Tokens)
      BY <2>1, <3>1, ConcatProperties
    <3>4. out2 = (out1 \o T) \o <<RParen>>
      <4>. HIDE DEF out1
      <4>. QED BY <3>3, TokenKinds, AppendIsConcat
    <3>5. out1 \o T = out \o (<<LParen>> \o T)
      <4>. HIDE DEF out1
      <4>. QED BY <3>1, <3>2, ConcatAssociative
    <3>6. (out \o (<<LParen>> \o T)) \o <<RParen>> = out \o ((<<LParen>> \o T) \o <<RParen>>)
      BY <3>1, <3>3, ConcatAssociative
    <3>. HIDE DEF out1, out2
    <3>. QED BY <3>4, <3>5, <3>6
  <2>4. Takes("tokenize", Between(out, bad), <<Sign("(")>>, Between(out1, bad))
    <3>1. Reader("tokenize", Between(out, bad), Sign("(")) = Between(out1, bad)
      <4>1. Tokenize1(Between(out, bad), Sign("(")) = SignIs("(", out, bad)
        BY FinishBetween, SignRead
      <4>2. SignIs("(", out, bad) = Between(out1, bad)
        BY SignCases
      <4>. HIDE DEF out1
      <4>. QED BY <4>1, <4>2, Readers
    <3>. HIDE DEF out1
    <3>. QED BY <3>1, TakesOne
  <2>. HIDE DEF out1, out2
  <2>5. PICK st : /\ Takes("tokenize", Between(out1, bad), c, st)
                  /\ Finish(st) = Between(out1 \o T, bad \/ b)
    BY <2>1, <2>2 DEF Reads
  <2>6. Takes("tokenize", Between(out, bad), <<Sign("(")>> \o c, st)
    BY <1>1, <2>4, <2>5, TakesBoth
  <2>7. Takes("tokenize", st, <<Sign(")")>>, Between(out2, bad \/ b))
    <3>1. PICK worse : worse = (bad \/ b)
      OBVIOUS
    <3>2. Finish(st) = Between(out1 \o T, worse)
      BY <2>5, <3>1
    <3>3. Tokenize1(st, Sign(")")) = SignIs(")", out1 \o T, worse)
      BY <3>2, SignRead
    <3>4. Tokenize1(st, Sign(")")) = Between(out2, worse)
      BY <3>3, SignCases DEF out2
    <3>. QED BY <3>1, <3>4, Readers, TakesOne
  <2>8. Takes("tokenize", Between(out, bad), <<Sign("(")>> \o c \o <<Sign(")")>>,
              Between(out2, bad \/ b))
    BY <1>1, <2>6, <2>7, TakesBoth
  <2>. QED BY <2>3, <2>8, FinishBetween
<1>. QED BY <1>1, <1>2 DEF Reads

\* Joining sequences of tokens; which join comes first makes no difference.
Cat(a, b) == a \o b

\* Joining is associative.
LEMMA CatJoins ==
    \A a, b, c \in Seq(Tokens) : Cat(a, b) \in Seq(Tokens) /\ Cat(Cat(a, b), c) = Cat(a, Cat(b, c))
<1>1. ASSUME NEW a \in Seq(Tokens), NEW b \in Seq(Tokens), NEW c \in Seq(Tokens)
      PROVE  a \o b \in Seq(Tokens) /\ (a \o b) \o c = a \o (b \o c)
  BY ConcatProperties, ConcatAssociative
<1>. QED BY <1>1 DEF Cat

\* The space behind the left operand ends a number.
LEMMA SpaceEnds ==
    ASSUME NEW st, NEW out, NEW bad, Finish(st) = Between(out, bad)
    PROVE  Takes("tokenize", st, <<Sign(" ")>>, Between(out, bad))
<1>1. Tokenize1(st, Sign(" ")) = SignIs(" ", out, bad)
  BY SignRead
<1>2. Tokenize1(st, Sign(" ")) = Between(out, bad)
  BY <1>1, SignCases, Zenon
<1>. QED BY <1>2, Readers, TakesOne

\* The operator becomes a token of its own.
LEMMA OpReads ==
    ASSUME NEW out, NEW bad, NEW o \in Ops, ~StartsNumber(out)
    PROVE  Takes("tokenize", Between(out, bad), <<Sign(o)>>, Between(Append(out, Op(o)), bad))
<1>1. Tokenize1(Between(out, bad), Sign(o)) = SignIs(o, out, bad)
  BY FinishBetween, SignRead
<1>2. Tokenize1(Between(out, bad), Sign(o)) = Between(Append(out, Op(o)), bad)
  BY <1>1, SignCases, Zenon
<1>. QED BY <1>2, Readers, TakesOne

\* Two operands and an operator between them.
LEMMA BinaryReads ==
    ASSUME NEW c \in Seq(Symbols), NEW T \in Seq(Tokens), NEW b \in BOOLEAN, Reads(c, T, b),
           NEW d \in Seq(Symbols), NEW U \in Seq(Tokens), NEW e \in BOOLEAN, Reads(d, U, e),
           T # <<>>, Last(T).t \in {"num", ")"}, NEW o \in Ops
    PROVE  /\ c \o <<Sign(" "), Sign(o)>> \o d \in Seq(Symbols)
           /\ Reads(c \o <<Sign(" "), Sign(o)>> \o d, T \o <<Op(o)>> \o U, b \/ e)
<1>. DEFINE mid == <<Sign(" "), Sign(o)>>
<1>1. /\ mid \in Seq(Symbols) /\ c \o mid \in Seq(Symbols) /\ c \o mid \o d \in Seq(Symbols)
      /\ mid = <<Sign(" ")>> \o <<Sign(o)>>
      /\ <<Sign(" ")>> \in Seq(Symbols) /\ <<Sign(o)>> \in Seq(Symbols)
  <2>1. PICK x \in Symbols, y \in Symbols : x = Sign(" ") /\ y = Sign(o)
    BY DEF Symbols
  <2>2. <<Sign(" ")>> \in Seq(Symbols) /\ <<Sign(o)>> \in Seq(Symbols) /\ mid \in Seq(Symbols)
    <3>1. <<x>> \in Seq(Symbols) /\ <<y>> \in Seq(Symbols) /\ <<x, y>> \in Seq(Symbols)
      OBVIOUS
    <3>. QED BY <2>1, <3>1
  <2>3. mid = <<Sign(" ")>> \o <<Sign(o)>>
    <3>1. <<x, y>> = <<x>> \o <<y>>
      BY Pair
    <3>. QED BY <2>1, <3>1
  <2>. HIDE DEF mid
  <2>4. c \o mid \in Seq(Symbols)
    BY <2>2, ConcatProperties
  <2>. QED BY <2>2, <2>3, <2>4, ConcatProperties
<1>2. ASSUME NEW out \in Seq(Tokens), NEW bad \in BOOLEAN, StartsNumber(out)
      PROVE  \E st : /\ Takes("tokenize", Between(out, bad), c \o mid \o d, st)
                     /\ Finish(st) = Between(out \o (T \o <<Op(o)>> \o U), bad \/ (b \/ e))
  <2>. DEFINE out1 == out \o T
              out2 == Append(out1, Op(o))
  <2>0. <<Op(o)>> \in Seq(Tokens) /\ Op(o) \in Tokens
    BY TokenKinds
  <2>1. out1 \in Seq(Tokens) /\ out1 # <<>> /\ Last(out1) = Last(T)
    BY LastJoined
  <2>2. ~StartsNumber(out1)
    <3>. HIDE DEF out1
    <3>. QED BY <2>1 DEF StartsNumber
  <2>3. out2 \in Seq(Tokens) /\ StartsNumber(out2)
    <3>. HIDE DEF out1
    <3>1. out2 \in Seq(Tokens) /\ out2 # <<>> /\ Last(out2) = Op(o)
      BY <2>0, <2>1, LastAppended
    <3>. QED BY <3>1, TokenKinds DEF StartsNumber
  <2>4. out2 \o U = out \o (T \o <<Op(o)>> \o U)
    <3>1. out2 = out1 \o <<Op(o)>>
      <4>. HIDE DEF out1
      <4>. QED BY <2>0, <2>1, AppendIsConcat
    <3>2. out1 \o <<Op(o)>> = out \o (T \o <<Op(o)>>)
      BY <2>0, ConcatAssociative
    <3>3. T \o <<Op(o)>> \in Seq(Tokens)
      BY <2>0, ConcatProperties
    <3>4. (out \o (T \o <<Op(o)>>)) \o U = out \o ((T \o <<Op(o)>>) \o U)
      <4>1. PICK m \in Seq(Tokens) : m = T \o <<Op(o)>>
        BY <3>3
      <4>2. Cat(Cat(out, m), U) = Cat(out, Cat(m, U))
        BY CatJoins
      <4>. QED BY <4>1, <4>2 DEF Cat
    <3>. HIDE DEF out1, out2
    <3>. QED BY <3>1, <3>2, <3>4
  <2>5. PICK st1 : /\ Takes("tokenize", Between(out, bad), c, st1)
                   /\ Finish(st1) = Between(out1, bad \/ b)
    BY <1>2 DEF Reads
  <2>. HIDE DEF out1, out2
  <2>6. Takes("tokenize", st1, mid, Between(out2, bad \/ b))
    <3>0. PICK worse : worse = (bad \/ b)
      OBVIOUS
    <3>1. Takes("tokenize", st1, <<Sign(" ")>>, Between(out1, worse))
      BY <2>5, <3>0, SpaceEnds
    <3>2. Takes("tokenize", Between(out1, worse), <<Sign(o)>>, Between(out2, worse))
      BY <2>2, OpReads DEF out2
    <3>. HIDE DEF mid
    <3>. QED BY <1>1, <3>0, <3>1, <3>2, TakesBoth
  <2>7. PICK st2 : /\ Takes("tokenize", Between(out2, bad \/ b), d, st2)
                   /\ Finish(st2) = Between(out2 \o U, (bad \/ b) \/ e)
    <3>1. (bad \/ b) \in BOOLEAN
      OBVIOUS
    <3>. QED BY <2>3, <3>1 DEF Reads
  <2>. HIDE DEF mid
  <2>8. Takes("tokenize", Between(out, bad), c \o mid, Between(out2, bad \/ b))
    BY <1>1, <2>5, <2>6, TakesBoth
  <2>9. Takes("tokenize", Between(out, bad), c \o mid \o d, st2)
    BY <1>1, <2>7, <2>8, TakesBoth
  <2>10. ((bad \/ b) \/ e) = (bad \/ (b \/ e))
    OBVIOUS
  <2>. QED BY <2>4, <2>7, <2>9, <2>10
<1>3. Reads(c \o mid \o d, T \o <<Op(o)>> \o U, b \/ e)
  <2>. HIDE DEF mid
  <2>. QED BY <1>2 DEF Reads
<1>. QED BY <1>1, <1>3

-----------------------------------------------------------------------------
(***************************************************************************)
(* shunting_yard.  Behind operators that bind more weakly than s, the      *)
(* tokens T leave A in the output and B on the stack, none of B weaker     *)
(* than s, and A with B popped behind it is the postfix form P.            *)
(***************************************************************************)
OpTokens == {Op(o) : o \in Ops}
Yard(output, ops) == [output |-> output, ops |-> ops]

Weaker(ops, s) == ops = <<>> \/ Last(ops).t # "op" \/ prec(Last(ops).op) < s

Orders(T, P, s) ==
    \A output, ops \in Seq(Tokens) : Weaker(ops, s) =>
        \E A \in Seq(Tokens), B \in Seq(OpTokens) :
            /\ Takes("yard", Yard(output, ops), T, Yard(output \o A, ops \o B))
            /\ \A i \in 1 .. Len(B) : prec(B[i].op) >= s
            /\ A \o Reverse(B) = P

\* Reversing.
LEMMA ReverseFacts ==
    ASSUME NEW S, NEW s \in Seq(S)
    PROVE  /\ Reverse(s) \in Seq(S) /\ Len(Reverse(s)) = Len(s)
           /\ \A i \in 1 .. Len(s) : Reverse(s)[i] = s[(Len(s) - i) + 1]
<1>1. PICK n \in Nat : n = Len(s)
  OBVIOUS
<1>2. Reverse(s) = [i \in 1 .. n |-> s[(n - i) + 1]]
  BY <1>1 DEF Reverse
<1>3. \A i \in 1 .. n : (n - i) + 1 \in 1 .. n
  OBVIOUS
<1>4. \A i \in 1 .. n : s[(n - i) + 1] \in S
  BY <1>1, <1>3
<1>. QED BY <1>1, <1>2, <1>4

\* Of nothing,
LEMMA ReverseEmpty == Reverse(<<>>) = <<>>
<1>1. <<>> \in Seq({}) /\ Len(<<>>) = 0
  OBVIOUS
<1>2. Reverse(<<>>) \in Seq({}) /\ Len(Reverse(<<>>)) = 0
  BY <1>1, ReverseFacts
<1>. QED BY <1>2

\* and of a sequence with a first element: it comes last.
LEMMA ReverseFirst ==
    ASSUME NEW S, NEW x \in S, NEW s \in Seq(S)
    PROVE  Reverse(<<x>> \o s) = Reverse(s) \o <<x>>
<1>1. PICK n \in Nat : n = Len(s)
  OBVIOUS
<1>2. PICK p \in Seq(S) : p = <<x>> /\ Len(p) = 1 /\ p[1] = x
  <2>1. <<x>> \in Seq(S) /\ Len(<<x>>) = 1 /\ <<x>>[1] = x
    OBVIOUS
  <2>. QED BY <2>1
<1>3. PICK q \in Seq(S) : /\ q = p \o s /\ Len(q) = n + 1
                          /\ \A i \in 1 .. n + 1 : q[i] = IF i <= 1 THEN p[i] ELSE s[i - 1]
  <2>1. /\ p \o s \in Seq(S) /\ Len(p \o s) = 1 + n
        /\ \A i \in 1 .. 1 + n : (p \o s)[i] = IF i <= 1 THEN p[i] ELSE s[i - 1]
    BY <1>1, <1>2, ConcatProperties
  <2>2. 1 + n = n + 1
    OBVIOUS
  <2>. QED BY <2>1, <2>2
<1>4. PICK r \in Seq(S) : /\ r = Reverse(s) /\ Len(r) = n
                          /\ \A i \in 1 .. n : r[i] = s[(n - i) + 1]
  BY <1>1, ReverseFacts
<1>5. PICK u \in Seq(S) : /\ u = Reverse(q) /\ Len(u) = n + 1
                          /\ \A i \in 1 .. n + 1 : u[i] = q[((n + 1) - i) + 1]
  <2>1. /\ Reverse(q) \in Seq(S) /\ Len(Reverse(q)) = Len(q)
        /\ \A i \in 1 .. Len(q) : Reverse(q)[i] = q[(Len(q) - i) + 1]
    BY ReverseFacts
  <2>. QED BY <1>3, <2>1
<1>6. PICK v \in Seq(S) : /\ v = r \o p /\ Len(v) = n + 1
                          /\ \A i \in 1 .. n + 1 : v[i] = IF i <= n THEN r[i] ELSE p[i - n]
  <2>1. /\ r \o p \in Seq(S) /\ Len(r \o p) = n + 1
        /\ \A i \in 1 .. n + 1 : (r \o p)[i] = IF i <= n THEN r[i] ELSE p[i - n]
    BY <1>2, <1>4, ConcatProperties
  <2>. QED BY <2>1
<1>7. ASSUME NEW i \in 1 .. n + 1  PROVE u[i] = v[i]
  <2>1. u[i] = q[((n + 1) - i) + 1] /\ ((n + 1) - i) + 1 \in 1 .. n + 1
    BY <1>5
  <2>2. CASE i <= n
    <3>1. /\ ~(((n + 1) - i) + 1 <= 1) /\ (((n + 1) - i) + 1) - 1 = (n - i) + 1 /\ i \in 1 .. n
      BY <2>2
    <3>2. q[((n + 1) - i) + 1] = s[(n - i) + 1]
      BY <1>3, <2>1, <3>1
    <3>3. v[i] = s[(n - i) + 1]
      BY <1>4, <1>6, <2>2, <3>1
    <3>. QED BY <2>1, <3>2, <3>3
  <2>3. CASE i = n + 1
    <3>1. ((n + 1) - i) + 1 = 1 /\ i - n = 1 /\ ~(i <= n)
      BY <2>3
    <3>2. u[i] = p[1]
      <4>1. q[1] = p[1]
        BY <1>3
      <4>. QED BY <2>1, <3>1, <4>1
    <3>3. v[i] = p[1]
      BY <1>6, <3>1
    <3>. QED BY <3>2, <3>3
  <2>. QED BY <2>2, <2>3
<1>8. u = v
  BY <1>5, <1>6, <1>7, SeqEqual
<1>. QED BY <1>2, <1>3, <1>4, <1>5, <1>6, <1>8

\* The two parts of a sequence that was put together.
LEMMA ConcatParts ==
    ASSUME NEW S, NEW s \in Seq(S), NEW t \in Seq(S)
    PROVE  /\ SubSeq(s \o t, 1, Len(s)) = s
           /\ SubSeq(s \o t, Len(s) + 1, Len(s \o t)) = t
<1>1. PICK m \in Nat, n \in Nat : m = Len(s) /\ n = Len(t)
  OBVIOUS
<1>2. PICK q \in Seq(S) : /\ q = s \o t /\ Len(q) = m + n
                          /\ \A i \in 1 .. m + n : q[i] = IF i <= m THEN s[i] ELSE t[i - m]
  <2>1. /\ s \o t \in Seq(S) /\ Len(s \o t) = m + n
        /\ \A i \in 1 .. m + n : (s \o t)[i] = IF i <= m THEN s[i] ELSE t[i - m]
    BY <1>1, ConcatProperties
  <2>. QED BY <2>1
<1>3. \A i \in 1 .. m + n : q[i] \in S
  BY <1>2
<1>4. SubSeq(q, 1, m) = s
  <2>1. /\ SubSeq(q, 1, m) \in Seq(S) /\ Len(SubSeq(q, 1, m)) = m
        /\ \A i \in 1 .. m : SubSeq(q, 1, m)[i] = q[i]
    <3>1. \A i \in 1 .. m : q[i] \in S
      BY <1>3
    <3>2. /\ SubSeq(q, 1, m) \in Seq(S) /\ Len(SubSeq(q, 1, m)) = IF 1 <= m THEN m - 1 + 1 ELSE 0
          /\ \A i \in 1 .. m - 1 + 1 : SubSeq(q, 1, m)[i] = q[1 + i - 1]
      BY <3>1, SubSeqProperties
    <3>. QED BY <3>2
  <2>2. \A i \in 1 .. m : q[i] = s[i]
    BY <1>2
  <2>. QED BY <1>1, <2>1, <2>2, SeqEqual
<1>5. SubSeq(q, m + 1, m + n) = t
  <2>1. /\ SubSeq(q, m + 1, m + n) \in Seq(S) /\ Len(SubSeq(q, m + 1, m + n)) = n
        /\ \A i \in 1 .. n : SubSeq(q, m + 1, m + n)[i] = q[m + i]
    <3>1. \A i \in m + 1 .. m + n : q[i] \in S
      BY <1>3
    <3>2. /\ SubSeq(q, m + 1, m + n) \in Seq(S)
          /\ Len(SubSeq(q, m + 1, m + n)) = IF m + 1 <= m + n THEN (m + n) - (m + 1) + 1 ELSE 0
          /\ \A i \in 1 .. (m + n) - (m + 1) + 1 : SubSeq(q, m + 1, m + n)[i] = q[(m + 1) + i - 1]
      BY <3>1, SubSeqProperties
    <3>. QED BY <3>2
  <2>2. ASSUME NEW i \in 1 .. n  PROVE q[m + i] = t[i]
    <3>1. m + i \in 1 .. m + n /\ ~(m + i <= m) /\ (m + i) - m = i
      OBVIOUS
    <3>. QED BY <1>2, <3>1
  <2>. QED BY <1>1, <2>1, <2>2, SeqEqual
<1>. QED BY <1>1, <1>2, <1>4, <1>5

\* Popping down to the last element of s.
LEMMA PopsTo ==
    ASSUME NEW output, NEW s \in Seq(Tokens), NEW t \in Seq(Tokens),
           NEW stops \in SUBSET (1 .. Len(s)), s = <<>> \/ Len(s) \in stops
    PROVE  PopTo(Yard(output, s \o t), stops) = Yard(output \o Reverse(t), s)
<1>1. PICK m \in Nat : m = Len(s)
  OBVIOUS
<1>2. m \in {0} \cup stops /\ \A y \in {0} \cup stops : y \in Nat /\ y <= m
  BY <1>1
<1>3. Max({0} \cup stops) = m
  <2>1. \A y \in {0} \cup stops : m >= y
    BY <1>2
  <2>2. ASSUME NEW x \in {0} \cup stops, \A y \in {0} \cup stops : x >= y  PROVE x = m
    BY <1>2, <2>2
  <2>. QED BY <1>2, <2>1, <2>2 DEF Max
<1>4. Yard(output, s \o t).output = output /\ Yard(output, s \o t).ops = s \o t
  BY DEF Yard
<1>5. PopTo(Yard(output, s \o t), stops) =
        [output |-> output \o Reverse(SubSeq(s \o t, m + 1, Len(s \o t))),
         ops |-> SubSeq(s \o t, 1, m)]
  BY <1>3, <1>4 DEF PopTo
<1>6. SubSeq(s \o t, 1, m) = s /\ SubSeq(s \o t, m + 1, Len(s \o t)) = t
  BY <1>1, ConcatParts
<1>. QED BY <1>5, <1>6 DEF Yard

\* A number goes to the output.
LEMMA YardNumber ==
    ASSUME NEW output \in Seq(Tokens), NEW ops, NEW n \in Int
    PROVE  Yard1(Yard(output, ops), Num(n)) = Yard(output \o <<Num(n)>>, ops)
<1>1. PICK t \in Tokens : t = Num(n) /\ t.t = "num"
  BY TokenKinds
<1>2. Yard1(Yard(output, ops), t) = [Yard(output, ops) EXCEPT !.output = Append(@, t)]
  BY <1>1 DEF Yard1
<1>3. [Yard(output, ops) EXCEPT !.output = Append(@, t)] = Yard(Append(output, t), ops)
  BY DEF Yard
<1>4. Append(output, t) = output \o <<t>>
  BY AppendIsConcat
<1>. QED BY <1>1, <1>2, <1>3, <1>4

\* "(" goes to the stack.
LEMMA YardLParen ==
    ASSUME NEW output, NEW ops
    PROVE  Yard1(Yard(output, ops), LParen) = Yard(output, Append(ops, LParen))
<1>1. PICK t \in Tokens : t = LParen /\ t.t = "("
  BY TokenKinds
<1>2. Yard1(Yard(output, ops), t) = [Yard(output, ops) EXCEPT !.ops = Append(@, t)]
  BY <1>1 DEF Yard1
<1>3. [Yard(output, ops) EXCEPT !.ops = Append(@, t)] = Yard(output, Append(ops, t))
  BY DEF Yard
<1>. QED BY <1>1, <1>2, <1>3

\* The operators.
LEMMA OpTokenFacts ==
    ASSUME NEW B \in Seq(OpTokens)
    PROVE  /\ B \in Seq(Tokens)
           /\ \A i \in 1 .. Len(B) : B[i].t = "op" /\ B[i].op \in Ops
<1>1. ASSUME NEW t \in OpTokens  PROVE t \in Tokens /\ t.t = "op" /\ t.op \in Ops
  BY TokenKinds DEF OpTokens
<1>2. OpTokens \subseteq Tokens
  BY <1>1
<1>3. \A i \in 1 .. Len(B) : B[i] \in OpTokens
  OBVIOUS
<1>. QED BY <1>1, <1>2, <1>3, SeqMonotonic

\* How strongly the operators bind.
LEMMA PrecFacts == \A o \in Ops : prec(o) = Strength(o) /\ prec(o) \in 1 .. 2
  BY DEF prec, Strength, Ops

\* An operator pops those that bind at least as strongly, and no more.
LEMMA YardOp ==
    ASSUME NEW output, NEW ops \in Seq(Tokens), NEW B \in Seq(OpTokens), NEW o \in Ops,
           Weaker(ops, Strength(o)), \A i \in 1 .. Len(B) : prec(B[i].op) >= Strength(o)
    PROVE  Yard1(Yard(output, ops \o B), Op(o)) = Yard(output \o Reverse(B), Append(ops, Op(o)))
<1>1. PICK t \in Tokens : t = Op(o) /\ t.t = "op" /\ t.op = o
  BY TokenKinds
<1>2. B \in Seq(Tokens) /\ \A i \in 1 .. Len(B) : B[i].t = "op" /\ B[i].op \in Ops
  BY OpTokenFacts
<1>. DEFINE q == ops \o B
            Binds(u) == u.t = "op" /\ prec(u.op) >= prec(t.op)
            stops == {i \in DOMAIN q : ~Binds(q[i])}
            st == Yard(output, q)
<1>3. PICK m \in Nat, n \in Nat : m = Len(ops) /\ n = Len(B)
  OBVIOUS
<1>4. /\ q \in Seq(Tokens) /\ DOMAIN q = 1 .. m + n
      /\ \A i \in 1 .. m + n : q[i] = IF i <= m THEN ops[i] ELSE B[i - m]
  <2>1. /\ q \in Seq(Tokens) /\ Len(q) = m + n
        /\ \A i \in 1 .. m + n : q[i] = IF i <= m THEN ops[i] ELSE B[i - m]
    BY <1>2, <1>3, ConcatProperties
  <2>. HIDE DEF q
  <2>. QED BY <2>1
<1>5. st.ops = q /\ st.output = output
  BY DEF Yard
<1>6. Yard1(st, t) = [PopTo(st, stops) EXCEPT !.ops = Append(@, t)]
  <2>. HIDE DEF q, st
  <2>. QED BY <1>1, <1>5 DEF Yard1
<1>. HIDE DEF q
<1>7. stops \subseteq 1 .. Len(ops)
  <2>1. SUFFICES ASSUME NEW i \in stops  PROVE i \in 1 .. m
    BY <1>3
  <2>2. i \in 1 .. m + n /\ ~Binds(q[i])
    BY <1>4
  <2>3. CASE i > m
    <3>1. i - m \in 1 .. n /\ ~(i <= m)
      BY <2>2, <2>3
    <3>2. q[i] = B[i - m]
      BY <1>4, <2>2, <3>1
    <3>3. B[i - m].t = "op" /\ prec(B[i - m].op) >= prec(o)
      BY <1>2, <1>3, <3>1, PrecFacts
    <3>. QED BY <1>1, <2>2, <3>2, <3>3
  <2>. QED BY <2>2, <2>3
<1>8. ops = <<>> \/ Len(ops) \in stops
  <2>1. SUFFICES ASSUME ops # <<>>  PROVE m \in stops
    BY <1>3
  <2>2. m \in 1 .. m + n /\ m <= m
    <3>1. m # 0
      BY <1>3, <2>1, EmptySeq
    <3>. QED BY <3>1
  <2>3. q[m] = Last(ops)
    BY <1>3, <1>4, <2>2 DEF Last
  <2>4. ~Binds(Last(ops))
    <3>1. Last(ops).t # "op" \/ prec(Last(ops).op) < prec(o)
      BY <2>1, PrecFacts DEF Weaker
    <3>2. ASSUME Last(ops).t = "op"  PROVE prec(Last(ops).op) \in Int /\ prec(o) \in Int
      BY DEF prec
    <3>. QED BY <1>1, <3>1, <3>2
  <2>. QED BY <1>4, <2>2, <2>3, <2>4
<1>. HIDE DEF stops
<1>9. PopTo(Yard(output, ops \o B), stops) = Yard(output \o Reverse(B), ops)
  BY <1>2, <1>7, <1>8, PopsTo
<1>10. ASSUME NEW x  PROVE [Yard(x, ops) EXCEPT !.ops = Append(@, t)] = Yard(x, Append(ops, t))
  <2>1. PICK y : y = Append(ops, t)
    OBVIOUS
  <2>2. Yard(x, ops).ops = ops
    BY DEF Yard
  <2>3. [Yard(x, ops) EXCEPT !.ops = y] = Yard(x, y)
    BY DEF Yard
  <2>. QED BY <2>1, <2>2, <2>3
<1>. QED BY <1>1, <1>6, <1>9, <1>10 DEF q

\* ")" pops what stands behind "(" and the "(" too.
LEMMA YardRParen ==
    ASSUME NEW output, NEW ops \in Seq(Tokens), NEW B \in Seq(OpTokens)
    PROVE  Yard1(Yard(output, Append(ops, LParen) \o B), RParen) = Yard(output \o Reverse(B), ops)
<1>1. PICK t : t = RParen /\ t.t = ")"
  BY TokenKinds
<1>2. B \in Seq(Tokens) /\ \A i \in 1 .. Len(B) : B[i].t = "op"
  BY OpTokenFacts
<1>3. PICK m \in Nat, n \in Nat : m = Len(ops) + 1 /\ n = Len(B)
  OBVIOUS
<1>4. PICK s \in Seq(Tokens) : /\ s = Append(ops, LParen) /\ Len(s) = m /\ s # <<>> /\ s[m] = LParen
                               /\ SubSeq(s, 1, m - 1) = ops
  <2>1. LParen \in Tokens /\ <<LParen>> \in Seq(Tokens)
    BY TokenKinds
  <2>2. Append(ops, LParen) = ops \o <<LParen>>
    BY <2>1, AppendIsConcat
  <2>3. m - 1 = Len(ops)
    BY <1>3
  <2>4. SubSeq(Append(ops, LParen), 1, m - 1) = ops
    BY <2>1, <2>2, <2>3, ConcatParts
  <2>5. /\ Append(ops, LParen) \in Seq(Tokens) /\ Append(ops, LParen) # <<>>
        /\ Len(Append(ops, LParen)) = m /\ Append(ops, LParen)[m] = LParen
    BY <1>3, <2>1, AppendProperties
  <2>. QED BY <2>4, <2>5
<1>. DEFINE q == s \o B
            stops == {i \in DOMAIN q : q[i].t = "("}
            st == Yard(output, q)
<1>5. /\ q \in Seq(Tokens) /\ DOMAIN q = 1 .. m + n
      /\ \A i \in 1 .. m + n : q[i] = IF i <= m THEN s[i] ELSE B[i - m]
  <2>1. /\ q \in Seq(Tokens) /\ Len(q) = m + n
        /\ \A i \in 1 .. m + n : q[i] = IF i <= m THEN s[i] ELSE B[i - m]
    BY <1>2, <1>3, <1>4, ConcatProperties
  <2>. HIDE DEF q
  <2>. QED BY <2>1
<1>6. st.ops = q /\ st.output = output
  BY DEF Yard
<1>7. Yard1(st, t) = [PopTo(st, stops) EXCEPT !.ops = IF @ = <<>> THEN @ ELSE Front(@)]
  <2>. HIDE DEF q, st
  <2>. QED BY <1>1, <1>6 DEF Yard1
<1>. HIDE DEF q
<1>8. stops \subseteq 1 .. Len(s)
  <2>1. SUFFICES ASSUME NEW i \in stops  PROVE i \in 1 .. m
    BY <1>4
  <2>2. i \in 1 .. m + n /\ q[i].t = "("
    BY <1>5
  <2>3. CASE i > m
    <3>1. i - m \in 1 .. n /\ ~(i <= m)
      BY <2>2, <2>3
    <3>2. q[i] = B[i - m] /\ B[i - m].t = "op"
      BY <1>2, <1>3, <1>5, <2>2, <3>1
    <3>. QED BY <2>2, <3>2
  <2>. QED BY <2>2, <2>3
<1>9. Len(s) \in stops
  <2>1. m \in 1 .. m + n /\ m <= m
    BY <1>3
  <2>2. q[m] = LParen
    BY <1>4, <1>5, <2>1
  <2>. QED BY <1>4, <1>5, <2>1, <2>2, TokenKinds
<1>. HIDE DEF stops
<1>10. PopTo(st, stops) = Yard(output \o Reverse(B), s)
  BY <1>2, <1>8, <1>9, PopsTo DEF q
<1>11. ASSUME NEW x
       PROVE  [Yard(x, s) EXCEPT !.ops = IF @ = <<>> THEN @ ELSE Front(@)] = Yard(x, Front(s))
  BY <1>4 DEF Yard
<1>12. Front(s) = ops
  BY <1>4 DEF Front
<1>. QED BY <1>1, <1>4, <1>7, <1>10, <1>11, <1>12 DEF q

\* What is weaker than s is weaker than anything stronger than s.
LEMMA WeakerMore ==
    ASSUME NEW ops \in Seq(Tokens), NEW s \in Int, NEW t \in Int, s <= t, Weaker(ops, s)
    PROVE  Weaker(ops, t)
<1>1. prec(Last(ops).op) \in Int
  BY DEF prec
<1>. QED BY <1>1 DEF Weaker

\* Numbers are their own postfix form.
LEMMA AtomOrders == ASSUME NEW n \in Int  PROVE  Orders(<<Num(n)>>, <<Num(n)>>, 3)
<1>1. SUFFICES ASSUME NEW output \in Seq(Tokens), NEW ops \in Seq(Tokens)
               PROVE  \E A \in Seq(Tokens), B \in Seq(OpTokens) :
                  /\ Takes("yard", Yard(output, ops), <<Num(n)>>, Yard(output \o A, ops \o B))
                  /\ \A i \in 1 .. Len(B) : prec(B[i].op) >= 3
                  /\ A \o Reverse(B) = <<Num(n)>>
  BY DEF Orders
<1>2. PICK A \in Seq(Tokens) : A = <<Num(n)>>
  <2>1. Num(n) \in Tokens
    BY TokenKinds
  <2>2. <<Num(n)>> \in Seq(Tokens)
    BY <2>1
  <2>. QED BY <2>2
<1>3. PICK B \in Seq(OpTokens) : B = <<>> /\ Len(B) = 0
  BY EmptySeq
<1>4. Takes("yard", Yard(output, ops), <<Num(n)>>, Yard(output \o A, ops))
  <2>1. Reader("yard", Yard(output, ops), Num(n)) = Yard(output \o A, ops)
    BY <1>2, YardNumber, Readers
  <2>. QED BY <2>1, TakesOne
<1>5. ops \o B = ops
  BY <1>3, ConcatEmptySeq
<1>6. A \o Reverse(B) = <<Num(n)>>
  BY <1>2, <1>3, ReverseEmpty, ConcatEmptySeq
<1>7. \A i \in 1 .. Len(B) : prec(B[i].op) >= 3
  BY <1>3
<1>. QED BY <1>4, <1>5, <1>6, <1>7

\* Parentheses: the postfix form is complete when they close.
LEMMA GroupOrders ==
    ASSUME NEW T \in Seq(Tokens), NEW P \in Seq(Tokens), NEW s, Orders(T, P, s)
    PROVE  Orders(<<LParen>> \o T \o <<RParen>>, P, 3)
<1>1. SUFFICES ASSUME NEW output \in Seq(Tokens), NEW ops \in Seq(Tokens)
               PROVE  \E A \in Seq(Tokens), B \in Seq(OpTokens) :
                  /\ Takes("yard", Yard(output, ops), <<LParen>> \o T \o <<RParen>>,
                           Yard(output \o A, ops \o B))
                  /\ \A i \in 1 .. Len(B) : prec(B[i].op) >= 3
                  /\ A \o Reverse(B) = P
  BY DEF Orders
<1>. DEFINE ops1 == Append(ops, LParen)
<1>2. ops1 \in Seq(Tokens) /\ Last(ops1) = LParen /\ LParen \in Tokens /\ RParen \in Tokens
  BY TokenKinds, LastAppended
<1>3. Weaker(ops1, s)
  BY <1>2, TokenKinds DEF Weaker
<1>4. Takes("yard", Yard(output, ops), <<LParen>>, Yard(output, ops1))
  <2>1. Reader("yard", Yard(output, ops), LParen) = Yard(output, ops1)
    BY YardLParen, Readers
  <2>. QED BY <2>1, TakesOne
<1>. HIDE DEF ops1
<1>5. PICK A \in Seq(Tokens), B \in Seq(OpTokens) :
            /\ Takes("yard", Yard(output, ops1), T, Yard(output \o A, ops1 \o B))
            /\ \A i \in 1 .. Len(B) : prec(B[i].op) >= s
            /\ A \o Reverse(B) = P
  BY <1>2, <1>3 DEF Orders
<1>6. Reverse(B) \in Seq(Tokens)
  BY OpTokenFacts, ReverseFacts
<1>7. Yard1(Yard(output \o A, ops1 \o B), RParen) = Yard(output \o P, ops)
  <2>1. Yard1(Yard(output \o A, ops1 \o B), RParen) = Yard((output \o A) \o Reverse(B), ops)
    BY YardRParen DEF ops1
  <2>2. (output \o A) \o Reverse(B) = output \o (A \o Reverse(B))
    <3>1. Cat(Cat(output, A), Reverse(B)) = Cat(output, Cat(A, Reverse(B)))
      BY <1>6, CatJoins
    <3>. QED BY <3>1 DEF Cat
  <2>. QED BY <1>5, <2>1, <2>2
<1>8. Takes("yard", Yard(output \o A, ops1 \o B), <<RParen>>, Yard(output \o P, ops))
  BY <1>7, Readers, TakesOne
<1>9. /\ <<LParen>> \in Seq(Tokens) /\ <<RParen>> \in Seq(Tokens)
      /\ <<LParen>> \o T \in Seq(Tokens)
  <2>1. <<LParen>> \in Seq(Tokens) /\ <<RParen>> \in Seq(Tokens)
    BY <1>2
  <2>. QED BY <2>1, ConcatProperties
<1>10. Takes("yard", Yard(output, ops), <<LParen>> \o T, Yard(output \o A, ops1 \o B))
  BY <1>4, <1>5, <1>9, TakesBoth
<1>11. Takes("yard", Yard(output, ops), <<LParen>> \o T \o <<RParen>>, Yard(output \o P, ops))
  BY <1>8, <1>9, <1>10, TakesBoth
<1>12. PICK none \in Seq(OpTokens) : none = <<>> /\ Len(none) = 0
  BY EmptySeq
<1>13. ops \o none = ops /\ P \o Reverse(none) = P
  BY <1>12, ReverseEmpty, ConcatEmptySeq
<1>14. \A i \in 1 .. Len(none) : prec(none[i].op) >= 3
  BY <1>12
<1>. QED BY <1>11, <1>13, <1>14

\* An operator between operands that bind strongly enough.
LEMMA BinaryOrders ==
    ASSUME NEW T \in Seq(Tokens), NEW P \in Seq(Tokens), NEW s \in Int, Orders(T, P, s),
           NEW U \in Seq(Tokens), NEW Q \in Seq(Tokens), NEW t \in Int, Orders(U, Q, t),
           NEW o \in Ops, s >= Strength(o), t > Strength(o)
    PROVE  Orders(T \o <<Op(o)>> \o U, P \o Q \o <<Op(o)>>, Strength(o))
<1>. DEFINE w == Strength(o)
<1>1. w \in Int /\ s >= w /\ t > w /\ prec(o) = w /\ Op(o) \in Tokens /\ Op(o).t = "op" /\ Op(o).op = o
  BY TokenKinds, PrecFacts
<1>. HIDE DEF w
<1>2. SUFFICES ASSUME NEW output \in Seq(Tokens), NEW ops \in Seq(Tokens), Weaker(ops, w)
               PROVE  \E A \in Seq(Tokens), B \in Seq(OpTokens) :
                  /\ Takes("yard", Yard(output, ops), T \o <<Op(o)>> \o U,
                           Yard(output \o A, ops \o B))
                  /\ \A i \in 1 .. Len(B) : prec(B[i].op) >= w
                  /\ A \o Reverse(B) = P \o Q \o <<Op(o)>>
  BY DEF Orders, w
<1>3. PICK tok \in Tokens, one \in Seq(Tokens) : tok = Op(o) /\ one = <<tok>> /\ one \in Seq(OpTokens)
  <2>1. Op(o) \in Tokens /\ Op(o) \in OpTokens
    BY <1>1 DEF OpTokens
  <2>2. <<Op(o)>> \in Seq(Tokens) /\ <<Op(o)>> \in Seq(OpTokens)
    BY <2>1
  <2>. QED BY <2>1, <2>2
<1>4. PICK A \in Seq(Tokens), B \in Seq(OpTokens) :
            /\ Takes("yard", Yard(output, ops), T, Yard(output \o A, ops \o B))
            /\ \A i \in 1 .. Len(B) : prec(B[i].op) >= s
            /\ A \o Reverse(B) = P
  <2>1. Weaker(ops, s)
    BY <1>1, <1>2, WeakerMore
  <2>. QED BY <2>1 DEF Orders
<1>5. Takes("yard", Yard(output \o A, ops \o B), one, Yard(output \o P, ops \o one))
  <2>1. \A i \in 1 .. Len(B) : prec(B[i].op) >= Strength(o)
    <3>1. ASSUME NEW i \in 1 .. Len(B)  PROVE prec(B[i].op) >= w
      <4>1. prec(B[i].op) >= s
        BY <1>4
      <4>2. prec(B[i].op) \in Int
        BY DEF prec
      <4>3. PICK n \in Int : n = prec(B[i].op)
        BY <4>2
      <4>. QED BY <1>1, <4>1, <4>3
    <3>. QED BY <3>1 DEF w
  <2>2. Yard1(Yard(output \o A, ops \o B), Op(o)) =
          Yard((output \o A) \o Reverse(B), Append(ops, Op(o)))
    BY <1>2, <2>1, YardOp DEF w
  <2>3. (output \o A) \o Reverse(B) = output \o P
    <3>1. Reverse(B) \in Seq(Tokens)
      BY OpTokenFacts, ReverseFacts
    <3>2. (output \o A) \o Reverse(B) = output \o (A \o Reverse(B))
      <4>1. Cat(Cat(output, A), Reverse(B)) = Cat(output, Cat(A, Reverse(B)))
        BY <3>1, CatJoins
      <4>. QED BY <4>1 DEF Cat
    <3>3. A \o Reverse(B) = P
      BY <1>4
    <3>. QED BY <3>2, <3>3, Zenon
  <2>4. Append(ops, Op(o)) = ops \o one
    BY <1>3, AppendIsConcat
  <2>5. Reader("yard", Yard(output \o A, ops \o B), Op(o)) = Yard(output \o P, ops \o one)
    BY <2>2, <2>3, <2>4, Readers
  <2>. QED BY <1>3, <2>5, TakesOne
<1>6. /\ output \o P \in Seq(Tokens) /\ ops \o one \in Seq(Tokens)
      /\ T \o one \in Seq(Tokens)
  BY ConcatProperties
<1>7. Weaker(ops \o one, t)
  <2>1. ops \o one = Append(ops, tok)
    BY <1>3, AppendIsConcat
  <2>2. Last(ops \o one) = Op(o)
    BY <1>3, <2>1, LastAppended
  <2>. QED BY <1>1, <2>2 DEF Weaker
<1>8. PICK C \in Seq(Tokens), D \in Seq(OpTokens) :
            /\ Takes("yard", Yard(output \o P, ops \o one), U,
                     Yard((output \o P) \o C, (ops \o one) \o D))
            /\ \A i \in 1 .. Len(D) : prec(D[i].op) >= t
            /\ C \o Reverse(D) = Q
  <2>1. PICK x \in Seq(Tokens), y \in Seq(Tokens) : x = output \o P /\ y = ops \o one
    BY <1>6
  <2>2. Weaker(y, t)
    BY <1>7, <2>1
  <2>3. \E C \in Seq(Tokens), D \in Seq(OpTokens) :
            /\ Takes("yard", Yard(x, y), U, Yard(x \o C, y \o D))
            /\ \A i \in 1 .. Len(D) : prec(D[i].op) >= t
            /\ C \o Reverse(D) = Q
    BY <2>2 DEF Orders
  <2>. QED BY <2>1, <2>3
<1>9. Takes("yard", Yard(output, ops), T \o one, Yard(output \o P, ops \o one))
  BY <1>3, <1>4, <1>5, TakesBoth
<1>10. Takes("yard", Yard(output, ops), T \o one \o U, Yard((output \o P) \o C, (ops \o one) \o D))
  BY <1>6, <1>8, <1>9, TakesBoth
<1>11. D \in Seq(Tokens) /\ Reverse(D) \in Seq(Tokens)
  BY OpTokenFacts, ReverseFacts
<1>12. (output \o P) \o C = output \o (P \o C) /\ (ops \o one) \o D = ops \o (one \o D)
  <2>1. Cat(Cat(output, P), C) = Cat(output, Cat(P, C)) /\ Cat(Cat(ops, one), D) = Cat(ops, Cat(one, D))
    BY <1>11, CatJoins
  <2>. QED BY <2>1 DEF Cat
<1>13. P \o C \in Seq(Tokens) /\ one \o D \in Seq(OpTokens)
  BY <1>3, ConcatProperties
<1>14. ASSUME NEW i \in 1 .. Len(one \o D)  PROVE prec((one \o D)[i].op) >= w
  <2>1. PICK n \in Nat : n = Len(D)
    OBVIOUS
  <2>2. Len(one) = 1 /\ one[1] = tok
    BY <1>3
  <2>3. /\ Len(one \o D) = 1 + n
        /\ \A j \in 1 .. 1 + n : (one \o D)[j] = IF j <= 1 THEN one[j] ELSE D[j - 1]
    BY <1>3, <1>11, <2>1, <2>2, ConcatProperties
  <2>4. CASE i = 1
    <3>1. (one \o D)[i] = tok
      BY <2>2, <2>3, <2>4
    <3>. QED BY <1>1, <1>3, <3>1
  <2>5. CASE i # 1
    <3>1. i \in 1 .. 1 + n /\ ~(i <= 1) /\ i - 1 \in 1 .. n
      BY <2>3, <2>5
    <3>2. (one \o D)[i] = D[i - 1]
      BY <2>3, <3>1
    <3>3. prec(D[i - 1].op) >= t /\ prec(D[i - 1].op) \in Int
      <4>1. prec(D[i - 1].op) >= t
        BY <1>8, <2>1, <3>1
      <4>2. prec(D[i - 1].op) \in Int
        BY DEF prec
      <4>. QED BY <4>1, <4>2
    <3>. QED BY <1>1, <3>2, <3>3
  <2>. QED BY <2>4, <2>5
<1>15. (P \o C) \o Reverse(one \o D) = P \o Q \o one
  <2>1. Reverse(one \o D) = Reverse(D) \o one
    BY <1>3, <1>11, ReverseFirst
  <2>2. Reverse(D) \o one \in Seq(Tokens)
    BY <1>3, <1>11, ConcatProperties
  <2>3. PICK R \in Seq(Tokens) : R = Reverse(D)
    BY <1>11
  <2>4. Cat(C, R) = Q
    BY <1>8, <2>3 DEF Cat
  <2>5. Cat(Cat(P, C), Cat(R, one)) = Cat(Cat(P, Cat(C, R)), one)
    BY CatJoins
  <2>6. Cat(Cat(P, C), Cat(R, one)) = Cat(Cat(P, Q), one)
    BY <2>4, <2>5
  <2>7. (P \o C) \o (R \o one) = (P \o Q) \o one
    BY <2>6 DEF Cat
  <2>. QED BY <2>1, <2>3, <2>7
<1>. QED BY <1>3, <1>10, <1>12, <1>13, <1>14, <1>15

-----------------------------------------------------------------------------
(***************************************************************************)
(* eval_rpn.  The postfix form P puts its value on the stack, or ends in   *)
(* an error; if one of its numbers is bad, tokenize has failed before.     *)
(***************************************************************************)
Rpn(stack, bad) == [stack |-> stack, bad |-> bad]

ValueOK(v) == v = Err \/ \E n \in Int : v = Ok(n)

Evaluates(P, v, b) ==
    \A stack \in Seq(Int) :
        /\ v.ok = TRUE => Takes("rpn", Rpn(stack, FALSE), P, Rpn(Append(stack, v.v), FALSE))
        /\ v.ok = FALSE /\ b = FALSE =>
              \E st : Takes("rpn", Rpn(stack, FALSE), P, st) /\ st.bad = TRUE

\* Results.
LEMMA ValueParts ==
    ASSUME NEW v, ValueOK(v)
    PROVE  /\ v.ok \in BOOLEAN /\ v.v \in Int
           /\ v.ok = TRUE => v = Ok(v.v)
           /\ v.ok = FALSE => v = Err
<1>1. CASE v = Err
  BY <1>1 DEF Err
<1>2. CASE v # Err
  <2>1. PICK n \in Int : v = Ok(n)
    BY <1>2 DEF ValueOK
  <2>2. v.ok = TRUE /\ v.v = n
    BY <2>1 DEF Ok
  <2>. QED BY <2>1, <2>2
<1>. QED BY <1>1, <1>2

\* checked gives a result,
LEMMA CheckedOK == ASSUME NEW n  PROVE  ValueOK(checked(n))
<1>1. InRange(n) => n \in Int
  BY CalcAssumption DEF InRange
<1>. QED BY <1>1 DEF checked, ValueOK

\* and so does every operator.
LEMMA ApplyOK ==
    ASSUME NEW o \in Ops, NEW a \in Int, NEW c \in Int
    PROVE  ValueOK(apply(o, a, c))
<1>1. CASE o \in {"+", "-", "*"}
  <2>1. apply(o, a, c) \in {checked(a + c), checked(a - c), checked(a * c)}
    BY <1>1 DEF apply
  <2>. QED BY <2>1, CheckedOK
<1>2. CASE o \in {"/", "%"}
  <2>1. PICK q : q = Quotient(a, c)
    OBVIOUS
  <2>2. apply(o, a, c) = IF c = 0 \/ ~InRange(q) THEN Err
                         ELSE Ok(IF o = "/" THEN q ELSE a - c * q)
    BY <1>2, <2>1 DEF apply
  <2>3. InRange(q) => q \in Int
    BY CalcAssumption DEF InRange
  <2>4. InRange(q) => a - c * q \in Int
    BY <2>3
  <2>5. CASE c = 0 \/ ~InRange(q)
    BY <2>2, <2>5 DEF ValueOK
  <2>6. CASE ~(c = 0 \/ ~InRange(q)) /\ o = "/"
    BY <2>2, <2>3, <2>6 DEF ValueOK
  <2>7. CASE ~(c = 0 \/ ~InRange(q)) /\ o # "/"
    BY <2>2, <2>4, <2>7 DEF ValueOK
  <2>. QED BY <2>5, <2>6, <2>7
<1>. QED BY <1>1, <1>2 DEF Ops

\* After an error nothing changes any more.
LEMMA ErrorStays ==
    ASSUME NEW P \in Seq(Tokens), NEW st, st.bad = TRUE
    PROVE  Takes("rpn", st, P, st)
<1>. DEFINE f == [k \in 0 .. Len(P) |-> st]
<1>1. ASSUME NEW t  PROVE Reader("rpn", st, t) = st
  <2>1. Rpn1(st, t) = st
    BY DEF Rpn1
  <2>. QED BY <2>1, Readers
<1>2. \A k \in 0 .. Len(P) : f[k] = st
  OBVIOUS
<1>. HIDE DEF f
<1>3. 0 \in 0 .. Len(P) /\ Len(P) \in 0 .. Len(P)
  OBVIOUS
<1>4. ASSUME NEW k \in 1 .. Len(P)  PROVE f[k] = Reader("rpn", f[k - 1], P[k])
  <2>1. k \in 0 .. Len(P) /\ k - 1 \in 0 .. Len(P)
    OBVIOUS
  <2>. QED BY <1>1, <1>2, <2>1
<1>. QED BY <1>2, <1>3, <1>4 DEF Takes

\* A number goes to the stack.
LEMMA RpnNumber ==
    ASSUME NEW stack, NEW n \in Int
    PROVE  Rpn1(Rpn(stack, FALSE), Num(n)) = Rpn(Append(stack, n), FALSE)
<1>1. PICK t : t = Num(n) /\ t.t = "num" /\ t.n = n
  BY TokenKinds
<1>. DEFINE st == Rpn(stack, FALSE)
<1>2. st.bad = FALSE /\ st.stack = stack
  BY DEF Rpn
<1>3. Rpn1(st, t) = [st EXCEPT !.stack = Append(@, t.n)]
  <2>. HIDE DEF st
  <2>. QED BY <1>1, <1>2 DEF Rpn1
<1>4. PICK y : y = Append(stack, n)
  OBVIOUS
<1>5. [st EXCEPT !.stack = y] = Rpn(y, FALSE)
  <2>1. ASSUME NEW b  PROVE [Rpn(stack, b) EXCEPT !.stack = y] = Rpn(y, b)
    BY DEF Rpn
  <2>. QED BY <2>1
<1>. HIDE DEF st
<1>6. Rpn1(st, t) = [st EXCEPT !.stack = y]
  <2>1. Append(st.stack, t.n) = y
    BY <1>1, <1>2, <1>4
  <2>. QED BY <1>3, <2>1
<1>. QED BY <1>1, <1>4, <1>5, <1>6 DEF st

\* An operator takes two numbers off it and puts the result there.
LEMMA RpnOp ==
    ASSUME NEW stack \in Seq(Int), NEW a \in Int, NEW c \in Int, NEW o \in Ops
    PROVE  Rpn1(Rpn(Append(Append(stack, a), c), FALSE), Op(o)) =
             Rpn(Append(stack, apply(o, a, c).v), ~apply(o, a, c).ok)
<1>1. PICK t : t = Op(o) /\ t.t = "op" /\ t.op = o
  BY TokenKinds
<1>2. PICK m \in Nat : m = Len(stack)
  OBVIOUS
<1>3. PICK s \in Seq(Int) : s = Append(stack, a) /\ Len(s) = m + 1 /\ s[m + 1] = a
                            /\ s = stack \o <<a>>
  <2>1. /\ Append(stack, a) \in Seq(Int) /\ Len(Append(stack, a)) = m + 1
        /\ Append(stack, a)[m + 1] = a /\ Append(stack, a) = stack \o <<a>>
    BY <1>2, AppendProperties, AppendIsConcat
  <2>. QED BY <2>1
<1>4. PICK u \in Seq(Int) : u = Append(s, c) /\ Len(u) = m + 2 /\ u[m + 2] = c /\ u[m + 1] = a
                            /\ SubSeq(u, 1, m) = stack
  <2>1. /\ Append(s, c) \in Seq(Int) /\ Len(Append(s, c)) = m + 1 + 1
        /\ Append(s, c)[m + 1 + 1] = c
        /\ \A i \in 1 .. m + 1 : Append(s, c)[i] = s[i]
        /\ Append(s, c) = s \o <<c>>
    BY <1>3, AppendProperties, AppendIsConcat
  <2>2. Append(s, c)[m + 1] = a
    BY <1>3, <2>1
  <2>3. PICK p \in Seq(Int), q \in Seq(Int) : p = <<a>> /\ q = <<c>>
    <3>1. <<a>> \in Seq(Int) /\ <<c>> \in Seq(Int)
      OBVIOUS
    <3>. QED BY <3>1
  <2>4. (stack \o p) \o q = stack \o (p \o q) /\ p \o q \in Seq(Int)
    <3>1. (stack \o p) \o q = stack \o (p \o q)
      BY ConcatAssociative
    <3>2. p \o q \in Seq(Int)
      BY ConcatProperties, SMTT(30)
    <3>. QED BY <3>1, <3>2
  <2>5. Append(s, c) = stack \o (p \o q)
    BY <1>3, <2>1, <2>3, <2>4
  <2>6. SubSeq(Append(s, c), 1, m) = stack
    BY <1>2, <2>4, <2>5, ConcatParts
  <2>7. m + 1 + 1 = m + 2
    OBVIOUS
  <2>. QED BY <2>1, <2>2, <2>6, <2>7
<1>. DEFINE st == Rpn(u, FALSE)
<1>5. st.bad = FALSE /\ st.stack = u
  BY DEF Rpn
<1>6. PICK r : r = apply(o, a, c)
  OBVIOUS
<1>7. (m + 2) - 1 = m + 1 /\ (m + 2) - 2 = m /\ ~(m + 2 < 2)
  OBVIOUS
<1>. HIDE DEF st
<1>8. Rpn1(st, t) = [stack |-> Append(SubSeq(u, 1, (m + 2) - 2), apply(o, u[(m + 2) - 1], u[m + 2]).v),
                     bad |-> ~apply(o, u[(m + 2) - 1], u[m + 2]).ok]
  BY <1>1, <1>4, <1>5, <1>7 DEF Rpn1
<1>9. Rpn1(st, t) = [stack |-> Append(stack, r.v), bad |-> ~r.ok]
  BY <1>4, <1>6, <1>7, <1>8
<1>. QED BY <1>1, <1>3, <1>4, <1>6, <1>9 DEF st, Rpn

\* A number evaluates to itself.
LEMMA AtomEvaluates ==
    ASSUME NEW v, ValueOK(v)
    PROVE  Evaluates(<<Num(v.v)>>, v, ~v.ok)
<1>1. v.v \in Int /\ v.ok \in BOOLEAN
  BY ValueParts
<1>2. ASSUME NEW stack \in Seq(Int)
      PROVE  Takes("rpn", Rpn(stack, FALSE), <<Num(v.v)>>, Rpn(Append(stack, v.v), FALSE))
  <2>1. Reader("rpn", Rpn(stack, FALSE), Num(v.v)) = Rpn(Append(stack, v.v), FALSE)
    BY <1>1, RpnNumber, Readers
  <2>. QED BY <2>1, TakesOne
<1>3. ~(v.ok = FALSE /\ (~v.ok) = FALSE)
  BY <1>1
<1>. QED BY <1>2, <1>3 DEF Evaluates

\* Operands and then the operator.
LEMMA BinaryEvaluates ==
    ASSUME NEW P \in Seq(Tokens), NEW v, NEW b \in BOOLEAN, ValueOK(v), Evaluates(P, v, b),
           NEW Q \in Seq(Tokens), NEW w, NEW d \in BOOLEAN, ValueOK(w), Evaluates(Q, w, d),
           NEW o \in Ops
    PROVE  Evaluates(P \o Q \o <<Op(o)>>, IF v.ok /\ w.ok THEN apply(o, v.v, w.v) ELSE Err, b \/ d)
<1>. DEFINE r == IF v.ok /\ w.ok THEN apply(o, v.v, w.v) ELSE Err
<1>1. /\ v.ok \in BOOLEAN /\ v.v \in Int /\ w.ok \in BOOLEAN /\ w.v \in Int
  BY ValueParts
<1>2. PICK one \in Seq(Tokens) : one = <<Op(o)>>
  <2>1. Op(o) \in Tokens
    BY TokenKinds
  <2>2. <<Op(o)>> \in Seq(Tokens)
    BY <2>1
  <2>. QED BY <2>2
<1>3. P \o Q \in Seq(Tokens)
  BY ConcatProperties
<1>4. ASSUME NEW a, NEW c, NEW stack, Takes("rpn", stack, P, a), Takes("rpn", a, Q, c), NEW e,
             Takes("rpn", c, one, e)
      PROVE  Takes("rpn", stack, P \o Q \o one, e)
  <2>1. Takes("rpn", stack, P \o Q, c)
    BY <1>4, TakesBoth
  <2>. QED BY <1>3, <1>4, <2>1, TakesBoth
<1>5. ASSUME NEW stack \in Seq(Int), v.ok = TRUE, w.ok = TRUE
      PROVE  Takes("rpn", Rpn(stack, FALSE), P \o Q \o one,
                   Rpn(Append(stack, apply(o, v.v, w.v).v), ~apply(o, v.v, w.v).ok))
  <2>1. Append(stack, v.v) \in Seq(Int)
    BY <1>1
  <2>2. Takes("rpn", Rpn(stack, FALSE), P, Rpn(Append(stack, v.v), FALSE))
    BY <1>5 DEF Evaluates
  <2>3. Takes("rpn", Rpn(Append(stack, v.v), FALSE), Q, Rpn(Append(Append(stack, v.v), w.v), FALSE))
    BY <1>5, <2>1 DEF Evaluates
  <2>4. Takes("rpn", Rpn(Append(Append(stack, v.v), w.v), FALSE), one,
              Rpn(Append(stack, apply(o, v.v, w.v).v), ~apply(o, v.v, w.v).ok))
    <3>1. PICK x, y : /\ x = Rpn(Append(Append(stack, v.v), w.v), FALSE)
                      /\ y = Rpn(Append(stack, apply(o, v.v, w.v).v), ~apply(o, v.v, w.v).ok)
      OBVIOUS
    <3>2. Rpn1(x, Op(o)) = y
      BY <1>1, <3>1, RpnOp
    <3>3. Takes("rpn", x, one, y)
      BY <1>2, <3>2, Readers, TakesOne
    <3>. QED BY <3>1, <3>3
  <2>. QED BY <1>4, <2>2, <2>3, <2>4
<1>6. ASSUME NEW st, st.bad = TRUE  PROVE Takes("rpn", st, Q, st) /\ Takes("rpn", st, one, st)
  BY <1>6, ErrorStays
<1>7. ASSUME NEW stack \in Seq(Int), r.ok = TRUE
      PROVE  Takes("rpn", Rpn(stack, FALSE), P \o Q \o one, Rpn(Append(stack, r.v), FALSE))
  <2>1. v.ok = TRUE /\ w.ok = TRUE /\ r = apply(o, v.v, w.v)
    BY <1>1, <1>7 DEF Err
  <2>. HIDE DEF r
  <2>2. (~r.ok) = FALSE
    BY <1>7
  <2>3. Takes("rpn", Rpn(stack, FALSE), P \o Q \o one, Rpn(Append(stack, r.v), ~r.ok))
    BY <1>5, <2>1
  <2>. QED BY <2>2, <2>3
<1>8. ASSUME NEW stack \in Seq(Int), r.ok = FALSE, (b \/ d) = FALSE
      PROVE  \E st : Takes("rpn", Rpn(stack, FALSE), P \o Q \o one, st) /\ st.bad = TRUE
  <2>0. b = FALSE /\ d = FALSE
    BY <1>8
  <2>1. CASE v.ok = FALSE
    <3>1. PICK st : Takes("rpn", Rpn(stack, FALSE), P, st) /\ st.bad = TRUE
      BY <2>0, <2>1 DEF Evaluates
    <3>. QED BY <1>4, <1>6, <3>1
  <2>2. CASE v.ok = TRUE /\ w.ok = FALSE
    <3>1. Append(stack, v.v) \in Seq(Int)
      BY <1>1
    <3>2. Takes("rpn", Rpn(stack, FALSE), P, Rpn(Append(stack, v.v), FALSE))
      BY <2>2 DEF Evaluates
    <3>3. PICK st : Takes("rpn", Rpn(Append(stack, v.v), FALSE), Q, st) /\ st.bad = TRUE
      BY <2>0, <2>2, <3>1 DEF Evaluates
    <3>. QED BY <1>4, <1>6, <3>2, <3>3
  <2>3. CASE v.ok = TRUE /\ w.ok = TRUE
    <3>1. r = apply(o, v.v, w.v)
      BY <2>3
    <3>. HIDE DEF r
    <3>2. (~r.ok) = TRUE
      BY <1>8
    <3>3. PICK st : st = Rpn(Append(stack, r.v), ~r.ok)
      OBVIOUS
    <3>4. st.bad = TRUE
      BY <3>2, <3>3 DEF Rpn
    <3>5. Takes("rpn", Rpn(stack, FALSE), P \o Q \o one, st)
      BY <1>5, <2>3, <3>1, <3>3
    <3>. QED BY <3>4, <3>5
  <2>. QED BY <1>1, <2>1, <2>2, <2>3
<1>. HIDE DEF r
<1>9. Evaluates(P \o Q \o one, r, b \/ d)
  BY <1>7, <1>8 DEF Evaluates
<1>. QED BY <1>2, <1>9 DEF r

-----------------------------------------------------------------------------
(***************************************************************************)
(* Expressions.  All three stages do what they should on each of them.     *)
(***************************************************************************)
GoodAs(e, T, P, b) ==
    /\ e.chars \in Seq(Symbols) /\ e.strength \in 1 .. 3 /\ ValueOK(e.value)
    /\ T \in Seq(Tokens) /\ T # <<>> /\ Last(T).t \in {"num", ")"}
    /\ P \in Seq(Tokens) /\ b \in BOOLEAN
    /\ Reads(e.chars, T, b)
    /\ Orders(T, P, e.strength)
    /\ Evaluates(P, e.value, b)
    /\ b = TRUE => e.value.ok = FALSE

Good(e) == \E T, P, b : GoodAs(e, T, P, b)

\* A number is good,
LEMMA AtomGood == ASSUME NEW lit \in Literals  PROVE  Good(Atom(lit))
<1>. DEFINE v == parse(lit)
            T == <<Num(v.v)>>
<1>1. lit.digits # <<>>
  BY LiteralParts
<1>2. Atom(lit).value = v /\ Atom(lit).strength = 3
  BY <1>1 DEF Atom, parse
<1>3. ValueOK(v)
  BY <1>1, CheckedOK DEF parse
<1>4. Atom(lit).chars \in Seq(Symbols) /\ Reads(Atom(lit).chars, T, ~v.ok)
  BY AtomReads
<1>. HIDE DEF v
<1>5. v.v \in Int /\ v.ok \in BOOLEAN /\ (~v.ok) \in BOOLEAN /\ ((~v.ok) = TRUE => v.ok = FALSE)
  BY <1>3, ValueParts
<1>6. T \in Seq(Tokens) /\ T # <<>> /\ Last(T).t \in {"num", ")"}
  <2>1. PICK t \in Tokens : t = Num(v.v) /\ t.t = "num"
    BY <1>5, TokenKinds
  <2>2. <<t>> \in Seq(Tokens) /\ <<t>> # <<>> /\ Last(<<t>>) = t
    BY DEF Last
  <2>. QED BY <2>1, <2>2
<1>7. Orders(T, T, 3) /\ Evaluates(T, v, ~v.ok)
  BY <1>3, <1>5, AtomOrders, AtomEvaluates
<1>. HIDE DEF T
<1>8. GoodAs(Atom(lit), T, T, ~v.ok)
  BY <1>2, <1>3, <1>4, <1>5, <1>6, <1>7 DEF GoodAs
<1>. QED BY <1>8 DEF Good

\* a good expression in parentheses is,
LEMMA GroupGood == ASSUME NEW e, Good(e)  PROVE  Good(Group(e)) /\ Group(e).value = e.value
<1>1. PICK T, P, b : GoodAs(e, T, P, b)
  BY DEF Good
<1>. DEFINE c == <<Sign("(")>> \o e.chars \o <<Sign(")")>>
            U == <<LParen>> \o T \o <<RParen>>
<1>2. PICK g : g = Group(e)
  OBVIOUS
<1>3. g.chars = c /\ g.strength = 3 /\ g.value = e.value
  BY <1>2 DEF Group
<1>4. c \in Seq(Symbols) /\ Reads(c, U, b)
  BY <1>1, GroupReads DEF GoodAs
<1>5. Orders(U, P, 3)
  BY <1>1, GroupOrders DEF GoodAs
<1>6. U \in Seq(Tokens) /\ U # <<>> /\ Last(U).t \in {"num", ")"}
  <2>1. T \in Seq(Tokens) /\ LParen \in Tokens /\ RParen \in Tokens /\ RParen.t = ")"
    BY <1>1, TokenKinds DEF GoodAs
  <2>2. <<LParen>> \in Seq(Tokens)
    BY <2>1
  <2>3. PICK q \in Seq(Tokens) : q = <<LParen>> \o T
    BY <2>1, <2>2, ConcatProperties
  <2>4. U = Append(q, RParen)
    BY <2>1, <2>3, AppendIsConcat
  <2>. HIDE DEF U
  <2>. QED BY <2>1, <2>4, LastAppended
<1>. HIDE DEF c, U
<1>7. 3 \in 1 .. 3
  OBVIOUS
<1>8. GoodAs(g, U, P, b)
  BY <1>1, <1>3, <1>4, <1>5, <1>6, <1>7 DEF GoodAs
<1>. QED BY <1>2, <1>3, <1>8 DEF Good

\* and two good ones joined by an operator are.
LEMMA BinaryGood ==
    ASSUME NEW o \in Ops, NEW l, NEW r, Good(l), Good(r)
    PROVE  Good(Binary(o, l, r))
<1>0. PICK w \in 1 .. 2 : w = Strength(o)
  BY DEF Strength
<1>1. ASSUME NEW e, Good(e)
      PROVE  /\ e.strength \in 1 .. 3
             /\ Good(Group(e)) /\ Group(e).strength = 3 /\ Group(e).value = e.value
  BY <1>1, GroupGood DEF Good, GoodAs, Group
<1>2. PICK x : x = IF l.strength < w THEN Group(l) ELSE l
  OBVIOUS
<1>3. PICK y : y = IF r.strength <= w THEN Group(r) ELSE r
  OBVIOUS
<1>4. Good(x) /\ x.strength \in Int /\ x.strength >= w /\ x.value = l.value
  <2>1. CASE l.strength < w
    BY <1>0, <1>1, <1>2, <2>1
  <2>2. CASE ~(l.strength < w)
    BY <1>0, <1>1, <1>2, <2>2
  <2>. QED BY <2>1, <2>2
<1>5. Good(y) /\ y.strength \in Int /\ y.strength > w /\ y.value = r.value
  <2>1. CASE r.strength <= w
    BY <1>0, <1>1, <1>3, <2>1
  <2>2. CASE ~(r.strength <= w)
    BY <1>0, <1>1, <1>3, <2>2
  <2>. QED BY <2>1, <2>2
<1>. DEFINE v == IF x.value.ok /\ y.value.ok THEN apply(o, x.value.v, y.value.v) ELSE Err
            c == x.chars \o <<Sign(" "), Sign(o)>> \o y.chars
<1>6. PICK e : e = Binary(o, l, r)
  OBVIOUS
<1>7. e = [chars |-> c, value |-> v, strength |-> w]
  BY <1>0, <1>2, <1>3, <1>4, <1>5, <1>6 DEF Binary
<1>8. e.chars = c /\ e.value = v /\ e.strength = w
  BY <1>7
<1>9. PICK T, P, b : GoodAs(x, T, P, b)
  BY <1>4 DEF Good
<1>10. PICK U, Q, d : GoodAs(y, U, Q, d)
  BY <1>5 DEF Good
<1>. DEFINE T2 == T \o <<Op(o)>> \o U
            P2 == P \o Q \o <<Op(o)>>
<1>11. c \in Seq(Symbols) /\ Reads(c, T2, b \/ d)
  <2>1. /\ x.chars \in Seq(Symbols) /\ T \in Seq(Tokens) /\ b \in BOOLEAN /\ Reads(x.chars, T, b)
        /\ T # <<>> /\ Last(T).t \in {"num", ")"}
    BY <1>9 DEF GoodAs
  <2>2. y.chars \in Seq(Symbols) /\ U \in Seq(Tokens) /\ d \in BOOLEAN /\ Reads(y.chars, U, d)
    BY <1>10 DEF GoodAs
  <2>3. PICK cx, cy : cx = x.chars /\ cy = y.chars
    OBVIOUS
  <2>4. /\ cx \o <<Sign(" "), Sign(o)>> \o cy \in Seq(Symbols)
        /\ Reads(cx \o <<Sign(" "), Sign(o)>> \o cy, T2, b \/ d)
    <3>1. cx \in Seq(Symbols) /\ Reads(cx, T, b)
      BY <2>1, <2>3
    <3>2. cy \in Seq(Symbols) /\ Reads(cy, U, d)
      BY <2>2, <2>3
    <3>. QED BY <2>1, <2>2, <3>1, <3>2, BinaryReads, ZenonT(30)
  <2>. QED BY <2>3, <2>4
<1>12. Orders(T2, P2, w)
  BY <1>0, <1>4, <1>5, <1>9, <1>10, BinaryOrders DEF GoodAs
<1>13. Evaluates(P2, v, b \/ d)
  BY <1>9, <1>10, BinaryEvaluates DEF GoodAs
<1>14. ValueOK(v)
  <2>1. x.value.v \in Int /\ y.value.v \in Int
    BY <1>9, <1>10, ValueParts DEF GoodAs
  <2>2. ValueOK(apply(o, x.value.v, y.value.v)) /\ ValueOK(Err)
    BY <2>1, ApplyOK DEF ValueOK
  <2>. QED BY <2>2
<1>15. /\ T2 \in Seq(Tokens) /\ T2 # <<>> /\ Last(T2).t \in {"num", ")"}
       /\ P2 \in Seq(Tokens)
  <2>1. /\ T \in Seq(Tokens) /\ U \in Seq(Tokens) /\ U # <<>> /\ Last(U).t \in {"num", ")"}
        /\ P \in Seq(Tokens) /\ Q \in Seq(Tokens)
    BY <1>9, <1>10 DEF GoodAs
  <2>2. PICK one \in Seq(Tokens) : one = <<Op(o)>>
    <3>1. Op(o) \in Tokens
      BY TokenKinds
    <3>2. <<Op(o)>> \in Seq(Tokens)
      BY <3>1
    <3>. QED BY <3>2
  <2>3. T \o one \in Seq(Tokens) /\ P \o Q \in Seq(Tokens)
    BY <2>1, <2>2, ConcatProperties
  <2>4. P2 \in Seq(Tokens)
    BY <2>2, <2>3, ConcatProperties
  <2>5. T2 = (T \o one) \o U
    BY <2>2
  <2>. HIDE DEF T2
  <2>6. T2 \in Seq(Tokens) /\ T2 # <<>> /\ Last(T2) = Last(U)
    BY <2>1, <2>3, <2>5, LastJoined
  <2>. QED BY <2>1, <2>4, <2>6
<1>16. (b \/ d) \in BOOLEAN /\ ((b \/ d) = TRUE => v.ok = FALSE)
  <2>1. /\ b \in BOOLEAN /\ d \in BOOLEAN /\ (b = TRUE => x.value.ok = FALSE)
        /\ (d = TRUE => y.value.ok = FALSE)
    BY <1>9, <1>10 DEF GoodAs
  <2>2. Err.ok = FALSE
    BY DEF Err
  <2>3. x.value.ok = FALSE \/ y.value.ok = FALSE => v.ok = FALSE
    BY <2>2
  <2>. QED BY <2>1, <2>3
<1>. HIDE DEF T2, P2, v, c
<1>17. w \in 1 .. 3
  BY <1>0
<1>18. GoodAs(e, T2, P2, b \/ d)
  BY <1>8, <1>11, <1>12, <1>13, <1>14, <1>15, <1>16, <1>17 DEF GoodAs
<1>. QED BY <1>6, <1>18 DEF Good

-----------------------------------------------------------------------------
(***************************************************************************)
(* The three stages compute where their readers lead.                      *)
(***************************************************************************)
TokenizeRun(g, s) ==
    g = [k \in 0 .. Len(s) |->
            IF k = 0 THEN [out |-> <<>>, lit |-> NoLiteral, bad |-> FALSE]
            ELSE Tokenize1(g[k - 1], s[k])]

YardRun(g, s) ==
    g = [k \in 0 .. Len(s) |->
            IF k = 0 THEN [output |-> <<>>, ops |-> <<>>] ELSE Yard1(g[k - 1], s[k])]

RpnRun(g, s) ==
    g = [k \in 0 .. Len(s) |->
            IF k = 0 THEN [stack |-> <<>>, bad |-> FALSE] ELSE Rpn1(g[k - 1], s[k])]

\* The three functions are runs of the readers.
LEMMA StageRuns ==
    ASSUME NEW g, NEW s
    PROVE  /\ TokenizeRun(g, s) <=> IsRun("tokenize", g, Between(<<>>, FALSE), s)
           /\ YardRun(g, s) <=> IsRun("yard", g, Yard(<<>>, <<>>), s)
           /\ RpnRun(g, s) <=> IsRun("rpn", g, Rpn(<<>>, FALSE), s)
<1>1. TokenizeRun(g, s) <=> IsRun("tokenize", g, Between(<<>>, FALSE), s)
  BY Readers DEF TokenizeRun, IsRun, Between
<1>2. YardRun(g, s) <=> IsRun("yard", g, Yard(<<>>, <<>>), s)
  BY Readers DEF YardRun, IsRun, Yard
<1>3. RpnRun(g, s) <=> IsRun("rpn", g, Rpn(<<>>, FALSE), s)
  BY Readers DEF RpnRun, IsRun, Rpn
<1>. QED BY <1>1, <1>2, <1>3

\* tokenize, from the state in front of the first character.
LEMMA TokenizeMeans ==
    ASSUME NEW S, NEW s \in Seq(S), NEW st, Takes("tokenize", Between(<<>>, FALSE), s, st)
    PROVE  tokenize(s) = Finish(st)
<1>. DEFINE after == CHOOSE g : TokenizeRun(g, s)
<1>1. tokenize(s) = Finish(after[Len(s)])
  BY DEF tokenize, TokenizeRun
<1>2. TokenizeRun(after, s)
  <2>1. \E g : TokenizeRun(g, s)
    BY TakesMeans, StageRuns
  <2>. QED BY <2>1
<1>. HIDE DEF after
<1>3. after[Len(s)] = st
  <2>1. IsRun("tokenize", after, Between(<<>>, FALSE), s)
    BY <1>2, StageRuns
  <2>2. \A g : IsRun("tokenize", g, Between(<<>>, FALSE), s) => g[Len(s)] = st
    BY TakesMeans
  <2>. QED BY <2>1, <2>2
<1>. QED BY <1>1, <1>3

\* shunting_yard, from the empty output and stack.
LEMMA YardMeans ==
    ASSUME NEW S, NEW s \in Seq(S), NEW st, Takes("yard", Yard(<<>>, <<>>), s, st)
    PROVE  shunting_yard(s) = [bad |-> \E i \in DOMAIN st.ops : st.ops[i].t = "(",
                               output |-> PopTo(st, {}).output]
<1>. DEFINE after == CHOOSE g : YardRun(g, s)
            Result(x) == [bad |-> \E i \in DOMAIN x.ops : x.ops[i].t = "(",
                          output |-> PopTo(x, {}).output]
<1>1. shunting_yard(s) = Result(after[Len(s)])
  BY DEF shunting_yard, YardRun
<1>2. YardRun(after, s)
  <2>1. \E g : YardRun(g, s)
    BY TakesMeans, StageRuns
  <2>. QED BY <2>1
<1>. HIDE DEF after
<1>3. after[Len(s)] = st
  <2>1. IsRun("yard", after, Yard(<<>>, <<>>), s)
    BY <1>2, StageRuns
  <2>2. \A g : IsRun("yard", g, Yard(<<>>, <<>>), s) => g[Len(s)] = st
    BY TakesMeans
  <2>. QED BY <2>1, <2>2
<1>4. shunting_yard(s) = Result(st)
  <2>. HIDE DEF Result
  <2>. QED BY <1>1, <1>3
<1>. QED BY <1>4

\* eval_rpn, from the empty stack.
LEMMA RpnMeans ==
    ASSUME NEW S, NEW s \in Seq(S), NEW st, Takes("rpn", Rpn(<<>>, FALSE), s, st)
    PROVE  eval_rpn(s) = IF st.bad \/ Len(st.stack) # 1 THEN Err ELSE Ok(st.stack[1])
<1>. DEFINE after == CHOOSE g : RpnRun(g, s)
            Result(x) == IF x.bad \/ Len(x.stack) # 1 THEN Err ELSE Ok(x.stack[1])
<1>1. eval_rpn(s) = Result(after[Len(s)])
  BY DEF eval_rpn, RpnRun
<1>2. RpnRun(after, s)
  <2>1. \E g : RpnRun(g, s)
    BY TakesMeans, StageRuns
  <2>. QED BY <2>1
<1>. HIDE DEF after
<1>3. after[Len(s)] = st
  <2>1. IsRun("rpn", after, Rpn(<<>>, FALSE), s)
    BY <1>2, StageRuns
  <2>2. \A g : IsRun("rpn", g, Rpn(<<>>, FALSE), s) => g[Len(s)] = st
    BY TakesMeans
  <2>. QED BY <2>1, <2>2
<1>4. eval_rpn(s) = Result(st)
  <2>. HIDE DEF Result
  <2>. QED BY <1>1, <1>3
<1>. QED BY <1>4

\* calc on an expression that is good.
LEMMA GoodEval == ASSUME NEW e, Good(e)  PROVE  eval(e.chars) = e.value
<1>1. PICK T, P, b : GoodAs(e, T, P, b)
  BY DEF Good
<1>2. /\ e.chars \in Seq(Symbols) /\ T \in Seq(Tokens) /\ P \in Seq(Tokens) /\ b \in BOOLEAN
      /\ ValueOK(e.value) /\ (b = TRUE => e.value.ok = FALSE)
  BY <1>1 DEF GoodAs
<1>3. PICK none \in Seq(Tokens) : none = <<>> /\ Len(none) = 0
  BY EmptySeq
<1>4. \A s \in Seq(Tokens) : none \o s = s
  BY <1>3, ConcatEmptySeq
<1>5. tokenize(e.chars) = Between(T, b)
  <2>1. StartsNumber(none)
    BY <1>3 DEF StartsNumber
  <2>2. PICK st : /\ Takes("tokenize", Between(none, FALSE), e.chars, st)
                  /\ Finish(st) = Between(none \o T, FALSE \/ b)
    BY <1>1, <2>1 DEF GoodAs, Reads
  <2>3. tokenize(e.chars) = Finish(st)
    BY <1>2, <1>3, <2>2, TokenizeMeans
  <2>4. (FALSE \/ b) = b
    BY <1>2
  <2>. QED BY <1>2, <1>4, <2>2, <2>3, <2>4
<1>6. PICK y : y = shunting_yard(T) /\ y.bad = FALSE /\ y.output = P
  <2>1. Weaker(none, e.strength)
    BY <1>3 DEF Weaker
  <2>2. PICK A \in Seq(Tokens), B \in Seq(OpTokens) :
           /\ Takes("yard", Yard(none, none), T, Yard(none \o A, none \o B))
           /\ A \o Reverse(B) = P
    BY <1>1, <2>1 DEF GoodAs, Orders
  <2>3. B \in Seq(Tokens)
    BY DEF OpTokens, Tokens
  <2>4. Takes("yard", Yard(<<>>, <<>>), T, Yard(A, B))
    BY <1>3, <1>4, <2>2, <2>3
  <2>5. PICK st : st = Yard(A, B) /\ st.output = A /\ st.ops = B
    <3>1. Yard(A, B).output = A /\ Yard(A, B).ops = B
      BY DEF Yard
    <3>. QED BY <3>1
  <2>6. shunting_yard(T) = [bad |-> \E i \in DOMAIN st.ops : st.ops[i].t = "(",
                            output |-> PopTo(st, {}).output]
    BY <1>2, <2>4, <2>5, YardMeans
  <2>7. ~\E i \in DOMAIN B : B[i].t = "("
    <3>1. ASSUME NEW i \in DOMAIN B  PROVE B[i].t = "op"
      BY DEF OpTokens, Op
    <3>. QED BY <3>1
  <2>8. PopTo(st, {}).output = P
    <3>1. PopTo(Yard(A, none \o B), {}) = Yard(A \o Reverse(B), none)
      BY <1>3, <2>3, PopsTo
    <3>2. PopTo(st, {}) = Yard(P, none)
      BY <1>4, <2>2, <2>3, <2>5, <3>1
    <3>. QED BY <3>2 DEF Yard
  <2>. QED BY <2>5, <2>6, <2>7, <2>8
<1>7. PICK v : v = e.value /\ ValueOK(v) /\ v.ok \in BOOLEAN
  BY <1>2, ValueParts
<1>8. PICK t : t = tokenize(e.chars) /\ t.out = T /\ t.bad = b
  BY <1>5 DEF Between
<1>9. eval(e.chars) = IF t.bad \/ y.bad THEN Err ELSE eval_rpn(y.output)
  <2>1. shunting_yard(t.out) = y
    BY <1>6, <1>8
  <2>. QED BY <1>8, <2>1 DEF eval
<1>10. PICK stack \in Seq(Int) : stack = <<>> /\ Len(stack) = 0
  BY EmptySeq
<1>11. CASE b = TRUE
  BY <1>2, <1>7, <1>8, <1>9, <1>11, ValueParts
<1>12. CASE b = FALSE /\ v.ok = FALSE
  <2>1. PICK st : Takes("rpn", Rpn(stack, FALSE), P, st) /\ st.bad = TRUE
    BY <1>1, <1>7, <1>10, <1>12 DEF GoodAs, Evaluates
  <2>2. eval_rpn(P) = Err
    BY <1>2, <1>10, <2>1, RpnMeans
  <2>3. v = Err
    BY <1>7, <1>12, ValueParts
  <2>. QED BY <1>6, <1>7, <1>8, <1>9, <1>12, <2>2, <2>3
<1>13. CASE b = FALSE /\ v.ok = TRUE
  <2>1. Takes("rpn", Rpn(stack, FALSE), P, Rpn(Append(stack, v.v), FALSE))
    BY <1>1, <1>7, <1>10, <1>13 DEF GoodAs, Evaluates
  <2>2. v.v \in Int /\ v = Ok(v.v)
    BY <1>7, <1>13, ValueParts
  <2>3. PICK s : s = Append(stack, v.v) /\ Len(s) = 1 /\ s[1] = v.v
    <3>1. Len(Append(stack, v.v)) = 1 /\ Append(stack, v.v)[1] = v.v
      BY <1>10, <2>2
    <3>. QED BY <3>1
  <2>4. PICK st : st = Rpn(s, FALSE) /\ st.bad = FALSE /\ st.stack = s
    <3>1. Rpn(s, FALSE).bad = FALSE /\ Rpn(s, FALSE).stack = s
      BY DEF Rpn
    <3>. QED BY <3>1
  <2>5. eval_rpn(P) = IF st.bad \/ Len(st.stack) # 1 THEN Err ELSE Ok(st.stack[1])
    BY <1>2, <1>10, <2>1, <2>3, <2>4, RpnMeans
  <2>6. eval_rpn(P) = v
    BY <2>2, <2>3, <2>4, <2>5
  <2>. QED BY <1>6, <1>7, <1>8, <1>9, <1>13, <2>6
<1>. QED BY <1>2, <1>7, <1>11, <1>12, <1>13

-----------------------------------------------------------------------------
(***************************************************************************)
(* Every expression is good.  Level(f, n) are the expressions of n         *)
(* operators when f has those of fewer.                                    *)
(***************************************************************************)
Level(f, n) ==
    IF n = 0 THEN {Atom(lit) : lit \in Literals}
    ELSE UNION {{Binary(o, l, r) : o \in Ops, l \in f[i], r \in f[n - 1 - i]} : i \in 0 .. n - 1}

Grown(f, m) == f = [n \in 0 .. m |-> Level(f, n)]

\* The members of a level.
LEMMA LevelMembers ==
    ASSUME NEW f, NEW n \in Nat, NEW z
    PROVE  z \in Level(f, n) <=>
             \/ n = 0 /\ \E lit \in Literals : z = Atom(lit)
             \/ n # 0 /\ \E i \in 0 .. n - 1 : \E o \in Ops, l \in f[i], r \in f[n - 1 - i] :
                           z = Binary(o, l, r)
<1>1. CASE n = 0
  BY <1>1 DEF Level
<1>2. CASE n # 0
  <2>. DEFINE Pairs(i) == {Binary(o, l, r) : o \in Ops, l \in f[i], r \in f[n - 1 - i]}
  <2>1. Level(f, n) = UNION {Pairs(i) : i \in 0 .. n - 1}
    BY <1>2 DEF Level
  <2>2. ASSUME NEW i
        PROVE  z \in Pairs(i) <=> \E o \in Ops, l \in f[i], r \in f[n - 1 - i] : z = Binary(o, l, r)
    OBVIOUS
  <2>. HIDE DEF Pairs
  <2>3. z \in Level(f, n) <=> \E i \in 0 .. n - 1 : z \in Pairs(i)
    BY <2>1
  <2>. QED BY <1>2, <2>2, <2>3
<1>. QED BY <1>1, <1>2

\* A level depends on the lower ones only.
LEMMA LevelSame ==
    ASSUME NEW f, NEW g, NEW n \in Nat, \A i \in 0 .. n - 1 : f[i] = g[i]
    PROVE  Level(f, n) = Level(g, n)
<1>1. CASE n = 0
  BY <1>1 DEF Level
<1>2. CASE n # 0
  <2>1. ASSUME NEW i \in 0 .. n - 1  PROVE f[i] = g[i] /\ f[n - 1 - i] = g[n - 1 - i]
    <3>1. n - 1 - i \in 0 .. n - 1
      BY <1>2
    <3>. QED BY <3>1
  <2>2. ASSUME NEW z  PROVE z \in Level(f, n) <=> z \in Level(g, n)
    BY <1>2, <2>1, LevelMembers
  <2>3. PICK p, q : p = Level(f, n) /\ q = Level(g, n)
    OBVIOUS
  <2>4. \A z : z \in p <=> z \in q
    BY <2>2, <2>3
  <2>5. p = q
    BY <2>4
  <2>. QED BY <2>3, <2>5
<1>. QED BY <1>1, <1>2

\* Such a function exists for every m, by induction on m.
LEMMA GrownExists == ASSUME NEW n \in Nat  PROVE  \E f : Grown(f, n)
<1>. DEFINE T == {m \in Nat : ~\E f : Grown(f, m)}
<1>1. SUFFICES ASSUME n \in T  PROVE FALSE
  OBVIOUS
<1>2. T \in SUBSET Nat /\ T # {}
  BY <1>1
<1>3. PICK m \in T : \A y \in T : m <= y
  <2>. HIDE DEF T
  <2>. QED BY <1>2, LeastNatural
<1>4. m \in Nat /\ ~\E f : Grown(f, m)
  OBVIOUS
<1>5. PICK f : m # 0 => Grown(f, m - 1)
  <2>1. CASE m = 0
    BY <2>1
  <2>2. CASE m # 0
    <3>1. m - 1 \in Nat /\ ~(m <= m - 1)
      BY <1>4, <2>2
    <3>2. m - 1 \notin T
      BY <1>3, <3>1
    <3>. QED BY <3>1, <3>2
  <2>. QED BY <2>1, <2>2
<1>6. ASSUME NEW k \in 0 .. m - 1  PROVE f[k] = Level(f, k)
  <2>1. m # 0
    BY <1>4
  <2>. QED BY <1>5, <2>1 DEF Grown
<1>. DEFINE top == Level(f, m)
            g == [k \in 0 .. m |-> IF k = m THEN top ELSE f[k]]
<1>7. ASSUME NEW k \in 0 .. m  PROVE Level(g, k) = Level(f, k)
  <2>1. ASSUME NEW i \in 0 .. k - 1  PROVE g[i] = f[i]
    <3>1. i \in 0 .. m /\ i # m
      BY <1>4
    <3>. HIDE DEF top
    <3>. QED BY <3>1
  <2>. HIDE DEF g
  <2>2. k \in Nat
    OBVIOUS
  <2>. QED BY <2>1, <2>2, LevelSame
<1>8. ASSUME NEW k \in 0 .. m  PROVE g[k] = Level(g, k)
  <2>1. CASE k = m
    BY <1>7, <2>1
  <2>2. CASE k # m
    <3>1. k \in 0 .. m - 1
      BY <1>4, <2>2
    <3>2. g[k] = f[k]
      BY <2>2
    <3>. HIDE DEF g
    <3>. QED BY <1>6, <1>7, <3>1, <3>2
  <2>. QED BY <2>1, <2>2
<1>9. g = [k \in 0 .. m |-> g[k]]
  OBVIOUS
<1>. HIDE DEF g
<1>10. Grown(g, m)
  BY <1>8, <1>9 DEF Grown
<1>. QED BY <1>4, <1>10

\* The expressions of n operators.
LEMMA ExpressionLevels == \A n \in 0 .. MaxOps : Expressions[n] = Level(Expressions, n)
<1>1. Expressions = CHOOSE f : Grown(f, MaxOps)
  BY DEF Expressions, Grown, Level
<1>2. \E f : Grown(f, MaxOps)
  BY CalcAssumption, GrownExists
<1>3. Grown(Expressions, MaxOps)
  BY <1>1, <1>2
<1>4. PICK f : f = Expressions
  OBVIOUS
<1>5. \A n \in 0 .. MaxOps : f[n] = Level(f, n)
  BY <1>3, <1>4 DEF Grown
<1>. QED BY <1>4, <1>5

\* By induction on the number of operators.
LEMMA AllGood == ASSUME NEW n \in 0 .. MaxOps, NEW e \in Expressions[n]  PROVE  Good(e)
<1>. DEFINE T == {m \in 0 .. MaxOps : \E z \in Expressions[m] : ~Good(z)}
<1>0. MaxOps \in Nat
  BY CalcAssumption
<1>1. SUFFICES ASSUME T # {}  PROVE FALSE
  OBVIOUS
<1>2. PICK m \in T : \A y \in T : m <= y
  <2>1. T \in SUBSET Nat
    BY <1>0
  <2>. HIDE DEF T
  <2>. QED BY <1>1, <2>1, LeastNatural
<1>3. m \in 0 .. MaxOps /\ m \in Nat
  BY <1>0
<1>4. PICK z \in Expressions[m] : ~Good(z)
  OBVIOUS
<1>5. z \in Level(Expressions, m)
  BY <1>3, <1>4, ExpressionLevels
<1>6. CASE m = 0
  <2>1. PICK lit \in Literals : z = Atom(lit)
    BY <1>3, <1>5, <1>6, LevelMembers
  <2>. QED BY <1>4, <2>1, AtomGood
<1>7. CASE m # 0
  <2>1. PICK i \in 0 .. m - 1 : \E o \in Ops, l \in Expressions[i], r \in Expressions[m - 1 - i] :
                                  z = Binary(o, l, r)
    BY <1>3, <1>5, <1>7, LevelMembers
  <2>2. PICK o \in Ops, l \in Expressions[i], r \in Expressions[m - 1 - i] : z = Binary(o, l, r)
    BY <2>1
  <2>3. /\ i \in 0 .. MaxOps /\ ~(m <= i)
        /\ m - 1 - i \in 0 .. MaxOps /\ ~(m <= m - 1 - i)
    BY <1>0, <1>3, <1>7
  <2>4. i \notin T /\ m - 1 - i \notin T
    BY <1>2, <2>3
  <2>5. Good(l) /\ Good(r)
    BY <2>2, <2>3, <2>4
  <2>. QED BY <1>4, <2>2, <2>5, BinaryGood
<1>. QED BY <1>6, <1>7

\* calc gives every expression, with any number of operators, the value it
\* means: eval is tokenize, shunting_yard and eval_rpn of src/shell/calc.rs.
THEOREM EvalIsRight ==
    \A n \in 0 .. MaxOps : \A e \in Expressions[n] : eval(e.chars) = e.value
<1>1. ASSUME NEW n \in 0 .. MaxOps, NEW e \in Expressions[n]  PROVE eval(e.chars) = e.value
  BY AllGood, GoodEval
<1>. QED BY <1>1

\* So the answer cmd_calc prints is the value of the expression it was asked,
\* in every state of the shell with the calculator.
THEOREM CalcIsRight == CalcSpec => []CalcAgrees
<1>1. CalcInit => CalcAgrees
  BY DEF CalcInit, CalcAgrees
<1>2. CalcAgrees /\ [CalcNext]_<<vars, calcVars>> => CalcAgrees'
  <2>1. ASSUME CalcAgrees, UNCHANGED <<vars, calcVars>>  PROVE CalcAgrees'
    BY <2>1 DEF CalcAgrees, calcVars
  <2>2. ASSUME asked' = <<>>  PROVE CalcAgrees'
    BY <2>2 DEF CalcAgrees
  <2>3. ASSUME NEW n \in 0 .. MaxOps, NEW e \in Expressions[n], cmd_calc(e)  PROVE CalcAgrees'
    <3>1. asked' = <<e>> /\ answer' = eval(e.chars)
      BY <2>3 DEF cmd_calc
    <3>2. answer' = e.value
      BY <3>1, EvalIsRight
    <3>3. \A i \in DOMAIN <<e>> : <<e>>[i] = e
      OBVIOUS
    <3>4. \A i \in DOMAIN asked' : asked'[i] = e
      BY <3>1, <3>3
    <3>. QED BY <3>2, <3>4 DEF CalcAgrees
  <2>. QED BY <2>1, <2>2, <2>3 DEF CalcNext
<1>. QED BY <1>1, <1>2, PTL DEF CalcSpec

\* The calculator is one more command of the shell: to the rest of the shell a
\* calc is a command that changes no file, like a cat, so that all that is
\* proved of Spec holds with the calculator too.
THEOREM CalcUsesShell == CalcSpec => Spec
<1>1. CalcInit => Init
  BY DEF CalcInit
<1>2. ASSUME NEW e, cmd_calc(e)  PROVE Next
  <2>1. PICK c : c = [op |-> "cat", src |-> BadName] /\ c.op = "cat" /\ c.src = BadName
    <3>. DEFINE cat == [op |-> "cat", src |-> BadName]
    <3>1. cat.op = "cat" /\ cat.src = BadName
      OBVIOUS
    <3>. HIDE DEF cat
    <3>2. \E c : c = cat /\ c.op = "cat" /\ c.src = BadName
      BY <3>1
    <3>. QED BY <3>2 DEF cat
  <2>2. c \in Commands
    BY <2>1 DEF Commands, Words
  <2>3. dispatch(c)
    BY <1>2, <2>1 DEF cmd_calc, dispatch, cmd_cat
  <2>4. Run(c)
    BY <1>2, <2>3 DEF cmd_calc, Run
  <2>. QED BY <2>2, <2>4 DEF Next
<1>3. [CalcNext]_<<vars, calcVars>> => [Next]_vars
  BY <1>2 DEF CalcNext
<1>. QED BY <1>1, <1>3, PTL DEF CalcSpec, Spec

\* With the calculator the shell keeps all its promises: the indices it does not
\* check are in range, the screen shows the line, the editor's dirty flag tells
\* the truth, no content is lost by accident, and calc is right.
COROLLARY ShellWithCalc ==
    CalcSpec => [](NoPanic /\ EchoMatches /\ CleanMeansStored /\ CalcAgrees) /\ NothingLost
  BY CalcUsesShell, CalcIsRight, IndicesInRange, EchoIsLine, CleanIsStored, ContentsKept, PTL
=============================================================================
