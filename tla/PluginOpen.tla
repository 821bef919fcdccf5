------------------------------- MODULE PluginOpen ------------------------------
(***************************************************************************)
(* How an instance of the plugin comes about: the open function of         *)
(* src/alsa_plugin.cpp reads its configuration, the constructor of         *)
(* AlsaPluginDxO loads the coefficient file line by line (loadFIRCoeffs)   *)
(* and builds the crossover for it (module ConvolutionTasks), and the open *)
(* function registers the ioplug and the parameters it accepts.  The tests *)
(* build crossovers directly.                                              *)
(*                                                                         *)
(* A line of the file is a sequence of tokens: "num" a number, "cut" the   *)
(* beginning of one (a sign, a mantissa and an e), "word" something else,  *)
(* "#" the mark of a comment, "sp" a run of whitespace, which includes the *)
(* carriage return of a DOS line end.  A coefficient is <<line, k>>, the   *)
(* k-th number of that line.                                               *)
(***************************************************************************)
EXTENDS BlockArithmetic, ConvolutionTasks

CONSTANTS
  Configurations,     \* the configurations to open plugins with: sequences of entries
  DefaultBlockSize,   \* the block size if the configuration has none
  MaxCoeffs           \* bound: coefficients of one line

Tokens == {"num", "cut", "word", "#", "sp"}

(* What a path leads to: nothing, a directory, or lines in which whitespace *)
(* is in runs.                                                              *)
IsFile(p) ==
  /\ p \in [kind : {"missing", "directory", "text"}, lines : Seq(Seq(Tokens))]
  /\ p.kind # "text" => p.lines = <<>>
  /\ \A n \in DOMAIN p.lines : \A k \in 1 .. Len(p.lines[n]) - 1 :
        ~(p.lines[n][k] = "sp" /\ p.lines[n][k + 1] = "sp")

(* An entry of a configuration; a block size is positive. *)
IsEntry(e) ==
  /\ e.id = "slave" => e.pcm \in {"name", "empty", "none"}
  /\ e.id \in {"blocksize", "fir_delay"} => e.integer \in BOOLEAN
  /\ e.id = "blocksize" /\ e.integer => e.value \in Nat \ {0}
  /\ e.id = "fir_delay" /\ e.integer => e.value \in Int
  /\ e.id = "path" => IsFile(e.value)

ASSUME OpenAssumption ==
  /\ {0, 1, 2} \subseteq Channels
  /\ DefaultBlockSize \in Nat \ {0}
  /\ MaxCoeffs \in Nat
  /\ \A c \in Configurations :
        /\ c # <<>> /\ c \in Seq(ToSet(c))
        /\ \A k \in DOMAIN c : IsEntry(c[k])

VARIABLES
  conf,      \* the configuration, chosen once
  entry,     \* index of the next entry of it
  settings,  \* slavePcm, blockSize, firDelay and coeffPath
  step,      \* where the open function is
  lineNo,    \* the line of the file to read next
  rest,      \* what the string stream of a line has left
  failed,    \* the stream's failbit
  ended,     \* the stream's eofbit
  coeffs,    \* the coefficients of the line so far
  filters,   \* the coefficients of the lines before
  limits,    \* the ioplug parameters set so far
  created    \* external: snd_pcm_ioplug_create has succeeded

NumFilters == 7
NumLimits  == 7

(* The input channel of each filter. *)
InputOf == <<0, 0, 0, 1, 1, 1, 2>>

fileVars  == <<lineNo, rest, failed, ended, coeffs, filters>>
openVars  == <<conf, entry, settings>>
pcmVars   == <<limits, created>>
vars      == <<openVars, step, fileVars, pcmVars, graphVars>>

Missing == [kind |-> "missing", lines |-> <<>>]

Defaults == [slave |-> FALSE, blockSize |-> DefaultBlockSize, firDelay |-> 0, path |-> Missing]

Idle ==
  /\ entry = 1 /\ settings = Defaults
  /\ lineNo = 1 /\ rest = <<>> /\ failed = FALSE /\ ended = FALSE
  /\ coeffs = <<>> /\ filters = <<>>
  /\ limits = 0 /\ created = FALSE
  /\ InitGraph

Init ==
  /\ Idle
  /\ \/ /\ step = "config"
        /\ conf \in Configurations
        /\ config = [filters |-> <<>>, combine |-> 4]
     \/ /\ step = "crossover"
        /\ conf = <<>>
        /\ config \in Configs
--------------------------------------------------------------------------------
(* SND_PCM_PLUGIN_DEFINE_FUNC: the entries of the configuration.  A slave   *)
(* without a pcm entry, a block size that is not an integer and an unknown  *)
(* entry change nothing.                                                    *)
Setting(e) ==
  CASE e.id = "slave" /\ e.pcm # "none" -> [settings EXCEPT !.slave = (e.pcm = "name")]
    [] e.id = "blocksize" /\ e.integer  -> [settings EXCEPT !.blockSize = e.value]
    [] e.id = "fir_delay" /\ e.integer  -> [settings EXCEPT !.firDelay = Max({0, e.value})]
    [] e.id = "path"                    -> [settings EXCEPT !.path = e.value]
    [] OTHER                            -> settings

ReadEntry ==
  /\ step = "config"
  /\ entry <= Len(conf)
  /\ settings' = Setting(conf[entry])
  /\ entry' = entry + 1
  /\ UNCHANGED <<conf, step, fileVars, pcmVars, graphVars>>

NoSlave ==
  /\ step = "config"
  /\ entry > Len(conf)
  /\ ~settings.slave
  /\ step' = "error"
  /\ UNCHANGED <<openVars, fileVars, pcmVars, graphVars>>

(* A file that cannot be opened: invalid_argument leaves the open function. *)
OpenFile ==
  /\ step = "config"
  /\ entry > Len(conf)
  /\ settings.slave
  /\ step' = IF settings.path = Missing THEN "thrown" ELSE "line"
  /\ UNCHANGED <<openVars, fileVars, pcmVars, graphVars>>
--------------------------------------------------------------------------------
(* loadFIRCoeffs *)
Lines == settings.path.lines

SkipSpaces(line) == IF line # <<>> /\ Head(line) = "sp" THEN Tail(line) ELSE line

(* The first token after the whitespace. *)
First(line) ==
  LET text == SkipSpaces(line) IN IF text = <<>> THEN "end" ELSE Head(text)

Ignored(line) == First(line) \in {"end", "#"}

SkipLine ==
  /\ step = "line"
  /\ lineNo <= Len(Lines)
  /\ Ignored(Lines[lineNo])
  /\ lineNo' = lineNo + 1
  /\ UNCHANGED <<openVars, step, rest, failed, ended, coeffs, filters, pcmVars, graphVars>>

StartLine ==
  /\ step = "line"
  /\ lineNo <= Len(Lines)
  /\ ~Ignored(Lines[lineNo])
  /\ rest' = Lines[lineNo]
  /\ failed' = FALSE /\ ended' = FALSE
  /\ coeffs' = <<>>
  /\ step' = "number"
  /\ UNCHANGED <<openVars, lineNo, filters, pcmVars, graphVars>>

Zero == <<0, 0>>

(* Mutant: the stream is not at its end after the last number. *)
Mut_ReadNumberPastEnd ==
  /\ step = "number"
  /\ ~ended /\ ~failed
  /\ First(rest) = "num"
  /\ rest' = Tail(SkipSpaces(rest))
  /\ coeffs' = Append(coeffs, <<lineNo, Len(coeffs) + 1>>)
  /\ UNCHANGED <<openVars, step, lineNo, failed, ended, filters, pcmVars, graphVars>>

(* The stream meets the end of the line while it reads the last number. *)
ReadNumber ==
  /\ step = "number"
  /\ ~ended /\ ~failed
  /\ First(rest) = "num"
  /\ rest' = Tail(SkipSpaces(rest))
  /\ ended' = (rest' = <<>>)
  /\ coeffs' = Append(coeffs, <<lineNo, Len(coeffs) + 1>>)
  /\ UNCHANGED <<openVars, step, lineNo, failed, filters, pcmVars, graphVars>>

(* Mutant: reading fails at the end of the line, and that is not its end. *)
Mut_ReadBlanksNoEnd ==
  /\ step = "number"
  /\ ~ended /\ ~failed
  /\ First(rest) = "end"
  /\ failed' = TRUE
  /\ rest' = <<>>
  /\ coeffs' = Append(coeffs, Zero)
  /\ UNCHANGED <<openVars, step, lineNo, ended, filters, pcmVars, graphVars>>

(* Only whitespace is left: the value is zero, and is pushed. *)
ReadBlanks ==
  /\ step = "number"
  /\ ~ended /\ ~failed
  /\ First(rest) = "end"
  /\ failed' = TRUE /\ ended' = TRUE
  /\ rest' = <<>>
  /\ coeffs' = Append(coeffs, Zero)
  /\ UNCHANGED <<openVars, step, lineNo, filters, pcmVars, graphVars>>

(* What is next is no number: zero is pushed.  A token that only begins     *)
(* like a number is read, and the stream may end after it; in front of any  *)
(* other one it stays, and because it has failed it never comes to its end. *)
ReadGarbage ==
  /\ step = "number"
  /\ ~ended /\ ~failed
  /\ First(rest) \in {"cut", "word", "#"}
  /\ failed' = TRUE
  /\ rest' = IF First(rest) = "cut" THEN Tail(SkipSpaces(rest)) ELSE rest
  /\ ended' = (rest' = <<>>)
  /\ coeffs' = Append(coeffs, Zero)
  /\ UNCHANGED <<openVars, step, lineNo, filters, pcmVars, graphVars>>

(* A stream that has failed reads nothing: zeros are pushed for ever. *)
PushZeros ==
  /\ step = "number"
  /\ ~ended /\ failed
  /\ coeffs' = IF Len(coeffs) < MaxCoeffs THEN Append(coeffs, Zero) ELSE coeffs
  /\ UNCHANGED <<openVars, step, lineNo, rest, failed, ended, filters, pcmVars, graphVars>>

EndLine ==
  /\ step = "number"
  /\ ended
  /\ filters' = Append(filters, coeffs)
  /\ lineNo' = lineNo + 1
  /\ step' = "line"
  /\ UNCHANGED <<openVars, rest, failed, ended, coeffs, pcmVars, graphVars>>

(* A directory can be opened, but neither read nor read to its end. *)
ReadDirectory ==
  /\ step = "line"
  /\ settings.path.kind = "directory"
  /\ UNCHANGED vars

(* Mutant: the last, incomplete block is not counted. *)
Mut_BlocksOfFloor(h) == Len(h) \div settings.blockSize

(* ceil(h.size() / subFilterSize_) *)
BlocksOf(h) == (Len(h) + settings.blockSize - 1) \div settings.blockSize

(* transformFilterCoeffs: what block b of the filter is transformed from.   *)
Segment(h, b) ==
  [k \in 1 .. 2 * settings.blockSize |->
     IF k <= settings.blockSize /\ b * settings.blockSize + k <= Len(h)
       THEN h[b * settings.blockSize + k] ELSE Zero]

Crossover(fs) ==
  [filters |-> [f \in 1 .. NumFilters |->
                  [channel |-> InputOf[f], numBlocks |-> BlocksOf(fs[f])]],
   combine |-> 4]

(* Mutant: seven filters or more will do. *)
Mut_FileReadMore ==
  /\ step = "line"
  /\ settings.path.kind = "text"
  /\ lineNo > Len(Lines)
  /\ IF Len(filters) >= NumFilters
       THEN step' = "crossover" /\ config' = Crossover(filters)
       ELSE step' = "aborted" /\ UNCHANGED config
  /\ UNCHANGED <<openVars, fileVars, pcmVars, dependencies, dependents, filter, phase, i,
                 deps, sumUp, sums, results>>

(* The end of the file, and the assertion of the constructor. *)
FileRead ==
  /\ step = "line"
  /\ settings.path.kind = "text"
  /\ lineNo > Len(Lines)
  /\ IF Len(filters) = NumFilters
       THEN step' = "crossover" /\ config' = Crossover(filters)
       ELSE step' = "aborted" /\ UNCHANGED config
  /\ UNCHANGED <<openVars, fileVars, pcmVars, dependencies, dependents, filter, phase, i,
                 deps, sumUp, sums, results>>
--------------------------------------------------------------------------------
(* The constructor of FirMultiChannelCrossover. *)
BuildCrossover ==
  /\ step = "crossover"
  /\ BuildGraph
  /\ UNCHANGED <<openVars, step, fileVars, pcmVars>>

(* The plugin has been constructed: snd_pcm_ioplug_create. *)
CreateIoplug ==
  /\ step = "crossover"
  /\ phase = "done"
  /\ conf # <<>>
  /\ \/ created' = TRUE /\ step' = "limits"
     \/ created' = FALSE /\ step' = "error"
  /\ UNCHANGED <<openVars, fileVars, limits, graphVars>>

(* snd_pcm_ioplug_set_param_*: access, format, channels, period and buffer  *)
(* bytes, rate, periods; pcmp is assigned after the last.                   *)
SetLimit ==
  /\ step = "limits"
  /\ limits < NumLimits
  /\ \/ /\ limits' = limits + 1
        /\ step' = IF limits + 1 = NumLimits THEN "opened" ELSE step
     \/ limits' = limits /\ step' = "error"
  /\ UNCHANGED <<openVars, fileVars, created, graphVars>>

(* The open function has returned, thrown or aborted, or a test has its     *)
(* crossover.                                                               *)
Over ==
  /\ \/ step \in {"opened", "error", "thrown", "aborted"}
     \/ step = "crossover" /\ phase = "done" /\ conf = <<>>
  /\ UNCHANGED vars

Load ==
  \/ SkipLine \/ StartLine
  \/ ReadNumber \/ ReadBlanks \/ ReadGarbage \/ PushZeros \/ EndLine
  \/ FileRead

Next ==
  \/ ReadEntry \/ NoSlave \/ OpenFile
  \/ Load \/ ReadDirectory
  \/ BuildCrossover
  \/ CreateIoplug \/ SetLimit
  \/ Over

(* The thread that opens the plugin goes on reading. *)
Spec == Init /\ [][Next]_vars /\ WF_vars(Load)
--------------------------------------------------------------------------------
(* Properties. *)

(* The lines of the file that are neither blank nor comments. *)
DataLines == {n \in DOMAIN Lines : ~Ignored(Lines[n])}

(* How many of the first k tokens of line n are numbers. *)
NumbersIn(n, k) == Cardinality({j \in 1 .. k : Lines[n][j] = "num"})

(* The line is a list of numbers, or would be but for its last token. *)
Finite(n) ==
  LET l == Len(Lines[n])
  IN  \A k \in 1 .. l : Lines[n][k] \in IF k = l THEN {"num", "sp", "cut"} ELSE {"num", "sp"}

(* The numbers of the first k tokens of line n. *)
Numbers(n, k) == [j \in 1 .. NumbersIn(n, k) |-> <<n, j>>]

(* What becomes of line n: its numbers, and a zero if it does not end in one. *)
Read(n) ==
  LET l == Len(Lines[n])
  IN  Numbers(n, l) \o IF Lines[n][l] = "num" THEN <<>> ELSE <<Zero>>

(* Line n is the f-th data line. *)
IsDataLine(f, n) == n \in DataLines /\ Cardinality({m \in DataLines : m <= n}) = f

(* The type of every variable. *)
TypeOK ==
  /\ conf \in Configurations \cup {<<>>}
  /\ entry \in 1 .. Len(conf) + 1
  /\ settings \in [slave : BOOLEAN, blockSize : Nat \ {0}, firDelay : Nat,
                   path : {settings.path}]
  /\ IsFile(settings.path)
  /\ step \in {"config", "line", "number", "crossover", "limits", "opened", "error",
               "thrown", "aborted"}
  /\ lineNo \in 1 .. Len(Lines) + 1
  /\ rest \in Seq(Tokens)
  /\ failed \in BOOLEAN /\ ended \in BOOLEAN
  /\ coeffs \in Seq(Nat \X Nat)
  /\ filters \in Seq(Seq(Nat \X Nat)) /\ \A f \in DOMAIN filters : filters[f] # <<>>
  /\ limits \in 0 .. NumLimits /\ created \in BOOLEAN

(* How far the open function is, and what that says of its variables. *)
StepOK ==
  /\ settings.slave => \E k \in 1 .. entry - 1 : conf[k].id = "slave" /\ conf[k].pcm = "name"
  /\ conf = <<>> => step = "crossover"
  /\ conf # <<>> /\ step \in {"line", "number", "crossover", "limits", "opened"} =>
        settings.slave
  /\ step = "config" => lineNo = 1 /\ filters = <<>>
  /\ step \in {"line", "number"} => settings.path.kind # "missing"
  /\ step \in {"limits", "opened"} => conf # <<>> /\ created /\ phase = "done"
  /\ step = "opened" => limits = NumLimits
  /\ step = "number" => lineNo \in DataLines

(* The first tokens of the line have been read, rest are the others.  Until  *)
(* reading fails they are numbers and blanks, and the coefficients are these *)
(* numbers; at the end of the line the filter is complete.                   *)
LineOK ==
  step = "number" =>
    /\ ended => coeffs # <<>> /\ Finite(lineNo) /\ coeffs = Read(lineNo)
    /\ ~ended /\ ~failed =>
          \E k \in 0 .. Len(Lines[lineNo]) - 1 :
             /\ rest = SubSeq(Lines[lineNo], k + 1, Len(Lines[lineNo]))
             /\ \A j \in 1 .. k : Lines[lineNo][j] \in {"num", "sp"}
             /\ coeffs = Numbers(lineNo, k)

(***************************************************************************)
(* The filters are the data lines of the file in order, each with its      *)
(* numbers in order and one zero more only if the line ends in whitespace  *)
(* or in the beginning of a number; a line with a word in it never becomes *)
(* a filter.                                                               *)
(***************************************************************************)
FiltersAsWritten ==
  \A f \in DOMAIN filters :
     \E n \in DataLines : IsDataLine(f, n) /\ Finite(n) /\ filters[f] = Read(n)

(* The filters are the data lines before the next line. *)
FiltersOK ==
  /\ Len(filters) = Cardinality({n \in DataLines : n < lineNo})
  /\ FiltersAsWritten

(* The crossover is only built once its filters are known. *)
CrossoverOK ==
  /\ step \in {"config", "line", "number", "thrown", "aborted"} => config.filters = <<>>
  /\ step \in {"crossover", "limits", "opened"} => config.filters # <<>>
  /\ IF config.filters = <<>> THEN InitGraph ELSE GraphInv
  /\ step \in {"crossover", "limits", "opened"} /\ conf # <<>> =>
       /\ lineNo = Len(Lines) + 1
       /\ Len(filters) = NumFilters
       /\ config = Crossover(filters)

OpenInv == TypeOK /\ StepOK /\ LineOK /\ FiltersOK /\ CrossoverOK

(***************************************************************************)
(* A file of numbers, comments and blank lines is read to its end: the     *)
(* loops stop on eof() alone.                                              *)
(***************************************************************************)
LoadEnds ==
  (/\ step \in {"line", "number"}
   /\ settings.path.kind = "text"
   /\ \A n \in DataLines : Finite(n))
     ~> step \in {"crossover", "aborted"}

(***************************************************************************)
(* When the open function reports success, the plugin has a slave to open, *)
(* a crossover of seven filters, as many as the file has data lines, on    *)
(* the inputs left, right and LFE, and an ioplug with all its parameters.  *)
(***************************************************************************)
OpenedComplete ==
  step = "opened" =>
    /\ \E k \in DOMAIN conf : conf[k].id = "slave" /\ conf[k].pcm = "name"
    /\ created /\ limits = NumLimits
    /\ phase = "done"
    /\ Cardinality(DataLines) = NumFilters
    /\ \A f \in 1 .. NumFilters :
          /\ Job("combine", f) \in Made
          /\ dependencies[Job("combine", f)][1] =
                Job("in", IF f <= 3 THEN 0 ELSE IF f <= 6 THEN 1 ELSE 2)

(***************************************************************************)
(* For the block size of the configuration, the arithmetic on the spectra  *)
(* of a crossover, fftSize_ / 2 + 1 bins, covers every bin once.           *)
(***************************************************************************)
EveryBinOnce ==
  step = "crossover" /\ phase = "done" =>
    LET size == (2 * settings.blockSize) \div 2 + 1
    IN  Bins(size) = [k \in 1 .. size |-> k - 1]

(***************************************************************************)
(* The blocks a filter is cut into hold its coefficients in order, each    *)
(* once, with zeros for less than a block at the end, and zeros in the     *)
(* second half of each transform, as overlap-save wants them.              *)
(***************************************************************************)
EveryTapOnce ==
  step = "crossover" /\ conf # <<>> =>
    \A f \in DOMAIN filters :
       LET size   == settings.blockSize
           blocks == [n \in 1 .. BlocksOf(filters[f]) |-> Segment(filters[f], n - 1)]
           taps   == FlattenSeq([n \in DOMAIN blocks |-> SubSeq(blocks[n], 1, size)])
       IN  /\ \E zeros \in 0 .. size - 1 : taps = filters[f] \o [k \in 1 .. zeros |-> Zero]
           /\ \A n \in DOMAIN blocks : \A k \in size + 1 .. 2 * size : blocks[n][k] = Zero

================================================================================
