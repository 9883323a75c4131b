------------------------------ MODULE MCTools ------------------------------
(***************************************************************************)
(* The log filters, and three programs that work through a file: a         *)
(* behaviour is of one of them.                                            *)
(***************************************************************************)
EXTENDS MCLogFilter

CONSTANTS
  TypeCol, Go, Types, Faults,   \* of Track,
  DeviceIds, DeviceLines,       \* the uids, and the file of the devices,
  Tables, RowLists, MaxNear,    \* and the tables of connections
  LineSize, BufSize,            \* of FromBin,
  HexBytes, Inputs,             \* and its input files
  MaxSize, MaxText, Sessions    \* of Har, and its sessions

\* What the columns of a table can be; they are counted from 1.
Kinds == {"char", "text", "int", "other", "binary"}
Entries == [uid : DeviceIds, type : Int, empty : BOOLEAN]

ASSUME TrackAssumption ==
  /\ TypeCol \in Nat \ {0} /\ MaxNear \in Nat
  /\ Tables \subseteq Seq(Kinds)
  /\ RowLists \subseteq Seq(Entries)

\* A byte in hex is not a line end.
ASSUME FromBinAssumption ==
  /\ LineSize \in Nat \ {0} /\ BufSize \in Nat \ {0}
  /\ Inputs \subseteq Seq(HexBytes) /\ "\n" \notin HexBytes

ASSUME HarAssumption ==
  MaxSize \in Nat /\ Sessions \subseteq Seq([video : BOOLEAN, text : Seq(Int)])

VARIABLES
  program,
  lines, columns, rows, near, step, lmap, elist, at, result, csv, total,
  input, taken, chunk, todo, out, stage, cut,
  entries, entry, i, prefix, output, video, phase

Stat == INSTANCE Track
Bin == INSTANCE FromBin WITH step <- stage
Film == INSTANCE Har WITH at <- entry, file <- video, step <- phase

statVars == <<lines, columns, rows, near, step, lmap, elist, at, result, csv, total>>
binVars == <<input, taken, chunk, todo, out, stage, cut>>
filmVars == <<entries, entry, i, prefix, output, video, phase>>
filterVars == <<commands, filter>>
MCvars == <<filterVars, statVars, binVars, filmVars, program>>

-----------------------------------------------------------------------------
(* files of the runs *)

\* c is a device of another type.
MCDeviceLines == <<[uid |-> "a", type |-> Go], [uid |-> "c", type |-> 0],
             [uid |-> "b", type |-> Go], [uid |-> "a", type |-> Go]>>

\* Tables as they should be; with an unknown column; without the type; with a
\* column that cannot be read.
MCTables == {<<"char", "text", "int">>, <<"char", "int", "int", "text">>,
           <<"char", "other", "int">>, <<"char", "other", "int", "int">>,
           <<"char", "int">>, <<"char", "int", "int", "binary">>}

\* Three rows; the text of the second may have characters.
MCRowLists ==
  {[k \in 1..3 |-> [uid |-> us[k], type |-> ts[k], empty |-> k # 2 \/ e]] :
     us \in [1..3 -> DeviceIds], ts \in [1..3 -> {0, 2, 3}], e \in BOOLEAN}

MCInputs == {SubSeq(<<"b1", "b2", "b3", "b4", "b5", "b6">>, 1, n) : n \in 0..6}

\* '=', 'g', '/', a line end, and a character that is not of base64: whole
\* groups, padded ones, and '=' where it cannot be, with line ends between
Texts == UNION {[1..n -> {61, 103, 47, 10, 33}] : n \in 0..MaxText}
Second == [video |-> TRUE, text |-> <<103, 47, 103>>]
MCSessions == {<<[video |-> v, text |-> t], Second>> : v \in BOOLEAN, t \in Texts}
                \cup {<<[video |-> TRUE, text |-> t]>> : t \in Texts}

-----------------------------------------------------------------------------

MCInit ==
  /\ program \in {"filter", "track", "frombin", "har"}
  /\ Init /\ Stat!Init /\ Bin!Init /\ Film!Init
  /\ lines = DeviceLines
  /\ columns \in (IF program = "track" THEN Tables ELSE {<<>>})
  /\ rows \in (IF program = "track" THEN RowLists ELSE {<<>>})
  /\ near \in {n \in 0..MaxNear : n <= Len(rows)}
  /\ input \in (IF program = "frombin" THEN Inputs ELSE {<<>>})
  /\ entries \in (IF program = "har" THEN Sessions ELSE {<<>>})

Only(p) == program = p /\ UNCHANGED program

MCNext ==
  \/ Only("filter") /\ Next /\ UNCHANGED <<statVars, binVars, filmVars>>
  \/ Only("track") /\ Stat!Next /\ UNCHANGED <<filterVars, binVars, filmVars>>
  \/ Only("frombin") /\ Bin!Next /\ UNCHANGED <<filterVars, statVars, filmVars>>
  \/ Only("har") /\ Film!Next /\ UNCHANGED <<filterVars, statVars, binVars>>

MCSpec == MCInit /\ [][MCNext]_MCvars

CountsRight == Stat!CountsRight
ArrayRight == Bin!ArrayRight
FirstVideo == Film!FirstVideo
=============================================================================
