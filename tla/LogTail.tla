------------------------------ MODULE LogTail -------------------------------
(***************************************************************************)
(* Reading the end of the text log, for `syseba logs` and GET /api/logs:   *)
(* log_tail of log.c, while the writer of Log appends to the file.  Here   *)
(* the text log is a sequence of bytes: what older processes left there,   *)
(* then a line for each record.                                            *)
(***************************************************************************)
EXTENDS Log, FiniteSets, SequencesExt

CONSTANTS
    Newline,
    Width,          \* producer -> the length of its lines
    Older,          \* what may be in the file: its lines, and a torn last one
    Chunk,          \* bytes read at a time (8192 in the code)
    Asked           \* the numbers of lines asked for

ASSUME LogTailAssumption ==
    /\ Width \in [Producers -> Nat \ {0}]
    /\ Chunk \in Nat \ {0}
    /\ Asked \subseteq Nat

VARIABLES
    older,
    tail            \* the call of log_tail in progress

tailVars == <<vars, older, tail>>

NoCall == [at |-> "idle"]

Text(r) == [i \in 1..Width[r[1]] |-> r]
Ended(text) == Append(text, Newline)
Bytes(k) ==     \* the file up to the end of the k-th record
    FlattenSeq([i \in DOMAIN older.lines |-> Ended(older.lines[i])]) \o older.torn
        \o FlattenSeq([i \in 1..k |-> Ended(Text(file[i]))])

TailInit ==
    /\ Init
    /\ older \in Older
    /\ tail = NoCall

-----------------------------------------------------------------------------
(* fseek to the end and ftell.  A long line reaches the file in pieces:    *)
(* the end may lie in the record that is being written.                    *)
TailOpen ==
    /\ tail = NoCall
    /\ \E piece \in IF writer = "file" /\ fileOpen THEN 0..Width[record[1]] ELSE {0} :
          tail' = [at |-> "open", records |-> Len(file),
                   piece |-> IF piece = 0 THEN <<>> ELSE SubSeq(Text(record), 1, piece)]
    /\ UNCHANGED <<vars, older>>

Data == Bytes(tail.records) \o tail.piece

(* Mutant: the loop stops at the n-th newline.                             *)
FindStartTooHigh(data, n, position, newlines) ==
    LET ends == {i \in 1..Len(data) : data[i] = Newline}
    IN  IF n = 0 \/ Cardinality(ends) < n THEN 0
        ELSE CHOOSE i \in ends : Cardinality({j \in ends : j >= i}) = n

(* The loop over the chunks, from the end, until more than n newlines have *)
(* been seen; the result is where the data to return begins.               *)
RECURSIVE FindStart(_, _, _, _)
FindStart(data, n, position, newlines) ==
    LET from == IF position > Chunk THEN position - Chunk ELSE 0
        ends == {i \in (from + 1)..position : data[i] = Newline}
    IN  IF position = 0 \/ newlines > n THEN position
        ELSE IF newlines + Cardinality(ends) > n
        THEN CHOOSE i \in ends : Cardinality({j \in ends : j >= i}) = n + 1 - newlines
        ELSE FindStart(data, n, from, newlines + Cardinality(ends))

(* The loop over memchr; an empty line is left out.                        *)
Split(data) ==
    LET Add(acc, byte) ==
            IF byte # Newline THEN [acc EXCEPT !.line = Append(@, byte)]
            ELSE [line |-> <<>>,
                  lines |-> acc.lines \o (IF acc.line = <<>> THEN <<>> ELSE <<acc.line>>)]
        result == FoldLeft(Add, [line |-> <<>>, lines |-> <<>>], data)
    IN  result.lines \o (IF result.line = <<>> THEN <<>> ELSE <<result.line>>)

Tailed(data, n) ==
    Split(SubSeq(data, FindStart(data, n, Len(data), 0) + 1, Len(data)))

(* The answer is sent, or a call fails and there is none.                  *)
TailReturns ==
    /\ tail # NoCall
    /\ tail' = NoCall
    /\ UNCHANGED <<vars, older>>

TailNext ==
    \/ Next /\ UNCHANGED <<older, tail>>
    \/ TailOpen \/ TailReturns

TailFairSpec ==
    /\ TailInit /\ [][TailNext]_tailVars
    /\ WF_tailVars(WriterStep /\ UNCHANGED <<older, tail>>)
    /\ WF_tailVars(StopStep /\ UNCHANGED <<older, tail>>)

-----------------------------------------------------------------------------
LastOf(s, n) == IF n < Len(s) THEN SubSeq(s, Len(s) - n + 1, Len(s)) ELSE s

(* log_tail returns the last lines asked for, whole and in order, as they  *)
(* were when it looked for the end, wherever the boundaries of its chunks  *)
(* fall and whatever is appended meanwhile; the piece of a line that was   *)
(* being written comes on top of them.                                     *)
TailShowsLastLines ==
    tail # NoCall =>
        LET texts == older.lines \o
                [i \in 1..tail.records |-> (IF i = 1 THEN older.torn ELSE <<>>) \o Text(file[i])]
            rest == (IF tail.records = 0 THEN older.torn ELSE <<>>) \o tail.piece
            nonempty(s) == SelectSeq(s, LAMBDA text : text # <<>>)
        IN  \A n \in Asked : Tailed(Data, n) = nonempty(LastOf(texts, n) \o <<rest>>)
=============================================================================
