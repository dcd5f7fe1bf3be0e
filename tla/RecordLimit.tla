---------------------------- MODULE RecordLimit -----------------------------
(***************************************************************************)
(* recordLimitReader (internal/gtfs/parse.go), which stops a file whose    *)
(* CSV record is too long before encoding/csv buffers it, byte by byte     *)
(* beside the csv.Reader that reads through it.  The two track quotes on   *)
(* their own.  A Read call is a run of the steps below, and carries        *)
(* nothing but these variables to the next one.                            *)
(***************************************************************************)
EXTENDS Integers

CONSTANT maxCSVRecordBytes

ASSUME RecordLimitAssumption == maxCSVRecordBytes \in Nat \ {0}

Byte == {"quote", "comma", "newline", "return", "other"}

VARIABLES
  remaining, failed, inQuotes, quotePending,  \* recordLimitReader
  field,   \* where encoding/csv is: see Csv
  length   \* bytes of the current record so far, its line ends included

limiter == <<remaining, failed, inQuotes, quotePending>>

limitVars == <<remaining, failed, inQuotes, quotePending, field, length>>

LimitTypeOK ==
  /\ remaining \in -1..maxCSVRecordBytes
  /\ failed \in BOOLEAN /\ inQuotes \in BOOLEAN /\ quotePending \in BOOLEAN
  /\ field \in {"record", "start", "plain", "quoted", "quote", "quote return", "invalid"}
  /\ length \in Nat

LimitInit ==
  /\ remaining = maxCSVRecordBytes
  /\ failed = FALSE /\ inQuotes = FALSE /\ quotePending = FALSE
  /\ field = "record" /\ length = 0

-----------------------------------------------------------------------------
(* recordLimitReader.                                                      *)

\* The end of the loop body, outside quotes.
Unquoted(value) ==
  /\ inQuotes' = (value = "quote")
  /\ quotePending' = FALSE
  /\ remaining' = IF value = "newline" THEN maxCSVRecordBytes ELSE remaining - 1

\* Mutant: a newline in a quoted field ends the record.
QuotedNewline(value) ==
  /\ inQuotes' = TRUE
  /\ quotePending' = (value = "quote")
  /\ remaining' = IF value = "newline" THEN maxCSVRecordBytes ELSE remaining - 1

\* Between quotes: only a quote changes anything.
Quoted(value) ==
  /\ inQuotes' = TRUE
  /\ quotePending' = (value = "quote")
  /\ remaining' = remaining - 1

\* After a quote between quotes: a second one is escaped, anything else means
\* that the first one closed the field.
QuotePending(value) ==
  IF value = "quote"
  THEN inQuotes' = TRUE /\ quotePending' = FALSE /\ remaining' = remaining - 1
  ELSE Unquoted(value)

Limit(value) ==
  IF remaining = 0
  THEN /\ remaining' = -1 /\ failed' = TRUE
       /\ UNCHANGED <<inQuotes, quotePending>>
  ELSE /\ failed' = FALSE
       /\ IF ~ inQuotes THEN Unquoted(value)
          ELSE IF quotePending THEN QuotePending(value) ELSE Quoted(value)

-----------------------------------------------------------------------------
(* encoding/csv with its default settings: at the start of a record or of  *)
(* a field, in a plain or a quoted field, after a quote in a quoted field, *)
(* after that quote and a carriage return; invalid once it will return     *)
(* ErrBareQuote or ErrQuote.                                               *)

\* After a byte of a plain field.
Plain(value) ==
  IF value = "comma" THEN "start" ELSE IF value = "newline" THEN "record" ELSE "plain"

Csv(value) ==
  \/ field \in {"record", "start"} /\ value = "quote" /\ field' = "quoted"
  \/ field \in {"record", "start", "plain"} /\ value # "quote" /\ field' = Plain(value)
  \/ field = "plain" /\ value = "quote" /\ field' = "invalid"
  \/ field = "quoted" /\ field' = IF value = "quote" THEN "quote" ELSE "quoted"
  \/ field = "quote" /\ value = "quote" /\ field' = "quoted"
  \/ field = "quote" /\ value \in {"comma", "newline"} /\ field' = Plain(value)
  \/ field = "quote" /\ value = "return" /\ field' = "quote return"
  \/ field = "quote" /\ value = "other" /\ field' = "invalid"
  \/ field = "quote return" /\ field' = IF value = "newline" THEN "record" ELSE "invalid"

\* The next byte, through both.  Nothing follows an error of either.
Read(value) ==
  /\ ~ failed /\ field # "invalid"
  /\ Limit(value)
  /\ Csv(value)
  /\ length' = IF field = "record" THEN 1 ELSE length + 1

ReadNext == \E value \in Byte : Read(value)

LimitSpec == LimitInit /\ [][ReadNext]_limitVars

-----------------------------------------------------------------------------
(* Properties.                                                             *)

\* As long as the file is CSV, the limiter fails exactly on a record of more
\* than maxCSVRecordBytes bytes, its line end counted, and on its first byte
\* too many: never because of quotes, newlines or records before it.
FailsOnLongRecords ==
  field # "invalid" =>
    /\ failed <=> length > maxCSVRecordBytes
    /\ length <= maxCSVRecordBytes + 1

\* Why: the limiter's view of quotes is csv's own, and remaining counts down
\* from the start of csv's record.
InStep ==
  field # "invalid" /\ ~ failed =>
    /\ inQuotes <=> field \in {"quoted", "quote"}
    /\ quotePending <=> field = "quote"
    /\ remaining = IF field = "record" THEN maxCSVRecordBytes
                                       ELSE maxCSVRecordBytes - length

=============================================================================
