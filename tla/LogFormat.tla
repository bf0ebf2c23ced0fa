----------------------------- MODULE LogFormat -----------------------------
(***************************************************************************)
(* log_formatter.cc: how the pattern of the configuration becomes the items *)
(* of a LogFormatter, and how these write a record.  A line is a sequence  *)
(* of words; the characters of the pattern are words of their own.         *)
(***************************************************************************)
EXTENDS Naturals, Sequences, SequencesExt

CONSTANTS
  Characters,   \* the characters a pattern is made of
  PatternSize,  \* bound of the length of a pattern
  Infos         \* the records: LogInfo, and the time at which it is written

ASSUME FormatAssumption == PatternSize \in Nat /\ "%" \in Characters

VARIABLES
  log_pattern,   \* log_pattern_
  format_items,  \* format_items_: [type, str], once the pattern is parsed
  formatter      \* "new", "ready", "aborted" by the assertion on an unknown type

formatvars == <<log_pattern, format_items, formatter>>

Item(type, str) == [type |-> type, str |-> str]
\* LogFormatItemFactory::GetFormatItem knows these types.
KnownTypes == {"s", "d", "n", "l", "T", "C", "m", "t", "c"}

\* Fault: the text begins with the letter of the item before it.
TextTooEarly(scan, i) == SubSeq(log_pattern, IF scan.start = 1 THEN 1 ELSE scan.start - 1, i - 1)
\* log_pattern_.substr(start, i - start)
Text(scan, i) == SubSeq(log_pattern, scan.start, i - 1)
\* The body of the loop of parseLogpattern, at a character that is not skipped.
ParseAt(scan, i) ==
  IF log_pattern[i] # "%" \/ (i < Len(log_pattern) /\ log_pattern[i + 1] = "%") \/ i < scan.start THEN scan
  ELSE [start |-> i + 2,
        infos |-> scan.infos \o <<Item("s", Text(scan, i))>>
                  \o (IF i < Len(log_pattern) THEN <<Item(log_pattern[i + 1], <<>>)>> ELSE <<>>)]
ItemInfos ==
  LET scan[i \in 0 .. Len(log_pattern)] ==
        IF i = 0 THEN [start |-> 1, infos |-> <<>>] ELSE ParseAt(scan[i - 1], i)
  IN  scan[Len(log_pattern)].infos
ParseLogpattern ==
  /\ formatter = "new"
  /\ IF \A i \in DOMAIN ItemInfos : ItemInfos[i].type \in KnownTypes
     THEN formatter' = "ready" /\ format_items' = ItemInfos
     ELSE formatter' = "aborted" /\ UNCHANGED format_items
  /\ UNCHANGED log_pattern

LevelName(level) ==
  IF level \in {"DEBUG", "WARN", "INFO", "ERROR", "FATAL"} THEN level ELSE "UNKNOW"
\* The Format of the nine kinds of item.  The time is the one of the writing.
FormatItem(item, info) ==
  CASE item.type = "s" -> item.str
    [] item.type = "d" -> <<info.written>>
    [] item.type = "n" -> <<"CR", "LF">>
    [] item.type = "l" -> <<LevelName(info.log_level)>>
    [] item.type = "T" -> <<info.thread_id>>
    [] item.type = "C" -> <<>>
    [] item.type = "m" -> <<info.log_module>>
    [] item.type = "t" -> <<info.log_tag>>
    [] item.type = "c" -> <<info.log_content>>
Format(info) == FlattenSeq([i \in DOMAIN format_items |-> FormatItem(format_items[i], info)])

FormatInit ==
  /\ log_pattern \in UNION {[1 .. n -> Characters] : n \in 0 .. PatternSize}
  /\ format_items = <<>> /\ formatter = "new"
FormatNext == ParseLogpattern
FormatSpec == FormatInit /\ [][FormatNext]_formatvars

-----------------------------------------------------------------------------
(* A line is the pattern with each conversion, a % that is not followed by   *)
(* another and the letter behind it, replaced by its part of the record, as  *)
(* long as the pattern ends with one; every other character is kept.         *)
Conversions == {k \in 1 .. Len(log_pattern) - 1 : log_pattern[k] = "%" /\ log_pattern[k + 1] # "%"}
Replaced(k, info) ==
  IF k \in Conversions THEN FormatItem(Item(log_pattern[k + 1], <<>>), info)
  ELSE IF k - 1 \in Conversions THEN <<>> ELSE <<log_pattern[k]>>
LineAsPattern ==
  formatter = "ready" /\ Len(log_pattern) - 1 \in Conversions =>
    \A info \in Infos : Format(info) = FlattenSeq([k \in DOMAIN log_pattern |-> Replaced(k, info)])
=============================================================================
