----------------------------- MODULE SqlRewrite -----------------------------
(***************************************************************************)
(* The SQL rewrite of a replay (internal/flink/sqlrewrite.go): it finds    *)
(* the WITH block of the Kafka source table and upserts three options.     *)
(* Replay has what a replay does with the text; this module has the text.  *)
(*                                                                         *)
(* A text is a sequence of atoms <<kind, value>>, with blanks in between:  *)
(* "create" is CREATE TABLE with the first word behind it, which the code  *)
(* takes for the table's name; where it is not, as IF of IF NOT EXISTS t   *)
(* or the database of db.t, "name" is the name, which the code never looks *)
(* at.  "lit" is a quoted string, "nl" a line's end, "x" whatever else the *)
(* code never looks at, all others are what they look like.  Left out are  *)
(* atoms that touch, such as a comment without blank before the next quote,*)
(* a comment behind CREATE or TABLE, a CREATE TABLE within a quoted string,*)
(* doubled quotes and the indentation.                                     *)
(*                                                                         *)
(* Definitions introduced as Variants are no part of the specification.    *)
(***************************************************************************)
EXTENDS Integers, SequencesExt

CONSTANTS
    Words,      \* names, and the keys and values of options
    Texts,      \* the SQL that is deployed
    Tables,     \* names a request may give
    Millis,     \* timestamps (their decimal digits)
    Resets      \* values for auto.offset.reset a request may give

NoName == "-"   \* no sourceTable, autoOffsetReset, option or text ("" in the code)

Kinds == {"create", "name", "lit", "nl", "x", "with", "(", ")", "=", ",", ";", "--", "/*", "*/"}
Atoms == Kinds \X Words

(* What a replay sets.                                                     *)
Startups == {"scan.startup.mode", "scan.startup.timestamp-millis", "properties.auto.offset.reset"}

ASSUME SqlAssumption ==
    /\ Texts \subseteq Seq(Atoms)
    /\ Tables \subseteq Words \ {NoName}
    /\ Millis \cup Resets \cup Startups \cup {NoName, "timestamp", "earliest"} \subseteq Words
    /\ NoName \notin Millis

Atom(kind) == <<kind, NoName>>
Lit(v) == <<"lit", v>>
Is(sql, i, kind) == i <= Len(sql) /\ sql[i][1] = kind

MinOr(S, n) == IF S = {} THEN n ELSE CHOOSE i \in S : \A j \in S : i <= j

-----------------------------------------------------------------------------
(* skipQuotesAndComments: where the quote or comment that begins at i ends,*)
(* i itself if none does.                                                  *)
Skip(sql, i) ==
    CASE Is(sql, i, "lit") -> i + 1
      [] Is(sql, i, "--") -> MinOr({j \in i .. Len(sql) : Is(sql, j, "nl")}, Len(sql) + 1)
      [] Is(sql, i, "/*") -> MinOr({j \in i .. Len(sql) : Is(sql, j, "*/")}, Len(sql)) + 1
      [] OTHER -> i

AfterBlanks(sql, i) ==
    MinOr({j \in i .. Len(sql) : ~Is(sql, j, "nl")}, Len(sql) + 1)

(* Variant: a semicolon does not end the search.                           *)
EndsWithText(sql, i) == i > Len(sql)

EndsStatement(sql, i) == i > Len(sql) \/ Is(sql, i, ";")

(* findWithOpenParen: the parenthesis of the first WITH at or after start, *)
(* 0 if the statement ends before.                                         *)
FindWithOpen(sql, start) ==
    LET find[i \in 1 .. Len(sql) + 1] ==
            LET next == AfterBlanks(sql, i + 1)
            IN  CASE EndsStatement(sql, i) -> 0
                  [] Skip(sql, i) # i -> find[Skip(sql, i)]
                  [] Is(sql, i, "with") -> IF Is(sql, next, "(") THEN next ELSE find[next]
                  [] OTHER -> find[i + 1]
    IN  find[start]

(* matchParen.                                                             *)
MatchParen(sql, open) ==
    LET match[i \in 1 .. Len(sql) + 1] == [depth \in Int |->
            CASE i > Len(sql) -> 0
              [] Skip(sql, i) # i -> match[Skip(sql, i)][depth]
              [] Is(sql, i, "(") -> match[i + 1][depth + 1]
              [] Is(sql, i, ")") -> IF depth = 1 THEN i ELSE match[i + 1][depth - 1]
              [] OTHER -> match[i + 1][depth]]
    IN  match[open][0]

(* Variant: options that are commented out are parsed, too.                *)
CommentsKept(sql) == sql

(* stripComments.                                                          *)
StripComments(sql) ==
    LET strip[i \in 1 .. Len(sql) + 1] ==
            CASE i > Len(sql) -> <<>>
              [] Is(sql, i, "--") \/ Is(sql, i, "/*") -> strip[Skip(sql, i)]
              [] OTHER -> <<sql[i]>> \o strip[i + 1]
    IN  strip[1]

(* optionRe: the pairs 'key' = 'value' of a block without comments.        *)
Options(body) ==
    LET pairs[i \in 1 .. Len(body) + 1] ==
            LET eq == AfterBlanks(body, i + 1)
                value == AfterBlanks(body, eq + 1)
            IN  CASE i > Len(body) -> <<>>
                  [] Is(body, i, "lit") /\ Is(body, eq, "=") /\ Is(body, value, "lit") ->
                        <<<<body[i][2], body[value][2]>>>> \o pairs[value + 1]
                  [] OTHER -> pairs[i + 1]
    IN  pairs[1]

KeysAt(options, key) == {i \in DOMAIN options : options[i][1] = key}

OptionValue(options, key) ==
    LET at == KeysAt(options, key)
    IN  IF at = {} THEN NoName ELSE options[MinOr(at, 0)][2]

Body(sql, block) == SubSeq(sql, block.open + 1, block.close - 1)

(* findWithBlocks: one for every CREATE TABLE, even in a comment, that the *)
(* code sees a WITH block follow, by the word that createTableRe captures. *)
Block(sql, i) ==
    LET open == FindWithOpen(sql, i + 1)
    IN  [table |-> sql[i][2], at |-> i, open |-> open,
         close |-> IF open = 0 THEN 0 ELSE MatchParen(sql, open)]

FindWithBlocks(sql) ==
    LET creates == {i \in DOMAIN sql : Is(sql, i, "create")}
    IN  {block \in {Block(sql, i) : i \in creates} : block.close # 0}

(* The options of a block, read without its comments.                      *)
Read(body) == Options(StripComments(body))

Connector(sql, block) == OptionValue(Read(Body(sql, block)), "connector")

(* The connector begins with "kafka"; upsert-kafka does not.               *)
KafkaBlocks(sql) == {block \in FindWithBlocks(sql) : Connector(sql, block) = "kafka"}

(* upsertWithOptions: the last of equal keys is set, a new one comes last. *)
Upsert(options, up) ==
    LET at == KeysAt(options, up[1])
    IN  IF at = {} THEN Append(options, up)
        ELSE [options EXCEPT ![CHOOSE i \in at : \A j \in at : j <= i] = up]

Startup(request) ==
    << <<"scan.startup.mode", "timestamp">>,
       <<"scan.startup.timestamp-millis", request.millis>>,
       <<"properties.auto.offset.reset",
         IF request.reset = NoName THEN "earliest" ELSE request.reset>> >>

Upserted(options, request) ==
    LET up == Startup(request)
    IN  Upsert(Upsert(Upsert(options, up[1]), up[2]), up[3])

(* One option to a line; the last has no comma.  There is always one.      *)
Line(option, last) ==
    << Atom("nl"), Lit(option[1]), Atom("="), Lit(option[2]),
       IF last THEN Atom("nl") ELSE Atom(",") >>

Rendered(options) ==
    [k \in 1 .. 5 * Len(options) |->
        Line(options[(k - 1) \div 5 + 1], k = 5 * Len(options))[((k - 1) % 5) + 1]]

(* Variant: with several Kafka tables and no name, the first is taken.     *)
FirstTarget(blocks, name) ==
    LET meant == {b \in blocks : name # NoName => b.table = name}
    IN  {b \in meant : \A c \in meant : b.at <= c.at}

(* The block that is meant, none when that is unclear.                     *)
Target(blocks, name) ==
    {b \in blocks : IF name = NoName THEN blocks = {b}
                    ELSE b.table = name /\ \A c \in blocks : c.table = name => b.at <= c.at}

(* Variant: the closing parenthesis goes with what it closed.              *)
SplicedWithout(sql, block, body) ==
    SubSeq(sql, 1, block.open) \o body \o SubSeq(sql, block.close + 1, Len(sql))

Spliced(sql, block, body) ==
    SubSeq(sql, 1, block.open) \o body \o SubSeq(sql, block.close, Len(sql))

(* rewriteForReplay.  An error leaves the text alone.                      *)
RewriteForReplay(sql, request) ==
    LET target == Target(KafkaBlocks(sql), request.name)
        block == CHOOSE b \in target : TRUE
        options == Upserted(Read(Body(sql, block)), request)
    IN  IF target = {} THEN [ok |-> FALSE, table |-> NoName, sql |-> sql]
        ELSE [ok |-> TRUE, table |-> block.table,
              sql |-> Spliced(sql, block, Rendered(options))]

-----------------------------------------------------------------------------
VARIABLES
    base,       \* the text that was deployed
    text,       \* the text in the ConfigMap
    asked       \* history: the request that was last carried out, per table

vars == <<base, text, asked>>

Request == [name : Tables \cup {NoName}, millis : Millis, reset : Resets \cup {NoName}]
NoRequest == [name |-> NoName, millis |-> NoName, reset |-> NoName]

TypeOK ==
    /\ base \in Texts
    /\ asked \in [Tables -> Request \cup {NoRequest}]
    /\ text \in Seq(Atoms)

Init ==
    /\ base \in Texts
    /\ text = base
    /\ asked = [t \in Tables |-> NoRequest]

(* A replay.  One that is cut off after it has written the text is found   *)
(* by the next, which rewrites what it finds.                              *)
Rewrite(request) ==
    LET result == RewriteForReplay(text, request)
    IN  /\ result.ok
        /\ text' = result.sql
        /\ asked' = [asked EXCEPT ![result.table] = request]
        /\ UNCHANGED base

(* A revert writes the backup, which is the text as it was deployed.       *)
Restore ==
    /\ text' = base
    /\ asked' = [t \in Tables |-> NoRequest]
    /\ UNCHANGED base

Next == (\E r \in Request : Rewrite(r)) \/ Restore

Spec == Init /\ [][Next]_vars

-----------------------------------------------------------------------------
(* What Flink reads.  A text's visible atoms are those outside comments;   *)
(* they make statements, which semicolons end; a table's options are the   *)
(* pairs between its outermost WITH ( and the end.                         *)

Modes == {"code", "--", "/*"}

NextMode(mode, atom) ==
    CASE mode = "code" /\ atom[1] \in {"--", "/*"} -> atom[1]
      [] <<mode, atom[1]>> \in {<<"--", "nl">>, <<"/*", "*/">>} -> "code"
      [] OTHER -> mode

Seen(mode, atom) == mode = "code" /\ atom[1] \notin {"nl", "--", "/*"}

(* The last statement is what no semicolon ends.                           *)
Statements(sql) ==
    LET read[i \in 1 .. Len(sql) + 1] == [mode \in Modes |->
            IF i > Len(sql) THEN << <<>> >>
            ELSE LET rest == read[i + 1][NextMode(mode, sql[i])]
                 IN  CASE ~Seen(mode, sql[i]) -> rest
                       [] Seen(mode, sql[i]) /\ sql[i][1] = ";" -> << <<>> >> \o rest
                       [] OTHER -> [rest EXCEPT ![1] = <<sql[i]>> \o rest[1]]]
    IN  read[1]["code"]

(* A statement is its head and its options, none for one without WITH.     *)
Meaning(statement) ==
    LET withs == {i \in DOMAIN statement : Is(statement, i, "with")}
        w == MinOr(withs, Len(statement) + 1)
        last == Len(statement) - 1
    IN  [head |-> SubSeq(statement, 1, w - 1),
         options |-> [k \in 1 .. (last - w) \div 4 |->
                         <<statement[w + 4 * k - 2][2], statement[w + 4 * k][2]>>]]

Meanings(sql) ==
    LET statements == Statements(sql)
    IN  [k \in DOMAIN statements |-> Meaning(statements[k])]

IsTable(m) == Is(m.head, 1, "create")

IsKafkaTable(m) ==
    IsTable(m) /\ <<"connector", "kafka">> \in Range(m.options)

(* The Kafka tables, each by the word that the code knows it by, ...       *)
KafkaTables(sql) == {m.head[1][2] : m \in {n \in Range(Meanings(sql)) : IsKafkaTable(n)}}

(* ... and by its name.                                                    *)
NameOf(m) == IF Is(m.head, 2, "name") THEN m.head[2][2] ELSE m.head[1][2]

KafkaNames(sql) == {NameOf(m) : m \in {n \in Range(Meanings(sql)) : IsKafkaTable(n)}}

(* What Flink can read: statements that end with a semicolon, in which a   *)
(* table's WITH follows its columns and has a list of options, with        *)
(* comments anywhere.  A CREATE TABLE that is commented out is left to the *)
(* run sql_commented.                                                      *)
Places == {"start", "other", "columns", "with", "open", "equals", "value", "comma", "key", "end"}

Follows(place, kind, next) ==
    \/ place \in {"start", "other"} /\ kind \notin {"create", ";"} /\ next = "other"
    \/ place = "columns" /\ kind \notin {"create", "with", ";"} /\ next = "columns"
    \/ place \in {"start", "other", "columns", "end"} /\ kind = ";" /\ next = "start"
    \/ <<place, kind, next>> \in {
          <<"start", "create", "columns">>, <<"columns", "with", "with">>, <<"with", "(", "open">>,
          <<"open", "lit", "equals">>, <<"equals", "=", "value">>, <<"value", "lit", "comma">>,
          <<"comma", ",", "key">>, <<"key", "lit", "equals">>,
          <<"open", ")", "end">>, <<"comma", ")", "end">>}

(* An atom takes the reader to a mode and a place.                         *)
Reads(mode, place, atom, newMode, newPlace) ==
    /\ newMode = NextMode(mode, atom)
    /\ IF Seen(mode, atom) THEN Follows(place, atom[1], newPlace) ELSE newPlace = place
    /\ mode # "code" => atom[1] # "create"

Parses(sql, mode, place) ==
    /\ mode \in [1 .. Len(sql) + 1 -> Modes] /\ place \in [1 .. Len(sql) + 1 -> Places]
    /\ mode[1] = "code" /\ place[1] = "start"
    /\ \A i \in 1 .. Len(sql) : Reads(mode[i], place[i], sql[i], mode[i + 1], place[i + 1])
    /\ mode[Len(sql) + 1] # "/*" /\ place[Len(sql) + 1] = "start"

(* The options of a table differ, and so do the words by which the code    *)
(* knows the Kafka tables.                                                 *)
Unambiguous(sql) ==
    LET ms == Meanings(sql)
    IN  /\ \A k \in DOMAIN ms : IsTable(ms[k]) =>
              \A i, j \in DOMAIN ms[k].options :
                  ms[k].options[i][1] = ms[k].options[j][1] => i = j
        /\ \A j, k \in DOMAIN ms :
              IsKafkaTable(ms[j]) /\ IsKafkaTable(ms[k]) /\ ms[j].head[1][2] = ms[k].head[1][2] => j = k
        /\ KafkaTables(sql) \subseteq Tables

WellFormed(sql) ==
    /\ \E mode \in [1 .. Len(sql) + 1 -> Modes], place \in [1 .. Len(sql) + 1 -> Places] :
          Parses(sql, mode, place)
    /\ Unambiguous(sql)

(* A table that a replay was asked for has the three options of the last   *)
(* request, in the place of those it had or behind the others; all other   *)
(* options and statements are as they were deployed, however often the     *)
(* text is rewritten and whatever comments lie in between.                 *)
Replayed(m, request) ==
    LET up == Startup(request)
        Value(key) == (CHOOSE p \in Range(up) : p[1] = key)[2]
        known == [i \in DOMAIN m.options |->
                     IF m.options[i][1] \in Startups
                     THEN <<m.options[i][1], Value(m.options[i][1])>> ELSE m.options[i]]
        With(options, k) == IF up[k] \in Range(options) THEN options ELSE Append(options, up[k])
    IN  [m EXCEPT !.options = With(With(With(known, 1), 2), 3)]

Wanted(m) ==
    IF IsKafkaTable(m) /\ asked[m.head[1][2]] # NoRequest
    THEN Replayed(m, asked[m.head[1][2]])
    ELSE m

OnlyStartupChanges ==
    LET deployed == Meanings(base)
    IN  Meanings(text) = [k \in DOMAIN deployed |-> Wanted(deployed[k])]

Positions(sql, kind) == {i \in DOMAIN sql : Is(sql, i, kind)}

(* No WITH is followed by a comment, which hides its parenthesis from the  *)
(* code: it looks past blanks only.                                        *)
NothingHides(sql) ==
    \A i \in Positions(sql, "with"), j \in Positions(sql, "--") \cup Positions(sql, "/*") :
        i < j => \E k \in i + 1 .. j - 1 : ~Is(sql, k, "nl")

(* A replay falls on a Kafka table, known by the word that was given if    *)
(* one was.  Unless a comment hides a table's options it is refused        *)
(* exactly when the text has no Kafka table of that word, or, without a    *)
(* word, has none or several.                                              *)
Meant(request) ==
    IF request.name = NoName THEN KafkaTables(base) ELSE KafkaTables(base) \cap {request.name}

RefusesTheUnclear ==
    /\ \A r \in Request :
          LET result == RewriteForReplay(text, r)
          IN  /\ result.ok => result.table \in Meant(r)
              /\ NothingHides(base) => IF result.ok THEN Meant(r) = {result.table} ELSE Cardinality(Meant(r)) # 1
    /\ \A b, c \in FindWithBlocks(text) :
          b = c \/ b.close < c.open \/ c.close < b.open

(* What the messages and the interface say: a replay is carried out when   *)
(* the text has one Kafka table of the name that was given, or just one,   *)
(* and refused otherwise.  It is not so for every table that Flink reads.  *)
FindsTheNamed ==
    \A r \in Request :
        RewriteForReplay(text, r).ok <=>
            Cardinality({n \in KafkaNames(base) : r.name \in {NoName, n}}) = 1

(* Whatever the text, a rewrite replaces what is between one pair of       *)
(* parentheses behind a CREATE TABLE of the name that was asked for.  In   *)
(* there the code then reads the options it read before, in their order,   *)
(* each startup option last with the value of the request.                 *)
Sets(old, new, request) ==
    /\ \A i \in DOMAIN old :
          /\ i \in DOMAIN new /\ new[i][1] = old[i][1]
          /\ old[i][1] \notin Startups => new[i] = old[i]
    /\ \A i \in DOMAIN new \ DOMAIN old : new[i][1] \in Startups
    /\ \A k \in 1 .. 3 : \E i \in DOMAIN new :
          new[i] = Startup(request)[k] /\ \A j \in KeysAt(new, new[i][1]) : j <= i

Changes(old, new, request) ==
    \E create \in Positions(old, "create"), open \in Positions(old, "("),
       close \in Positions(old, ")") :
        LET end == Len(new) - (Len(old) - close)
        IN  /\ create < open /\ open < close /\ open < end
            /\ request.name \in {NoName, old[create][2]}
            /\ SubSeq(new, 1, open) = SubSeq(old, 1, open)
            /\ SubSeq(new, end, Len(new)) = SubSeq(old, close, Len(old))
            /\ OptionValue(Read(SubSeq(old, open + 1, close - 1)), "connector") = "kafka"
            /\ Sets(Read(SubSeq(old, open + 1, close - 1)),
                    Read(SubSeq(new, open + 1, end - 1)), request)

RewriteIsLocal ==
    \A r \in Request :
        LET result == RewriteForReplay(text, r)
        IN  result.ok => Changes(text, result.sql, r)
=============================================================================
