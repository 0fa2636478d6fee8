---------------------------- MODULE MCSqlRewrite ----------------------------
(***************************************************************************)
(* SQL texts for module SqlRewrite: two statements, of which the first     *)
(* defines t1 and the second, if it is a table, t2.                        *)
(***************************************************************************)
EXTENDS SqlRewrite

CONSTANT
    Form        \* which texts: "readable" ones, only "named", "overlooked" or
                \* "commented" ones

X == Atom("x")
NL == Atom("nl")
Semicolon == Atom(";")

Pair(key, value) == <<Lit(key), Atom("="), Lit(value)>>
Comma == <<Atom(","), NL>>
BlockComment(inside) == <<Atom("/*")>> \o inside \o <<Atom("*/")>>
LineComment(inside) == <<Atom("--")>> \o inside \o <<NL>>
Parens(inside) == <<Atom("(")>> \o inside \o <<Atom(")")>>

(* Columns, some with what the code might take for the end of the          *)
(* statement or for the WITH block.                                        *)
Heads == {
    <<X>>,
    Parens(<<X>> \o LineComment(<<Atom("with"), Atom("("), X>>) \o <<X>>),
    Parens(BlockComment(<<Semicolon, Atom(")")>>) \o Parens(<<X>>)) }

Mode(value) == Pair("scan.startup.mode", value)
MillisIs(value) == Pair("scan.startup.timestamp-millis", value)
ResetIs(value) == Pair("properties.auto.offset.reset", value)

(* Options behind the connector.                                           *)
Tails == {
    <<>>,
    Comma \o Mode("latest-offset"),
    Comma \o LineComment(Mode("latest-offset") \o <<Atom(",")>>) \o Pair("topic", "a"),
    Comma \o BlockComment(<<Atom(")"), X>>) \o Pair("topic", "a"),
    Comma \o ResetIs("latest") \o Comma \o MillisIs("0") \o Comma \o Mode("timestamp") }

OptionList(connector, tail) == Parens(<<NL>> \o Pair("connector", connector) \o tail \o <<NL>>)

Table(name, head, connector, tail) ==
    <<<<"create", name>>>> \o head \o <<Atom("with")>> \o OptionList(connector, tail)

(* CREATE TABLE IF NOT EXISTS t1, and a comment behind WITH.               *)
Named(connector, tail) ==
    <<<<"create", "IF">>, <<"name", "t1">>, X, Atom("with")>> \o OptionList(connector, tail)

Overlooked(connector, tail) ==
    <<<<"create", "t1">>, X, Atom("with")>> \o BlockComment(<<X>>) \o OptionList(connector, tail)

(* What may follow t1; only the second and the third define t2.            *)
Seconds == {
    <<X, Lit("with ("), X>>,
    Table("t2", <<X>>, "kafka", <<>>),
    Table("t2", <<X>>, "upsert-kafka", Comma \o Mode("latest-offset")) }

(* A table without options, which the catalog provides.                    *)
NoWith == {<<>>, <<<<"create", "t3">>, X, Semicolon, NL>>}

(* An earlier definition of t1, left as a comment.                         *)
Old == LineComment(<<<<"create", "t1">>, X, Atom("with")>> \o Parens(Pair("connector", "kafka")) \o <<Semicolon>>)

Connectors == {"kafka", "print"}

TwoStatements(befores, firsts, seconds) ==
    { before \o first \o <<Semicolon, NL>> \o second \o <<Semicolon, NL>> :
        before \in befores, first \in firsts, second \in seconds }

First(connectors) ==
    {Table("t1", head, connector, tail) : head \in Heads, connector \in connectors, tail \in Tails}

MCTexts ==
    CASE Form = "readable" ->
            TwoStatements(NoWith, First(Connectors), Seconds)
                \cup TwoStatements({<<>>}, {Named(c, tail) : c \in Connectors, tail \in Tails}, Seconds)
                \cup TwoStatements({<<>>}, {Overlooked(c, tail) : c \in Connectors, tail \in Tails}, Seconds)
      [] Form = "named" -> TwoStatements({<<>>}, {Named("kafka", tail) : tail \in Tails}, Seconds)
      [] Form = "overlooked" ->
            TwoStatements({<<>>}, {Overlooked("kafka", tail) : tail \in Tails}, {Table("t2", <<X>>, "kafka", <<>>)})
      [] Form = "commented" -> TwoStatements({Old}, First({"kafka"}), Seconds)

MCWords ==
    {atom[2] : atom \in UNION {Range(t) : t \in MCTexts}}
        \cup Tables \cup Millis \cup Resets \cup Startups \cup {"timestamp", "earliest"}

(* The texts are well formed, but for a definition that is commented out:  *)
(* there are a mode and a place for each of their atoms.                   *)
Run(sql) ==
    LET run[i \in 1 .. Len(sql) + 1] ==
            IF i = 1 THEN <<"code", "start">>
            ELSE LET last == run[i - 1]
                 IN  CHOOSE s \in Modes \X Places : Reads(last[1], last[2], sql[i - 1], s[1], s[2])
    IN  run

ASSUME MCTextsAssumption ==
    Form = "commented" \/ \A sql \in MCTexts :
        LET run == Run(sql)
        IN  /\ Parses(sql, [i \in DOMAIN run |-> run[i][1]], [i \in DOMAIN run |-> run[i][2]])
            /\ Unambiguous(sql)
=============================================================================
