----------------------------- MODULE MCDocuments -----------------------------
(* An instance of Documents: five pairs of emails and the cards in them.    *)
EXTENDS Documents, TLC

CONSTANTS restarts, misreads, nerFailures

MCLimit == [restarts |-> restarts, misreads |-> misreads, ner_failures |-> nerFailures]

(* A text of one word, of two. *)
W(word) == [as |-> word, norm |-> <<word>>]
WW(as, word, other) == [as |-> as, norm |-> <<word, other>>]

-----------------------------------------------------------------------------
(* Ada's card: front, back (with her husband's name and a longer address),  *)
(* the card of a stranger's child, and one whose year of birth was misread. *)
AdaNumber == <<2, 3, 4, 1, 2, 3, 4, 1, 2, 3, 4, 6>>

MCCalendar == <<<<2026, 6, 14>>, <<2026, 6, 15>>>>

MCPaths == {"front", "back", "stranger", "blurred"} \X Types

MCSniffed == [front |-> "png", back |-> "pdf", stranger |-> "jpg", blurred |-> "png"]

MCPrinted ==
    [front    |-> [pan |-> <<>>, runs |-> <<<<7, 1>> \o AdaNumber>>, address |-> Blank, dob |-> <<2000, 6, 15>>,
                   lines |-> <<"like" :> WW("Ada Rao", "ada", "rao"), "dob" :> W("dob")>>],
     back     |-> [pan |-> <<>>, runs |-> <<>>, address |-> WW("Lake Rd", "lake", "rd"), dob |-> <<>>,
                   lines |-> <<"name:" :> WW("Raj Rao", "raj", "rao")>>],
     stranger |-> [pan |-> <<"P">>, runs |-> <<>>, address |-> WW("Hill St", "hill", "st"), dob |-> <<2026, 5, 20>>,
                   lines |-> <<"like" :> WW("Eve Roy", "eve", "roy"), "parent" :> W("father"),
                               "like" :> WW("Jim Roy", "jim", "roy")>>],
     blurred  |-> [pan |-> <<>>, runs |-> <<>>, address |-> Blank, dob |-> <<2091, 1, 1>>,
                   lines |-> <<>>]]

Labelled98 == [as |-> "+91 98765 43210", norm |-> <<"+91", "98765", "43210">>]

Digits10 == {"9876543210", "8000000000"}

(* A Chinese number, of eleven digits, is none in India. *)
MCNational == [s \in {Labelled98.as, "9876543210"} |-> "9876543210"]

MCLastTen == (Labelled98.as :> "9876543210") @@ ("13812345678" :> "3812345678")
                 @@ [s \in Digits10 |-> s]

Letter == <<"name:" :> WW("ADA RAO", "ada", "rao"), "email:" :> W("ada@x"),
              "plain" :> W("8000000000"), "phone:" :> Labelled98>>

Prose == <<"id" :> W("in-reply-to") @@ "email" :> W("<1@mail>"),
           "person" :> WW("Ada Rao", "ada", "rao") @@ "email" :> W("ada@x"),
           "plain" :> W("8000000000"),      \* the number of an order
           "valid" :> W("9876543210"),
           "place" :> WW("Lake Road", "lake", "road")>>

Abroad == <<"spaced" :> W("8000000000"), "valid" :> W("13812345678")>>

Bare == <<"spaced" :> W("8000000000"), "email" :> W("ada@x")>>

Att(digest, type) == [digest |-> digest, content_type |-> type]

Mail(body, attachments) == [body |-> body, attachments |-> attachments]

Case(first, second, w1, w2) == [mail |-> <<first, second>>, works |-> [r \in Runs |-> IF r = 1 THEN w1 ELSE w2]]

(* Two runs on one ticket; the same person twice; one file under two types; *)
(* a stranger's card in front of Ada's; a birth year in the future; no      *)
(* documents, with a foreign number and with one nothing validates.         *)
MCScenarios ==
    LET both == <<Att("front", "png"), Att("back", "pdf"), Att("front", "")>>
    IN  {Case(Mail(Prose, both), Mail(<<>>, <<>>), 1, 1),
         Case(Mail(Letter, both), Mail(Prose, <<Att("front", "")>>), 1, 2),
         Case(Mail(Prose, <<Att("front", "png")>>), Mail(Prose, <<Att("front", "pdf")>>), 1, 2),
         Case(Mail(Letter, <<Att("stranger", "jpeg"), Att("front", "png")>>),
              Mail(Prose, <<Att("blurred", "gif"), Att("back", "pdf")>>), 1, 2),
         Case(Mail(Abroad, <<>>), Mail(Bare, <<>>), 1, 2)}

=============================================================================
