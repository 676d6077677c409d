------------------------------ MODULE MCOcppRpc ------------------------------
(***************************************************************************)
(* Connections of the server: how the CALLs of one to a charge point are   *)
(* carried (OcppRpc) and what they say (Conversation), and what one to     *)
(* Postgres carries there and back (Records).  One behaviour is a          *)
(* behaviour of one of them, the others rest.                              *)
(***************************************************************************)
EXTENDS OcppRpc
CONSTANTS c1, c2, c3, p1

VARIABLES
  part,
  stranger, now, point, told, row, reading, plan, heard, talk,
  table, object, rowNow, changes

Talk == INSTANCE Conversation WITH
  Tags <- {1, 20}, KnownTags <- {20}, Names <- {20},
  Rows <- {<<3, 3, 8>>, <<1, 9>>}, MinW <- 4, MaxW <- 8, SlotTicks <- 2, Lookahead <- 3,
  MaxNow <- 2, MaxNumber <- 99, MaxRegister <- 2, MaxTalk <- 12

Rows == INSTANCE Records WITH MaxChanges <- 2, now <- rowNow

ASSUME Talk!ConversationAssumption /\ Rows!RecordsAssumption

talkVars == <<stranger, now, point, told, row, reading, plan, heard, talk>>
rowVars == <<table, object, rowNow, changes>>
lineVars == <<part, vars, talkVars, rowVars>>

Carries(Action) == part = "carried" /\ Action /\ UNCHANGED <<part, talkVars, rowVars>>
Says(Action) == part = "said" /\ Action /\ UNCHANGED <<part, vars, rowVars>>
Keeps(Action) == part = "kept" /\ Action /\ UNCHANGED <<part, vars, talkVars>>

ConnectionInit ==
  /\ part \in {"carried", "said", "kept"} /\ Init /\ Talk!Init /\ Rows!Init
  /\ part # "said" => ~stranger
  /\ part # "kept" => table = "connectors" /\ object.connectorId = 1
ConnectionNext == Carries(Next) \/ Says(Talk!Next) \/ Keeps(Rows!Next)
\* As FairSpec has it: a timeout comes.
ConnectionSpec ==
  ConnectionInit /\ [][ConnectionNext]_lineVars /\ \A c \in Calls : WF_lineVars(Carries(Timeout(c)))

\* The ends of a connection take what is said and mean the same by it (Conversation); Postgres takes
\* every row, with the exceptions that are named, and gives it back (Records).
UnderstoodAlike == Talk!UnderstoodAlike /\ Rows!RecordsFit
=============================================================================
