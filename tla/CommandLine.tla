----------------------------- MODULE CommandLine ----------------------------
(***************************************************************************)
(* The command line client (packages/cli/src): an operator, or a script,   *)
(* runs one command after another and goes by their exit codes.            *)
(*                                                                         *)
(* A command sends one request and never repeats it; what a shell repeats  *)
(* is a new command.  The connection may break before the server acts or   *)
(* after it has, and the exit code is the same.  The server is modelled by *)
(* the statuses of its routes: rows are created, changed and deleted, and  *)
(* a health check reads the database twice.                                *)
(***************************************************************************)
EXTENDS Naturals

CONSTANTS
  MaxRows,       (* bound on the rows the server creates                    *)
  MaxLosses,     (* bound on broken connections                             *)
  MaxUpheavals,  (* bound on changes of the server's condition              *)
  NoAnswer       (* the last command had none                               *)

ASSUME CliAssumption == MaxRows \in Nat /\ MaxLosses \in Nat /\ MaxUpheavals \in Nat

VARIABLES
  store,         (* the server's rows: id -> value                          *)
  lastRow,        (* the last id it gave                                     *)
  condition,     (* [db, pricing, token]: which of them are good            *)
  running,       (* the command that runs, its stage and its answer         *)
  exit,          (* the last exit code                                      *)
  ended,         (* history: if it was answered, whether it was done        *)
  ledger,        (* history: the rows by what the commands told             *)
  doubtful,      (* history: ids of which an answer was lost                *)
  losses, upheavals

cliVars ==
  << store, lastRow, condition, running, exit, ended, ledger, doubtful, losses, upheavals >>

(* Nothing is running.                                                      *)
AtPrompt == [stage |-> "none"]

Command(verb, method, input) == [verb |-> verb, method |-> method, input |-> input]

(* What each command sends, and what it reads before: a file, or stdin.     *)
BudgetCommands ==
  { Command("list", "GET", "none"), Command("get", "GET", "none"),
    Command("status", "GET", "none"), Command("create", "POST", "none"),
    Command("update", "PATCH", "none"), Command("delete", "DELETE", "none") }

RuleCommands ==
  { Command("list", "GET", "none"), Command("delete", "DELETE", "none") }
    \union {Command("create", "POST", input) : input \in {"file", "stdin"}}
    \union {Command("update", "PATCH", input) : input \in {"file", "stdin"}}

KeyCommands ==
  { Command("list", "GET", "none"), Command("create", "POST", "none"),
    Command("revoke", "DELETE", "none") }

TelemetryCommands ==
  { Command("query", "GET", "none"), Command("rollups", "GET", "none"),
    Command("replay", "GET", "none") }

ProgramCommands ==
  { Command("health", "GET", "none"), Command("catalog", "GET", "none") }
    \union {Command(verb, "POST", input) :
              verb \in {"complete", "preview"}, input \in {"file", "emptyStdin"}}

Commands ==
  BudgetCommands \union RuleCommands \union KeyCommands \union TelemetryCommands
    \union ProgramCommands

CliTypeOK ==
  /\ DOMAIN store \subseteq 1..lastRow /\ lastRow \in 0..MaxRows
  /\ DOMAIN ledger \subseteq 1..lastRow /\ doubtful \subseteq 1..lastRow
  /\ exit \in {0, 1, 3, 4}
  /\ running.stage \in {"none", "sent", "checking", "answered"}
  /\ running.stage # "none" => running.command \in Commands
  /\ losses \in 0..MaxLosses /\ upheavals \in 0..MaxUpheavals

CliInit ==
  /\ store = << >> /\ lastRow = 0 /\ ledger = << >> /\ doubtful = {}
  /\ running = AtPrompt /\ exit = 0 /\ ended = NoAnswer
  /\ condition = [db |-> TRUE, pricing |-> TRUE, token |-> TRUE]
  /\ losses = 0 /\ upheavals = 0

-----------------------------------------------------------------------------
(* The parts of the state that the steps of a command leave alone.          *)
Around == UNCHANGED << condition, exit, ended, ledger, doubtful, losses, upheavals >>

(* readMessagesFile, readJsonFile: a file that cannot be read or parsed ends*)
(* the command; "-" of complete and preview reads a stdin that has nothing  *)
(* yet, which is not JSON.                                                  *)
MayFail(input) == input # "none"
MayBeRead(input) == input # "emptyStdin"

NotSent(command) ==
  /\ running = AtPrompt /\ MayFail(command.input)
  /\ exit' = 1 /\ ended' = NoAnswer
  /\ UNCHANGED << store, lastRow, condition, running, ledger, doubtful, losses, upheavals >>

SendRequest(command, id) ==
  /\ running = AtPrompt /\ MayBeRead(command.input)
  /\ running' = [ command |-> command, id |-> id, stage |-> "sent", status |-> 0,
                  body |-> << >>, rows |-> << >>,
                  done |-> FALSE ]     (* history: the server did it        *)
  /\ UNCHANGED << store, lastRow >> /\ Around

-----------------------------------------------------------------------------
(* The server, by the statuses of its routes.                               *)
AnswerWith(status, body, id) ==
  running' = [running EXCEPT !.stage = "answered", !.status = status, !.body = body,
                             !.id = id, !.rows = store', !.done = status < 400]

Reached(verbs) ==
  running.stage = "sent" /\ running.command.verb \in verbs

AllVerbs == {command.verb : command \in Commands}

(* Every route but health asks for the token first.                         *)
Refused ==
  /\ Reached(AllVerbs \ {"health"}) /\ ~(condition.token /\ condition.db)
  /\ UNCHANGED << store, lastRow >>
  /\ AnswerWith(IF condition.token THEN 500 ELSE 401, << >>, running.id)
  /\ Around

Served(verbs) == Reached(verbs) /\ condition.token /\ condition.db

Malformed ==
  /\ Served({"create", "update", "complete", "preview", "query"})
  /\ UNCHANGED << store, lastRow >>
  /\ AnswerWith(400, << >>, running.id)
  /\ Around

(* The rows with a new one.                                                 *)
WithNew(rows, id) ==
  [row \in DOMAIN rows \union {id} |-> IF row \in DOMAIN rows THEN rows[row] ELSE "new"]

(* A new row; a completion that is answered, and paid for, is one too.      *)
Creates ==
  /\ Served({"create", "complete"}) /\ lastRow < MaxRows
  /\ lastRow' = lastRow + 1
  /\ store' = WithNew(store, lastRow')
  /\ AnswerWith(201, << >>, lastRow')
  /\ Around

Changes ==
  /\ Served({"update"})
  /\ store' = [id \in DOMAIN store |-> IF id = running.id THEN "changed" ELSE store[id]]
  /\ AnswerWith(IF running.id \in DOMAIN store THEN 200 ELSE 404, << >>, running.id)
  /\ UNCHANGED lastRow /\ Around

(* A row that is not there is a 404, or a success when it is a key.         *)
Deletes ==
  /\ Served({"delete", "revoke"})
  /\ store' = [id \in DOMAIN store \ {running.id} |-> store[id]]
  /\ AnswerWith(IF running.id \in DOMAIN store \/ running.command.verb = "revoke"
                  THEN 204 ELSE 404, << >>, running.id)
  /\ UNCHANGED lastRow /\ Around

Tells ==
  /\ Served({"list", "get", "status", "query", "rollups", "catalog", "preview"})
  /\ UNCHANGED << store, lastRow >>
  /\ AnswerWith(IF running.command.verb = "get" /\ running.id \notin DOMAIN store
                  THEN 404 ELSE 200, << >>, running.id)
  /\ Around

(* The answer to a replay says whether the decision was found again.        *)
Replays ==
  /\ Served({"replay"})
  /\ \E matches \in BOOLEAN :
       running' = [running EXCEPT !.stage = "answered", !.status = 200,
                     !.body = [matches |-> matches], !.done = matches]
  /\ UNCHANGED << store, lastRow >> /\ Around

(* GET /v1/health: the database is probed, then the active pricing table.   *)
Probes ==
  /\ Reached({"health"})
  /\ running' = [running EXCEPT !.stage = "checking", !.done = condition.db]
  /\ UNCHANGED << store, lastRow >> /\ Around

ChecksPricing ==
  LET allOk == running.done /\ condition.db /\ condition.pricing
  IN  /\ running.stage = "checking"
      /\ running' = [running EXCEPT !.stage = "answered", !.done = allOk,
           !.status = IF allOk THEN 200 ELSE 503,
           !.body = [status |-> IF allOk THEN "ok" ELSE "degraded"]]
      /\ UNCHANGED << store, lastRow >> /\ Around

-----------------------------------------------------------------------------
(* request, get and post end the process at an error status; health and     *)
(* replay go by what the answer says.                                       *)
ExitOf(verb, status, body) ==
  IF status = 401 THEN 3
  ELSE IF status >= 400 THEN 4
  ELSE IF verb = "health" /\ body.status # "ok" THEN 1
  ELSE IF verb = "replay" /\ ~body.matches THEN 1
  ELSE 0

(* What the operator notes of a command that ended well: of a row the server*)
(* made, the id printed, and of a list everything.                          *)
Noted(verb) ==
  CASE verb \in {"create", "complete"} -> WithNew(ledger, running.id)
    [] verb = "update" ->
         [id \in DOMAIN ledger |-> IF id = running.id THEN "changed" ELSE ledger[id]]
    [] verb \in {"delete", "revoke"} -> [id \in DOMAIN ledger \ {running.id} |-> ledger[id]]
    [] verb = "list" -> running.rows
    [] OTHER -> ledger

Exits ==
  LET verb == running.command.verb
  IN  /\ running.stage = "answered"
      /\ exit' = ExitOf(verb, running.status, running.body)
      /\ ledger' = IF exit' = 0 THEN Noted(verb) ELSE ledger
      /\ doubtful' = IF exit' = 0 /\ verb = "list" THEN {} ELSE doubtful
      /\ ended' = running.done /\ running' = AtPrompt
      /\ UNCHANGED << store, lastRow, condition, losses, upheavals >>

(* The connection breaks, before the server acts or after: fetch rejects and*)
(* bin.ts exits with 1.                                                     *)
ConnectionBreaks ==
  /\ running # AtPrompt /\ losses < MaxLosses /\ losses' = losses + 1
  /\ exit' = 1 /\ ended' = NoAnswer /\ running' = AtPrompt
  /\ doubtful' = IF running.stage = "answered" /\ running.command.method # "GET"
                    THEN doubtful \union ({running.id} \intersect 1..lastRow) ELSE doubtful
  /\ UNCHANGED << store, lastRow, condition, ledger, upheavals >>

(* The database comes and goes, prices are seeded, the token is revoked.    *)
ConditionChanges ==
  /\ upheavals < MaxUpheavals /\ upheavals' = upheavals + 1
  /\ \E what \in DOMAIN condition : condition' = [condition EXCEPT ![what] = ~@]
  /\ UNCHANGED << store, lastRow, running, exit, ended, ledger, doubtful, losses >>

CliNext ==
  \/ \E command \in Commands : NotSent(command)
  \/ \E command \in Commands, id \in 1..MaxRows : SendRequest(command, id)
  \/ Refused \/ Malformed \/ Creates \/ Changes \/ Deletes \/ Tells \/ Replays
  \/ Probes \/ ChecksPricing
  \/ Exits \/ ConnectionBreaks \/ ConditionChanges

-----------------------------------------------------------------------------
(* An operator can go by the exit codes.  A command exits with 0 exactly if *)
(* the server did what it was for -- a degraded health and a replay that    *)
(* diverges did not -- and what an operator who is alone noted of such      *)
(* commands is what the server has, but for the rows of which an answer was *)
(* lost, until they are listed: a command that exits with 1 may have been   *)
(* carried out, and repeated makes a second row or completion               *)
(* (program.ts:52-76, budgets.ts:26-44).                                    *)
LedgerAgrees ==
  /\ ended # NoAnswer => (exit = 0) = ended
  /\ running = AtPrompt =>
       \A id \in 1..lastRow \ doubtful :
         /\ id \in DOMAIN store <=> id \in DOMAIN ledger
         /\ id \in DOMAIN store => store[id] = ledger[id]
=============================================================================
