-------------------------------- MODULE Scanner --------------------------------
(***************************************************************************)
(* The programs around the walkers of UrlWalk: smbscan, smbscanwin,        *)
(* webdavscan and curlftpscan read their command line, connect, and either *)
(* look whether there is anything (-l) or walk the share, and their exit   *)
(* status (scanners/libuguu/estat.h) tells spiders and lookups how it went.*)
(*                                                                         *)
(* What an option that takes a value is given does not matter, and a word  *)
(* is anything that does not begin with "-".  Shares that -a and -d skip   *)
(* are taken for absent.                                                   *)
(***************************************************************************)
EXTENDS UrlWalk

CONSTANTS
  CommandLines,   \* sequences of options and words
  RootFile        \* whether there are files in the root

ASSUME ScannerAssumption == RootFile \in BOOLEAN

VARIABLES
  mode,      \* what the command line asks for
  oldtree,   \* what dt_diff is to read: a "good" file, one that is "broken" or "missing"
  program    \* "started", "connected", "walking", or the exit status

scanVars == <<kind, saved, pc, path, left, entered, refused, url, error, ancestors, listing,
              mode, oldtree, program>>

-----------------------------------------------------------------------------
(* The options of each program: with a value in the next argument, with    *)
(* none or one that is attached, and those of which only one may be given. *)
SmbOptions == [valued |-> {"-u"}, plain |-> {}, single |-> {"-a", "-d"}]
SmbWinOptions == [valued |-> {"-u", "-U"}, plain |-> {"-P"}, single |-> {"-a", "-d"}]
WebdavOptions == [valued |-> {"-u"}, plain |-> {"-p80"}, single |-> {}]
CurlOptions == [valued |-> {"-u", "-C"}, plain |-> {"-p80"}, single |-> {}]
Options ==
  CASE kind = "smb" -> SmbOptions
    [] kind = "smbwin" -> SmbWinOptions
    [] kind = "webdav" -> WebdavOptions
    [] kind = "curl" -> CurlOptions

(* A turn of the loop over the arguments: i is the next one, and how the   *)
(* loop has ended, if it has.                                              *)
Nothing == [i |-> 1, given |-> {}, end |-> "no"]
Past(r, n, options) == [r EXCEPT !.i = @ + n, !.given = @ \cup options]
Turn(args, r) ==
  IF r.end # "no" \/ r.i > Len(args) THEN r
  ELSE LET o == args[r.i]
       IN CASE o = "word" -> [r EXCEPT !.end = "host"]
            [] o = "--" -> [Past(r, 1, {}) EXCEPT !.end = "host"]
            [] o = "-h" -> [r EXCEPT !.end = "success"]
            [] o \in {"-f", "-l"} \cup Options.plain -> Past(r, 1, {o})
            [] o \in Options.single /\ r.given \cap Options.single = {} -> Past(r, 1, {o})
            [] o \in Options.valued /\ r.i < Len(args) -> Past(r, 2, {o})
            [] OTHER -> [r EXCEPT !.end = "failure"]

(* What the command line asks for; one argument must be left, the host.    *)
Asked(args) ==
  LET turns[n \in 0..Len(args)] == IF n = 0 THEN Nothing ELSE Turn(args, turns[n - 1])
      r == turns[Len(args)]
  IN CASE r.end \in {"success", "failure"} -> r.end
       [] r.i # Len(args) -> "failure"
       [] kind = "smbwin" /\ {"-f", "-u"} \subseteq r.given -> "failure"
       [] OTHER -> CASE "-l" \in r.given -> "lookup"
                     [] "-f" \in r.given -> "full"
                     [] "-u" \in r.given -> "diff"
                     [] OTHER -> "reverse"

ScanInit ==
  /\ Init
  /\ mode \in {Asked(args) : args \in CommandLines}
  /\ oldtree \in IF mode = "diff" THEN {"good", "broken", "missing"} ELSE {"missing"}
  /\ saved = IF oldtree = "good" THEN Saved ELSE {}
  /\ program = "started"

-----------------------------------------------------------------------------
Stays == UNCHANGED <<mode, oldtree>>
Exits(status) == program' = status /\ UNCHANGED vars /\ Stays

Usage == program = "started" /\ mode \in {"success", "failure"} /\ Exits(mode)

Connect ==
  /\ program = "started" /\ mode \notin {"success", "failure"}
  /\ program' = "connected"
  /\ UNCHANGED vars /\ Stays

(* curl_global_init is the only one whose failure is not one of the        *)
(* connection; on Windows smbwk_open tells which it was.                   *)
Unconnected == IF kind \in {"curl", "smbwin"} THEN {"noconnect", "failure"} ELSE {"noconnect"}
ConnectFails ==
  /\ program = "started" /\ mode \notin {"success", "failure"}
  /\ \E status \in Unconnected : Exits(status)

(* The first entry of the root; an allocation that fails looks like none.  *)
Probe ==
  /\ program = "connected" /\ mode = "lookup"
  /\ \/ (listing # {} \/ RootFile) /\ Exits("success")
     \/ Exits("failure")

NoOldTree == program = "connected" /\ mode = "diff" /\ oldtree = "missing" /\ Exits("failure")

(* dt_full, dt_reverse and dt_diff are called; dt_diff with a file that    *)
(* cannot be read does what dt_reverse does.                               *)
Ready == program = "connected" /\ mode # "lookup" /\ ~(mode = "diff" /\ oldtree = "missing")
Begin == Ready /\ program' = "walking" /\ UNCHANGED vars /\ Stays

(* They return at once when there is no memory for the root, which no one  *)
(* is told.                                                                *)
NoRoot == Ready /\ Exits("success")

\* the time-out is not told
WalkOnSilently == program = "walking" /\ Next /\ Stays /\ program' = IF pc' = "exit" THEN "success" ELSE program
WalkOn ==
  /\ program = "walking"
  /\ Next
  /\ program' = IF pc' = "exit" THEN "noconnect" ELSE program
  /\ Stays

Return == program = "walking" /\ pc = "done" /\ Exits("success")

ScanNext ==
  \/ Usage \/ Connect \/ ConnectFails
  \/ Probe \/ NoOldTree \/ NoRoot \/ Begin
  \/ WalkOn \/ Return

ScanSpec == ScanInit /\ [][ScanNext]_scanVars
FairSpec == ScanSpec /\ WF_scanVars(ScanNext)

-----------------------------------------------------------------------------
Statuses == {"success", "failure", "noconnect"}

(* TYPE: all variables.                                                    *)
TypeOK ==
  /\ UrlTypeOK
  /\ mode \in {"success", "failure", "lookup", "full", "diff", "reverse"}
  /\ oldtree \in {"good", "broken", "missing"}
  /\ program \in {"started", "connected", "walking"} \cup Statuses

(* SAFETY: a scan that exits with ESTAT_SUCCESS has read all directories,  *)
(* but for those that a server refused, or that lie below one refused or   *)
(* cut off, over any failures of allocations and of requests that are not  *)
(* time-outs; or it could not even begin and has printed nothing.          *)
SuccessIsComplete ==
  program = "success" /\ mode \in {"full", "diff", "reverse"} /\ ~Unmasked =>
    entered = {} \/ \A p \in Share : p \in entered \/ W!Excused(p)

(* LIVENESS: the program exits, over any sequence of failures.             *)
Terminates == <>(program \in Statuses)
=============================================================================
