--------------------------------- MODULE UrlWalk ---------------------------------
(***************************************************************************)
(* The walkers that keep an url and a stack of its former lengths: smb     *)
(* (scanners/smbscan/smbwk.c), smb on Windows (scanners/smbscanwin),       *)
(* webdav (scanners/webdavscan/wdwk.c) and ftp with libcurl                *)
(* (scanners/curlftpscan/cfwk.c), driven by the 'dir tree' engine.         *)
(* Requests and allocations may fail at every call.                        *)
(*                                                                         *)
(* An url is the sequence of names appended to that of the share.          *)
(***************************************************************************)
EXTENDS ShareTree

CONSTANTS
  Kinds,      \* the walkers: of "smb", "smbwin", "webdav" and "curl"
  File,       \* the name of any file
  MaxStray    \* bound of the model: elements left on the stack by failures

ASSUME UrlAssumption == Kinds \subseteq {"smb", "smbwin", "webdav", "curl"} /\ MaxStray \in Nat

VARIABLES
  kind,        \* the walker the program is linked with
  saved, pc, path, left, entered, refused,   \* the engine, see Walk
  url,         \* struct buf_str: the names after that of the share
  error,       \* its flag: an allocation has failed; it is never reset
  ancestors,   \* lengths of url to go back to, a stack
  listing      \* subdirectories readdir will report: the open directory, or resources

walk == <<saved, pc, path, left, entered, refused>>
vars == <<kind, saved, pc, path, left, entered, refused, url, error, ancestors, listing>>

W == INSTANCE Walk

\* what opening the root tells; on Windows, the list of the host's shares
RootListing == Kids(<<>>)

Init ==
  /\ kind \in Kinds
  /\ W!Init
  /\ url = <<>>
  /\ error = FALSE
  /\ ancestors = <<>>
  /\ listing = RootListing

-----------------------------------------------------------------------------
(* url_append: the length is pushed, then the name appended.  It fails     *)
(* without a trace, or when there is no room for the name, or because it   *)
(* has failed before, although now there is room.                          *)
\* the length without the separator, though the share's own url has none
PushedShort == Append(ancestors, Len(url) - 1)
Pushed == Append(ancestors, Len(url))

\* a failure is forgotten, its element stays
AppendFailsForgiven(name) ==
  \/ UNCHANGED <<url, error, ancestors>>
  \/ url' = url /\ error' = FALSE /\ ancestors' = Pushed

AppendFails(name) ==
  \/ UNCHANGED <<url, error, ancestors>>
  \/ url' = url /\ error' = TRUE /\ ancestors' = Pushed
  \/ error /\ url' = Append(url, name) /\ error' = TRUE /\ ancestors' = Pushed

(* url_suspend; buf_chop shrinks the buffer, and sets the flag if it       *)
(* cannot.                                                                 *)
Chop(n) == IF n < Len(url) THEN SubSeq(url, 1, n) ELSE url
Suspend ==
  /\ url' = Chop(ancestors[Len(ancestors)])
  /\ ancestors' = SubSeq(ancestors, 1, Len(ancestors) - 1)
  /\ error' \in {error, TRUE}

-----------------------------------------------------------------------------
\* the size of a file is asked for by an url of its own (smbwk_readdir);
\* only the failure of url_append leaves a trace
StatFails ==
  /\ kind = "smb" /\ pc = "enter"
  /\ Len(ancestors) < Len(path) + MaxStray
  /\ AppendFails(File)
  /\ UNCHANGED <<walk, listing>>

\* readdir is called until it returns NULL
ReadDir ==
  \/ /\ path \notin Beyond \cup Big
     /\ W!Enter(Listed(path, listing))
     /\ listing' = {}
     /\ UNCHANGED <<url, error, ancestors>>
  \/ /\ path \in Beyond
     /\ W!Enter({})
     /\ UNCHANGED <<url, error, ancestors, listing>>
  \/ /\ path \in Big
     /\ \E kids \in SUBSET listing :
          W!Enter(Listed(path, kids)) /\ listing' = listing \ kids
     /\ UNCHANGED <<url, error, ancestors>>

(* c->subdir = 0 (smbscanwin): the shares of the host are reported, from a *)
(* list made in the beginning.  No return from a directory counts down, so *)
(* that this ends with the first descent.                                  *)
InShareList == kind = "smbwin" /\ path = <<>> /\ entered \subseteq {<<>>}

\* of the listings of former directories only libcurl's stays
Kept == IF kind = "curl" THEN listing ELSE {}

\* the length is not pushed
GoChildNoPush(n) ==
  /\ ~error
  /\ Append(url, n) \in Share
  /\ W!Descend(n)
  /\ url' = Append(url, n)
  /\ listing' = Kept \cup Kids(url')
  /\ UNCHANGED <<error, ancestors>>

GoChild(n) ==
  /\ ~error
  /\ Append(url, n) \in Share
  /\ W!Descend(n)
  /\ url' = Append(url, n)
  /\ ancestors' = Pushed
  /\ listing' = Kept \cup Kids(url')
  /\ UNCHANGED error

(* There is no room for the mask that FindFirstFile is to look for, so it  *)
(* is asked for the directory itself, and finds that.                      *)
GoChildUnmasked(n) ==
  /\ kind = "smbwin" /\ ~error /\ path # <<>>
  /\ Append(url, n) \in Share \cup Closed
  /\ W!Descend(n)
  /\ url' = Append(url, n)
  /\ ancestors' = Pushed
  /\ listing' = {n}
  /\ error' = TRUE

\* the entries that arrive before an answer over http or ftp breaks off
Received(p) == SUBSET Kids(p)

(* A refused directory leaves the walker the listing it had; on Windows    *)
(* FindFirstFile has replaced it, except that of the shares.               *)
AfterRefusal(n) ==
  CASE kind = "smb" -> {listing}
    [] kind = "smbwin" -> {IF InShareList THEN listing ELSE {}}
    [] OTHER -> {Kept \cup part : part \in Received(Append(url, n))}

\* the url stays extended
GoChildRefusedNoSuspend(n) ==
  /\ ~error
  /\ W!Refuse(n)
  /\ url' = Append(url, n)
  /\ ancestors' = Pushed
  /\ UNCHANGED <<error, listing>>

GoChildRefused(n) ==
  /\ ~error
  /\ W!Refuse(n)
  /\ error' \in {FALSE, TRUE}
  /\ listing' \in AfterRefusal(n)
  /\ UNCHANGED <<url, ancestors>>

GoChildNoMemory(n) ==
  /\ W!Refuse(n)
  /\ AppendFails(n)
  /\ UNCHANGED listing

TimedOut == ~error /\ W!Exit /\ W!Rest # {} /\ UNCHANGED <<url, error, ancestors, listing>>

GoParent == W!Ascend /\ Suspend /\ listing' = IF kind = "smb" THEN {} ELSE listing

Finish == W!Finish /\ UNCHANGED <<url, error, ancestors, listing>>

Next ==
  /\ kind' = kind
  /\ \/ StatFails \/ ReadDir
     \/ \E n \in Names : GoChild(n) \/ GoChildUnmasked(n) \/ GoChildRefused(n) \/ GoChildNoMemory(n)
     \/ TimedOut \/ GoParent \/ Finish

Spec == Init /\ [][Next]_vars

-----------------------------------------------------------------------------
(* TYPE: all variables, and readdir's listing only names subdirectories.   *)
UrlTypeOK ==
  /\ kind \in Kinds
  /\ W!TypeOK
  /\ url \in Seq(Names \cup {File})
  /\ error \in BOOLEAN
  /\ ancestors \in Seq(Nat)
  /\ listing \subseteq Names

(* SAFETY: stack_pop never underflows (an assertion, stack.c:27): there is *)
(* an element for every directory to return from, whatever has failed.     *)
FramesSuffice == Len(ancestors) >= Len(path)

(* On Windows the flag stays clear while a directory is listed, unless the *)
(* directory itself was asked for.                                         *)
Unmasked == kind = "smbwin" /\ error

(* SAFETY: whenever the engine reads a directory, the walker is in it: its *)
(* listing is that of the directory, though failed calls leave names in    *)
(* the url and elements on the stack.  They are harmless because the error *)
(* flag is never reset, so that no directory is entered after them.        *)
ReadsWhereItIs ==
  pc = "enter" => /\ Unmasked \/ listing = Kids(path)
                  /\ ~error => url = path

(* REFINEMENT: the walker keeps what dt.h asks of walkers, but for the     *)
(* directory that is asked for without a mask.                             *)
WalkSpec == W!Init /\ [][W!Next \/ (Unmasked' /\ "enter" \in {pc, pc'})]_walk

=============================================================================
