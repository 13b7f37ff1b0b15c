--------------------------- MODULE SessionTables ---------------------------
(***************************************************************************)
(* The tables of a session: services (service.c), attached devices         *)
(* (device.c), the notification history (notify.c), the accessibility tree *)
(* (a11y.c) and what desktop.c keeps and writes.  A service's main runs    *)
(* inside start, on the caller's stack, and may make any of these calls    *)
(* itself.                                                                 *)
(***************************************************************************)
EXTENDS Integers, Sequences, FiniteSets, FiniteSetsExt, SequencesExt

CONSTANTS
  Services,
  DeviceSlots,  \* CELLAR_MAX_DEV
  IdLimit,      \* bound: identifiers given out, far below the 2^32 where they wrap
  NotifyCap,    \* CELLAR_NOTIFY_CAP
  Nodes,        \* CELLAR_A11Y_MAX
  MaxNesting,   \* bound: services started inside one another
  EntryNames,   \* names of desktop entries
  EntryId,      \* [EntryNames -> the name with its blanks made dashes]
  Texts,        \* texts for the clipboard and URLs
  Kept,         \* [Texts -> what the clipboard's 4095 and the URL's 511 bytes hold of them]
  MaxMime       \* bound: lines of mimeapps.list

ASSUME SessionAssumption ==
  /\ {DeviceSlots, NotifyCap} \subseteq Nat \ {0} /\ Nodes \in Nat \ {0, 1}
  /\ {IdLimit, MaxNesting, MaxMime} \subseteq Nat
  /\ DOMAIN EntryId = EntryNames /\ Kept \in [Texts -> [clipboard : Texts, url : Texts]]

VARIABLES
  service,    \* [Services -> state, "none" before it is registered]
  running,    \* the services whose main is on the stack, innermost last
  last,       \* history: [Services -> the request for it that returned last]
  device,     \* [1..DeviceSlots -> id, 0 for a free slot]
  nextDevice, \* device.c's g_next
  gone,       \* history: device ids that were detached
  history,    \* notify.c's g_hist: the ids, oldest first
  nextNote,   \* notify.c's g_next
  closed,     \* history: notification ids that were closed
  parent,     \* a11y.c's g_nodes: a sequence of parents, the node's id its index
  children,   \* [1..Len(parent) -> child_count]
  shortcut,   \* [the ids of EntryId -> the name in that .desktop file, "" for no file]
  mime,       \* mimeapps.list: the names, oldest first
  clipboard,  \* g_clipboard
  lastUrl     \* g_last_url

serviceVars == <<service, running, last>>
deviceVars == <<device, nextDevice, gone>>
notifyVars == <<history, nextNote, closed>>
nodeVars == <<parent, children>>
desktopVars == <<shortcut, mime, clipboard, lastUrl>>
sessionVars == <<serviceVars, deviceVars, notifyVars, nodeVars, desktopVars>>

SessionInit ==
  /\ service = [s \in Services |-> "none"] /\ running = << >>
  /\ last = [s \in Services |-> "stop"]
  /\ device = [i \in 1..DeviceSlots |-> 0] /\ nextDevice = 1 /\ gone = {}
  /\ history = << >> /\ nextNote = 1 /\ closed = {}
  /\ parent = << >> /\ children = << >>
  /\ shortcut = [id \in {EntryId[n] : n \in EntryNames} |-> ""]
  /\ mime = << >> /\ clipboard = "" /\ lastUrl = ""

-----------------------------------------------------------------------------
(* Registering a known service replaces its main and keeps its state.      *)
SvcRegister(s) ==
  /\ service[s] = "none"
  /\ service' = [service EXCEPT ![s] = "stopped"]
  /\ UNCHANGED <<running, last>>

SvcStart(s) ==
  /\ service[s] # "none" /\ Len(running) < MaxNesting
  /\ service' = [service EXCEPT ![s] = "start_pending"]
  /\ running' = Append(running, s)
  /\ UNCHANGED last

(* Variant: a main that has stopped its service leaves it stopped.         *)
SvcMainReturnsKeeping(s) ==
  /\ running # << >> /\ s = running[Len(running)]
  /\ service' = [service EXCEPT ![s] = IF @ = "stopped" THEN @ ELSE "running"]
  /\ running' = SubSeq(running, 1, Len(running) - 1)
  /\ last' = [last EXCEPT ![s] = "start"]

(* start goes on when main returns: the service runs, whatever its main    *)
(* has made of it.                                                         *)
SvcMainReturns(s) ==
  /\ running # << >> /\ s = running[Len(running)]
  /\ service' = [service EXCEPT ![s] = "running"]
  /\ running' = SubSeq(running, 1, Len(running) - 1)
  /\ last' = [last EXCEPT ![s] = "start"]

SvcStop(s) ==
  /\ service[s] # "none"
  /\ service' = [service EXCEPT ![s] = "stopped"]
  /\ last' = [last EXCEPT ![s] = "stop"]
  /\ UNCHANGED running

ServiceStep ==
  \E s \in Services : SvcRegister(s) \/ SvcStart(s) \/ SvcMainReturns(s) \/ SvcStop(s)

-----------------------------------------------------------------------------
(* attach takes the first free slot and the next id.                       *)
Attach ==
  /\ nextDevice <= IdLimit
  /\ \E i \in DOMAIN device : device[i] = 0
  /\ device' = [device EXCEPT ![Min({i \in DOMAIN device : device[i] = 0})] = nextDevice]
  /\ nextDevice' = nextDevice + 1
  /\ UNCHANGED gone

(* Variant: the id is given back when it was the last one.                 *)
DetachReturning(id) ==
  /\ \E i \in DOMAIN device : device[i] = id
  /\ device' = [device EXCEPT ![Min({i \in DOMAIN device : device[i] = id})] = 0]
  /\ nextDevice' = IF id # 0 /\ id = nextDevice - 1 THEN id ELSE nextDevice
  /\ gone' = gone \cup {id}

(* detach clears the first slot with the id; for id 0 that is a free one.  *)
Detach(id) ==
  /\ \E i \in DOMAIN device : device[i] = id
  /\ device' = [device EXCEPT ![Min({i \in DOMAIN device : device[i] = id})] = 0]
  /\ gone' = gone \cup {id}
  /\ UNCHANGED nextDevice

DeviceReset ==
  /\ device' = [i \in 1..DeviceSlots |-> 0] /\ nextDevice' = 1 /\ gone' = {}

DeviceStep == Attach \/ DeviceReset \/ \E id \in 0..IdLimit : Detach(id)

-----------------------------------------------------------------------------
(* show: a full history loses its oldest entry.                            *)
Show ==
  /\ nextNote <= IdLimit
  /\ history' = Append(IF Len(history) < NotifyCap THEN history ELSE Tail(history), nextNote)
  /\ nextNote' = nextNote + 1
  /\ UNCHANGED closed

(* close takes the first entry with the id out; one that has left the      *)
(* history is unknown.                                                     *)
CloseNote(id) ==
  /\ \E i \in DOMAIN history : history[i] = id
  /\ history' = RemoveAt(history, Min({i \in DOMAIN history : history[i] = id}))
  /\ closed' = closed \cup {id}
  /\ UNCHANGED nextNote

(* cellar_desktop_notify shows a notification of its own and forgets the   *)
(* id, so that only a caller of cellar_notify_history can close it.        *)
DesktopNotify == Show

NotifyStep == Show \/ DesktopNotify \/ \E id \in 1..IdLimit : CloseNote(id)

-----------------------------------------------------------------------------
(* ensure_root: node 1 is the desktop, whose parent is no node.            *)
Parents == IF parent = << >> THEN <<0>> ELSE parent
Counts == IF parent = << >> THEN <<0>> ELSE children

(* Variant: the count goes to the node the caller named.                   *)
CreateNodeCounting(p) ==
  /\ Len(Parents) + 1 < Nodes
  /\ LET under == IF p = 0 THEN 1 ELSE p
     IN  /\ under \in DOMAIN Parents
         /\ parent' = Append(Parents, under)
         /\ children' = [i \in 1..Len(Parents) + 1 |->
                           IF i = p THEN Counts[i] + 1 ELSE IF i \in DOMAIN Counts THEN Counts[i] ELSE 0]

(* create: below the root when the parent is 0, refused below a node that  *)
(* is not there or when the table is full (the root is made all the same). *)
CreateNode(p) ==
  /\ Len(Parents) + 1 < Nodes
  /\ LET under == IF p = 0 THEN 1 ELSE p
     IN  /\ under \in DOMAIN Parents
         /\ parent' = Append(Parents, under)
         /\ children' = Append([Counts EXCEPT ![under] = @ + 1], 0)

RefuseNode ==
  /\ parent' = Parents /\ children' = Counts

ResetNodes ==
  /\ parent' = << >> /\ children' = << >>

NodeStep == RefuseNode \/ ResetNodes \/ \E p \in 0..Nodes - 1 : CreateNode(p)

(* cellar_a11y_children.                                                   *)
ChildrenOf(id) == {i \in DOMAIN Parents : Parents[i] = id}

-----------------------------------------------------------------------------
(* write_shortcut: an entry replaces any other whose name gives the same   *)
(* file; write_mime appends, also what is there already.                   *)
WriteShortcut(n) ==
  /\ shortcut' = [shortcut EXCEPT ![EntryId[n]] = n]
  /\ UNCHANGED <<mime, clipboard, lastUrl>>

WriteMime(n) ==
  /\ Len(mime) < MaxMime
  /\ mime' = Append(mime, n)
  /\ UNCHANGED <<shortcut, clipboard, lastUrl>>

ClipboardSet(text) ==
  /\ clipboard' = Kept[text].clipboard
  /\ UNCHANGED <<shortcut, mime, lastUrl>>

OpenUrl(text) ==
  /\ lastUrl' = Kept[text].url
  /\ UNCHANGED <<shortcut, mime, clipboard>>

DesktopStep ==
  \/ \E n \in EntryNames : WriteShortcut(n) \/ WriteMime(n)
  \/ \E text \in Texts : ClipboardSet(text) \/ OpenUrl(text)

-----------------------------------------------------------------------------
SessionTypeOK ==
  /\ service \in [Services -> {"none", "stopped", "start_pending", "running"}]
  /\ Len(running) <= MaxNesting /\ nextDevice \in 1..IdLimit + 1 /\ nextNote \in 1..IdLimit + 1
  /\ Len(history) <= NotifyCap /\ Len(parent) < Nodes /\ Len(children) = Len(parent)
  /\ \A id \in DOMAIN shortcut : shortcut[id] = "" \/ EntryId[shortcut[id]] = id
  /\ mime \in Seq(EntryNames) /\ {clipboard, lastUrl} \subseteq Texts \cup {""}

(* A service is start-pending only inside its main, however starts and     *)
(* stops are nested; outside it, its state is what the request for it that *)
(* returned last has asked for.  A service that its own main stops is      *)
(* therefore running, as the start returns after the stop.                 *)
ServiceSettled ==
  \A s \in Services :
    (\A i \in DOMAIN running : running[i] # s) =>
      service[s] \in IF last[s] = "start" THEN {"running"} ELSE {"none", "stopped"}

(* An id names one device for ever: attached devices have different ids,   *)
(* and no attached device has an id that another one had before it, so     *)
(* that a late detach or get cannot hit the wrong device.                  *)
DeviceIdsFresh ==
  /\ \A i, j \in DOMAIN device : (device[i] = device[j] /\ device[i] # 0) => i = j
  /\ \A i \in DOMAIN device : device[i] # 0 => device[i] \notin gone

(* The history has the most recent notifications that were not closed, in  *)
(* the order they were shown: all of them as long as fewer are missing     *)
(* than NotifyCap, and never one older than the NotifyCap last shown that  *)
(* pushes a younger one out.                                               *)
HistoryIsRecent ==
  /\ \A i, j \in DOMAIN history : i < j => history[i] < history[j]
  /\ \A n \in 1..nextNote - 1 :
       (n \notin closed /\ \A i \in DOMAIN history : history[i] # n) =>
         Cardinality({m \in n + 1..nextNote - 1 :
                        m \in closed \/ \E i \in DOMAIN history : history[i] = m}) >= NotifyCap

(* The tree stays a tree whose counts are true: every node but the root    *)
(* hangs below an older one, and child_count is the number of nodes that   *)
(* children lists.                                                         *)
TreeCounts ==
  \A i \in DOMAIN parent :
    /\ parent[i] < i
    /\ children[i] = Cardinality(ChildrenOf(i))
=============================================================================
