------------------------------ MODULE Approval ------------------------------
(***************************************************************************)
(* Who may stream over the network: the streamer prints a request and      *)
(* waits at its gate, the GUI reads the line, looks into its stores or     *)
(* asks the user, and writes the decision to the streamer's stdin.         *)
(* Questions are modal, so they nest; a decision names a device and not a  *)
(* request, so one that comes late waits for the next request.             *)
(***************************************************************************)
EXTENDS Naturals, Sequences

CONSTANTS Streamer,   \* the sessions that listen on the network
          Device,     \* remote devices: an id, or the address without one
          Nobody,     \* no device
          MaxLines,   \* bound: requests of a streamer that are not read
          MaxWakes,   \* bound: Connect clicks on a Wi-Fi device
          MaxForgets, \* bound: devices forgotten
          MaxExits    \* bound: streamers that end

ASSUME BoundsAssumption ==
    MaxLines \in Nat \ {0} /\ MaxWakes \in Nat /\ MaxForgets \in Nat /\ MaxExits \in Nat
ASSUME NobodyAssumption == Nobody \notin Device

VARIABLES
    phase,    \* of each streamer's loop
    peer,     \* the device each streamer serves
    gate,     \* decisions_ of each streamer
    out,      \* request lines that QProcess has and onReadyRead has not taken
    told,     \* readyRead is due: something was printed since the last one
    buf,      \* request lines in buf_
    asking,   \* the open questions, the innermost first
    approved, \* ApprovedStore
    woken,    \* devices with a pendingWakes_ entry of the last 15 s
    gui,      \* the GUI has not crashed
    allowed,  \* history: devices the user ever let in
    due,      \* history: sessions begun without an entry in the store
    bounds    \* wakes, forgets and exits so far

streamers == <<phase, peer, gate>>
lines == <<out, told, buf>>
stores == <<approved, woken, allowed>>
approvalVars == <<streamers, lines, asking, stores, gui, due, bounds>>

Decision == {"none", "allow", "deny"}
Question == [at : Streamer, of : Device, live : BOOLEAN]
NoDecisions == [d \in Device |-> "none"]

ApprovalTypeOK ==
    /\ phase \in [Streamer -> {"idle", "waiting", "streaming", "off"}]
    /\ peer \in [Streamer -> Device \cup {Nobody}]
    /\ gate \in [Streamer -> [Device -> Decision]]
    /\ out \in [Streamer -> Seq(Device)] /\ buf \in [Streamer -> Seq(Device)]
    /\ told \in [Streamer -> BOOLEAN]
    /\ asking \in Seq(Question)
    /\ approved \in SUBSET Device /\ woken \in SUBSET Device /\ allowed \in SUBSET Device
    /\ gui \in BOOLEAN
    /\ due \in [Streamer -> [Device -> Nat]]
    /\ bounds \in [wakes : 0..MaxWakes, forgets : 0..MaxForgets, exits : 0..MaxExits]

ApprovalInit ==
    /\ phase = [s \in Streamer |-> "idle"]
    /\ peer = [s \in Streamer |-> Nobody]
    /\ gate = [s \in Streamer |-> NoDecisions]
    /\ out = [s \in Streamer |-> <<>>] /\ buf = [s \in Streamer |-> <<>>]
    /\ told = [s \in Streamer |-> FALSE]
    /\ asking = <<>>
    /\ approved = {} /\ woken = {} /\ allowed = {}
    /\ gui = TRUE
    /\ due = [s \in Streamer |-> [d \in Device |-> 0]]
    /\ bounds = [wakes |-> 0, forgets |-> 0, exits |-> 0]

-----------------------------------------------------------------------------
(* The GUI is one thread. A slot that asks runs the event loop until the   *)
(* answer; QProcess does not emit readyRead again from within it.          *)

Asks(s) == \E i \in DOMAIN asking : asking[i].at = s /\ asking[i].live

\* onReadyRead of a streamer has lines left and is not inside a question.
InSlot(s) == buf[s] # <<>> /\ ~Asks(s)

GuiFree == gui /\ \A s \in Streamer : ~InSlot(s)

\* Output is announced, unless the slot that would read it is the one asking.
Prints(s) == told' = [told EXCEPT ![s] = @ \/ ~Asks(s)]

-----------------------------------------------------------------------------
(* The streamer.                                                           *)

\* A device connects and says HELLO: the streamer prints its request and waits.
\* A client has one connection.
Dial(s, d) ==
    /\ gui
    /\ phase[s] = "idle"
    /\ Len(out[s]) < MaxLines
    /\ \A r \in Streamer : peer[r] # d
    /\ phase' = [phase EXCEPT ![s] = "waiting"]
    /\ peer' = [peer EXCEPT ![s] = d]
    /\ out' = [out EXCEPT ![s] = Append(@, d)]
    /\ Prints(s)
    /\ UNCHANGED <<gate, buf, asking, stores, gui, due, bounds>>

\* A plausible bug: the decision stays in the gate.
Bug_Taken(s) == gate

\* The gate's decision for a device is used up by the wait that takes it.
Taken(s) == [gate EXCEPT ![s][peer[s]] = "none"]

\* The wait is answered with allow: the session runs, and prints its stats.
Admit(s) ==
    /\ gui
    /\ phase[s] = "waiting" /\ gate[s][peer[s]] = "allow"
    /\ gate' = Taken(s)
    /\ phase' = [phase EXCEPT ![s] = "streaming"]
    /\ due' = [due EXCEPT ![s][peer[s]] = IF peer[s] \in approved THEN 0 ELSE @ + 1]
    /\ Prints(s)
    /\ UNCHANGED <<peer, out, buf, asking, stores, gui, bounds>>

\* Denied, or the link of a session is lost: the loop waits for the next client.
Closes(s) ==
    /\ phase' = [phase EXCEPT ![s] = "idle"]
    /\ peer' = [peer EXCEPT ![s] = Nobody]
    /\ Prints(s)
    /\ UNCHANGED <<out, buf, asking, stores, gui, due, bounds>>

Deny(s) ==
    /\ gui
    /\ phase[s] = "waiting" /\ gate[s][peer[s]] = "deny"
    /\ gate' = Taken(s)
    /\ Closes(s)

\* 60 s without a decision. A GUI that is about to answer is quicker.
TimeOut(s) ==
    /\ GuiFree
    /\ phase[s] = "waiting" /\ gate[s][peer[s]] = "none"
    /\ ~(told[s] /\ out[s] # <<>> /\ ~Asks(s))
    /\ Closes(s)
    /\ UNCHANGED gate

LinkLost(s) ==
    /\ gui
    /\ phase[s] = "streaming"
    /\ Closes(s)
    /\ UNCHANGED gate

\* A session prints its stats every second, an accept without a client times
\* out after 60 s and says so.
Chatter(s) ==
    /\ gui
    /\ phase[s] \in {"idle", "streaming"}
    /\ ~told[s]
    /\ Prints(s)
    /\ UNCHANGED <<streamers, out, buf, asking, stores, gui, due, bounds>>

\* The process ends: a BYE, a crash, a stop of the GUI. What it knew is lost.
Quits(s) ==
    /\ gui
    /\ phase[s] # "off"
    /\ bounds.exits < MaxExits
    /\ bounds' = [bounds EXCEPT !.exits = @ + 1]
    /\ phase' = [phase EXCEPT ![s] = "off"]
    /\ peer' = [peer EXCEPT ![s] = Nobody]
    /\ gate' = [gate EXCEPT ![s] = NoDecisions]
    /\ Prints(s)
    /\ UNCHANGED <<out, buf, asking, stores, gui, due>>

-----------------------------------------------------------------------------
(* The GUI.                                                                *)

\* onReadyRead takes what there is.
Read(s) ==
    /\ GuiFree
    /\ told[s] /\ ~Asks(s)
    /\ told' = [told EXCEPT ![s] = FALSE]
    /\ buf' = [buf EXCEPT ![s] = out[s]]
    /\ out' = [out EXCEPT ![s] = <<>>]
    /\ UNCHANGED <<streamers, asking, stores, gui, due, bounds>>

\* A plausible bug: only a wait that is open takes a decision.
Bug_Submit(s, d, decision) ==
    gate' = IF phase[s] = "waiting" /\ peer[s] = d
            THEN [gate EXCEPT ![s][d] = decision] ELSE gate

\* A decision written to a streamer that runs reaches its gate.
Submit(s, d, decision) ==
    gate' = IF phase[s] = "off" THEN gate ELSE [gate EXCEPT ![s][d] = decision]

\* The device gets its entry, and its sessions are not counted any more.
Approved(d) ==
    /\ approved' = approved \cup {d}
    /\ allowed' = allowed \cup {d}
    /\ due' = [s \in Streamer |-> [due[s] EXCEPT ![d] = 0]]

\* A request of a device that was woken lately or is in the store is answered.
Answered(s) ==
    /\ gui /\ InSlot(s)
    /\ LET d == Head(buf[s]) IN
        /\ d \in woken \cup approved
        /\ woken' = woken \ {d}
        /\ Approved(d)
        /\ Submit(s, d, "allow")
    /\ buf' = [buf EXCEPT ![s] = Tail(@)]
    /\ UNCHANGED <<phase, peer, out, told, asking, gui, bounds>>

\* Any other is put to the user, within the slot.
Ask(s) ==
    /\ gui /\ InSlot(s)
    /\ LET d == Head(buf[s]) IN
        /\ d \notin woken \cup approved
        /\ asking' = <<[at |-> s, of |-> d, live |-> TRUE]>> \o asking
    /\ UNCHANGED <<streamers, out, told, buf, stores, gui, due, bounds>>

\* The innermost question is the one that can be answered. If the controller
\* was deleted meanwhile, the slot goes on in freed memory.
Answer(yes) ==
    /\ GuiFree
    /\ asking # <<>>
    /\ asking' = Tail(asking)
    /\ LET q == Head(asking) IN
        /\ IF yes THEN Approved(q.of) ELSE UNCHANGED <<approved, allowed, due>>
        /\ IF q.live
           THEN /\ Submit(q.at, q.of, IF yes THEN "allow" ELSE "deny")
                /\ buf' = [buf EXCEPT ![q.at] = Tail(@)]
                /\ gui' = TRUE
           ELSE /\ UNCHANGED <<gate, buf>>
                /\ gui' \in BOOLEAN
    /\ UNCHANGED <<phase, peer, out, told, woken, bounds>>

\* The end of a process is reported after the lines that were announced; others
\* are lost. If its slot asks, its controller is deleted with the slot on the
\* stack. The session is started again.
Finished(s) ==
    /\ GuiFree
    /\ phase[s] = "off"
    /\ ~told[s] \/ Asks(s)
    /\ phase' = [phase EXCEPT ![s] = "idle"]
    /\ out' = [out EXCEPT ![s] = <<>>]
    /\ buf' = [buf EXCEPT ![s] = <<>>]
    /\ told' = [told EXCEPT ![s] = FALSE]
    /\ asking' = [i \in DOMAIN asking |->
                    [asking[i] EXCEPT !.live = @ /\ asking[i].at # s]]
    /\ UNCHANGED <<peer, gate, stores, gui, due, bounds>>

-----------------------------------------------------------------------------
(* The user.                                                               *)

\* Connect on a Wi-Fi device sends it a WAKE; the entry is good for 15 s.
Wake(d) ==
    /\ GuiFree /\ asking = <<>>
    /\ bounds.wakes < MaxWakes
    /\ bounds' = [bounds EXCEPT !.wakes = @ + 1]
    /\ woken' = woken \cup {d}
    /\ UNCHANGED <<streamers, lines, asking, approved, allowed, gui, due>>

WakeIsOld(d) ==
    /\ gui
    /\ d \in woken
    /\ woken' = woken \ {d}
    /\ UNCHANGED <<streamers, lines, asking, approved, allowed, gui, due, bounds>>

\* Remembered devices: Forget selected. No question is open then.
Forget(d) ==
    /\ GuiFree /\ asking = <<>>
    /\ d \in approved
    /\ bounds.forgets < MaxForgets
    /\ bounds' = [bounds EXCEPT !.forgets = @ + 1]
    /\ approved' = approved \ {d}
    /\ UNCHANGED <<streamers, lines, asking, woken, allowed, gui, due>>

-----------------------------------------------------------------------------
StreamerStep(s) == Admit(s) \/ Deny(s) \/ TimeOut(s)
GuiStep(s) == Read(s) \/ Answered(s) \/ Ask(s) \/ Finished(s)

ApprovalNext ==
    \/ \E s \in Streamer : StreamerStep(s) \/ GuiStep(s)
    \/ \E s \in Streamer : LinkLost(s) \/ Chatter(s) \/ Quits(s)
    \/ \E s \in Streamer, d \in Device : Dial(s, d)
    \/ \E yes \in BOOLEAN : Answer(yes)
    \/ \E d \in Device : Wake(d) \/ WakeIsOld(d) \/ Forget(d)

ApprovalSpec == ApprovalInit /\ [][ApprovalNext]_approvalVars

\* The threads run, the user answers, a session does not last for ever, and a
\* device that is not served dials on.
ApprovalFairSpec ==
    /\ ApprovalSpec
    /\ \A s \in Streamer :
        /\ WF_approvalVars(StreamerStep(s)) /\ WF_approvalVars(GuiStep(s))
        /\ WF_approvalVars(Chatter(s)) /\ WF_approvalVars(LinkLost(s))
    /\ WF_approvalVars(\E yes \in BOOLEAN : Answer(yes))
    /\ \A d \in Device : SF_approvalVars(\E s \in Streamer : Dial(s, d))

-----------------------------------------------------------------------------
(* Properties.                                                             *)

\* Nobody streams whom the user never let in, and a device that was taken off
\* the list (main_window.cpp:516, "Devices allowed to connect without asking")
\* gets at most one more session of each streamer: the late decision that is
\* still in its gate (approval.h:24).
OneLateAnswer ==
    \A s \in Streamer, d \in Device : due[s][d] <= (IF d \in allowed THEN 1 ELSE 0)

\* Who is on the list gets a session, although another device's question keeps
\* the GUI from reading its request, or a late No is still in the gate: the
\* answer to the request that timed out serves the next one.
ApprovedGetsIn ==
    \A d \in Device :
        d \in approved ~> ((\E s \in Streamer : phase[s] = "streaming" /\ peer[s] = d)
                            \/ d \notin approved \/ ~gui)
=============================================================================
