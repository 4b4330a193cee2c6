------------------------------ MODULE PicoWifi ------------------------------
(***************************************************************************)
(* The Pico W's Wi-Fi adaptor (hw/pico/wifi.c): a singleton over the CYW43  *)
(* chip.  Operations start something and set a busy flag; _hw_wifi_poll     *)
(* reads the chip's link while a flag is set and tells the callback, which  *)
(* runs in the middle of the poll and may call the operations itself.  The  *)
(* chip (link, scan, association) and lwIP's address are external.          *)
(***************************************************************************)
EXTENDS Integers, FiniteSets

CONSTANTS
  Networks,   \* networks in range
  Secured,    \* those of them that want a key
  Patient     \* TRUE: the application calls outside the callback, connects and scans only
              \* while it is not connected, and disconnects only once it is

VARIABLES wifi, chip, addr, told, at

vars == <<wifi, chip, addr, told, at>>

NoNetwork == "none"
Unknown   == "UNKNOWN"
Cleared == [active |-> FALSE, ap |-> FALSE, callback |-> FALSE, busy |-> {}, state |-> "zero", network |-> NoNetwork, ts |-> FALSE]
Init ==
  /\ wifi = Cleared
  \* lost: the access point has dropped the station, and no network has been joined since
  /\ chip = [ready |-> TRUE, link |-> "DOWN", aim |-> NoNetwork, auth |-> "open", scan |-> FALSE, lost |-> FALSE]
  /\ addr = NoNetwork                                    \* the network that leased the address
  /\ told = [event |-> "none", network |-> NoNetwork]     \* the last event but scan and status
  /\ at = [pc |-> "idle", clear |-> FALSE]               \* where hw_poll stands: in a callback, and what it clears after it

Free == at.pc = "idle" \/ ~Patient
Tell(event, network) == IF wifi.callback THEN [event |-> event, network |-> network] ELSE told

\* The modes an access point can be given, and what the chip is asked for.
ApAuth == [open |-> "open", wpa_tkip |-> "wpa", wpa_aes |-> "wpa2", wpa2_aes |-> "wpa2", wpa2_tkip |-> "mixed"]
\* How a network is joined, from what a scan said of it and the key.
JoinAuth(auth, key) ==
  IF "open" \in auth THEN "open"
  ELSE IF "wpa3_sae" \in auth THEN "sae"
  ELSE IF auth \cap {"wpa2_aes", "wpa2_tkip", "wpa_aes"} # {} THEN "wpa2"
  ELSE IF "wpa_tkip" \in auth THEN "wpa"
  ELSE IF key THEN "wpa2" ELSE "open"
\* What the scan callback understands of the chip's auth_mode: 0x00, 0x05, anything else.
ScanAuth == [m \in {0, 5, 7} |-> CASE m = 0 -> {"open"} [] m = 5 -> {"wpa2_aes"} [] OTHER -> {}]

InitClient ==
  /\ Free /\ ~wifi.active /\ chip.ready
  /\ wifi' = [wifi EXCEPT !.callback = FALSE, !.ap = FALSE, !.state = Unknown, !.busy = {}, !.active = TRUE]
  /\ UNCHANGED <<chip, addr, told, at>>
InitAccesspoint(auth, key) ==
  /\ Free /\ ~wifi.active /\ chip.ready
  /\ auth \in DOMAIN ApAuth /\ (ApAuth[auth] # "open" => key)
  /\ wifi' = [wifi EXCEPT !.callback = FALSE, !.ap = TRUE, !.state = Unknown, !.busy = {}, !.active = TRUE]
  /\ UNCHANGED <<chip, addr, told, at>>
SetCallback(on) ==
  /\ Free /\ wifi.active
  /\ wifi' = [wifi EXCEPT !.callback = on]
  /\ told' = [event |-> "none", network |-> NoNetwork] /\ UNCHANGED <<chip, addr, at>>
\* cyw43_wifi_leave, and taking the interface down.
Left == [chip EXCEPT !.link = "DOWN", !.aim = NoNetwork]
Deinit ==
  /\ Free /\ wifi.active
  /\ chip' = IF wifi.ap THEN chip ELSE [Left EXCEPT !.scan = FALSE, !.lost = FALSE]
  /\ addr' = IF wifi.ap THEN addr ELSE NoNetwork          \* lwIP: the interface is down
  /\ wifi' = Cleared /\ told' = [event |-> "none", network |-> NoNetwork] /\ UNCHANGED at

Ours == wifi.active /\ ~wifi.ap
Scan ==
  /\ Free /\ Ours /\ wifi.busy = {} /\ (Patient => chip.link # "UP")
  /\ \/ UNCHANGED <<wifi, chip>>
     \/ /\ ~chip.scan /\ chip' = [chip EXCEPT !.scan = TRUE]
        /\ wifi' = [wifi EXCEPT !.busy = {"scanning"}, !.state = Unknown]
  /\ UNCHANGED <<addr, told, at>>
Connect(n, auth, key) ==
  /\ Free /\ Ours /\ wifi.busy = {} /\ (Patient => chip.link # "UP")
  /\ JoinAuth(auth, key) = "open" \/ key
  /\ \/ wifi' = [wifi EXCEPT !.state = Unknown, !.ts = FALSE, !.network = NoNetwork] /\ chip' = chip
     \/ /\ wifi' = [wifi EXCEPT !.state = Unknown, !.ts = FALSE, !.network = n, !.busy = {"joining"}]
        \* lwIP goes on saying UP of the network before until the chip has left it
        /\ \E link \in {"JOIN"} \cup ({chip.link} \cap {"UP"}) :
             chip' = [chip EXCEPT !.link = link, !.aim = IF link = "UP" THEN @ ELSE n, !.auth = JoinAuth(auth, key)]
  /\ UNCHANGED <<addr, told, at>>
Disconnect ==
  /\ Free /\ Ours /\ (Patient => wifi.busy \cap {"joining", "scanning"} = {} \/ addr = NoNetwork)
  /\ \/ /\ wifi.busy \cap {"scanning", "joining"} # {} /\ chip' = Left
        /\ wifi' = [wifi EXCEPT !.busy = @ \ {"scanning", "joining"}, !.state = Unknown, !.ts = FALSE, !.network = NoNetwork]
     \/ /\ wifi.busy \cap {"scanning", "joining"} = {} /\ chip.link \in {"JOIN", "NOIP", "UP"}
        /\ \/ UNCHANGED <<wifi, chip>>
           \/ /\ chip' = Left
              /\ wifi' = [wifi EXCEPT !.busy = @ \cup {"leaving"}, !.state = Unknown, !.ts = FALSE]
  /\ UNCHANGED <<addr, told, at>>

\* hw_wifi_get_address, which asks lwIP whatever the link is.
Address == IF wifi.active THEN addr ELSE NoNetwork

----------------------------------------------------------------------------
\* The chip, and lwIP over it.
Chip ==
  /\ \/ /\ chip.link = "JOIN" /\ chip.aim # NoNetwork
        /\ \E link \in {"NOIP", "FAIL", "NONET", "BADAUTH"} :
             /\ (link = "NOIP") => ((chip.aim \in Secured) <=> (chip.auth # "open"))
             /\ chip' = [chip EXCEPT !.link = link, !.aim = IF link = "NOIP" THEN @ ELSE NoNetwork]
        /\ addr' = addr
     \/ /\ chip.link = "NOIP" /\ chip' = [chip EXCEPT !.link = "UP", !.lost = FALSE] /\ addr' = chip.aim
     \/ /\ chip.link \in {"NOIP", "UP"} /\ chip' = [Left EXCEPT !.lost = TRUE] /\ addr' = addr
     \/ /\ chip.scan /\ chip' = [chip EXCEPT !.scan = FALSE] /\ addr' = addr
  /\ UNCHANGED <<wifi, told, at>>

\* The status of a connection, at most once a minute, before the rest.
StatusTold == wifi.ts /\ chip.link = "UP"
\* A bug the checks must see: the address stays.
Kept == addr
\* dhcp_release_and_stop, and the v6 addresses made invalid.
Released == NoNetwork

\* Everything is set before the callback; the network is cleared after it.
Tells(event, network, w, clear) ==
  /\ wifi' = w /\ told' = Tell(event, network) /\ UNCHANGED chip
  /\ at' = IF wifi.callback THEN [pc |-> "callback", clear |-> clear] ELSE at
Ended(flags) == [wifi EXCEPT !.busy = @ \ flags, !.state = Unknown]
All == {"scanning", "joining", "leaving"}

Poll ==
  /\ at.pc = "idle" /\ Ours /\ wifi.busy # {}
  /\ IF "scanning" \in wifi.busy
     THEN /\ ~chip.scan
          /\ wifi' = [wifi EXCEPT !.busy = @ \ {"scanning"}]
          /\ at' = IF wifi.callback THEN [pc |-> "callback", clear |-> FALSE] ELSE at
          /\ UNCHANGED <<chip, addr, told>>
     ELSE /\ chip.link # wifi.state
          /\ CASE chip.link = "DOWN" ->
                    Tells("disconnected", NoNetwork, Ended(All), TRUE) /\ addr' = Released
               [] chip.link = "JOIN" ->
                    /\ Tells("joining", wifi.network, [wifi EXCEPT !.state = "JOIN", !.busy = @ \cup {"joining"}], FALSE)
                    /\ UNCHANGED addr
               [] chip.link = "NOIP" ->
                    wifi' = [wifi EXCEPT !.state = "NOIP"] /\ UNCHANGED <<chip, addr, told, at>>
               [] chip.link = "UP" ->
                    /\ IF "joining" \in wifi.busy
                       THEN Tells("connected", wifi.network, [Ended({"joining"}) EXCEPT !.ts = TRUE], FALSE)
                       ELSE wifi' = [wifi EXCEPT !.state = "UP"] /\ UNCHANGED <<chip, told, at>>
                    /\ UNCHANGED addr
               [] chip.link \in {"FAIL", "NONET", "BADAUTH"} ->
                    Tells(chip.link, wifi.network, Ended({"joining"}), TRUE) /\ UNCHANGED addr
\* A chip driver that answers anything else ends everything with an error.
PollUnknown ==
  /\ at.pc = "idle" /\ Ours /\ wifi.busy # {} /\ "scanning" \notin wifi.busy
  /\ chip.link = "NOIP"
  /\ Tells("error", wifi.network, Ended(All), TRUE) /\ UNCHANGED addr
PollStatus ==
  /\ at.pc = "idle" /\ Ours /\ StatusTold /\ wifi.callback
  /\ at' = [pc |-> "callback", clear |-> FALSE] /\ UNCHANGED <<wifi, chip, addr, told>>
\* A scan result, from the chip; without a callback it stops the scan.
ScanResult ==
  /\ at.pc = "idle" /\ wifi.active /\ chip.scan
  /\ IF wifi.callback THEN at' = [pc |-> "callback", clear |-> FALSE] /\ chip' = chip
     ELSE chip' = [chip EXCEPT !.scan = FALSE] /\ at' = at
  /\ UNCHANGED <<wifi, addr, told>>
Return ==
  /\ at.pc = "callback"
  /\ wifi' = IF at.clear THEN [wifi EXCEPT !.network = NoNetwork] ELSE wifi
  /\ at' = [pc |-> "idle", clear |-> FALSE] /\ UNCHANGED <<chip, addr, told>>

Next ==
  \/ InitClient \/ Deinit \/ Scan \/ Disconnect \/ Chip
  \/ \E auth \in DOMAIN ApAuth \cup {"wep"}, key \in BOOLEAN : InitAccesspoint(auth, key)
  \/ \E on \in BOOLEAN : SetCallback(on)
  \/ \E n \in Networks, m \in {0, 5, 7}, key \in BOOLEAN : Connect(n, ScanAuth[m], key)
  \/ Poll \/ PollUnknown \/ PollStatus \/ ScanResult \/ Return

Spec == Init /\ [][Next]_vars

------------------------------------------------------------------------------
(* What the application was told is what is so, unless an access point has    *)
(* dropped the station (which nothing polls for): it was told it is connected *)
(* only to the network the chip has joined, until it leaves it; with nothing  *)
(* under way there is an address just while there is a connection; and no     *)
(* join goes on without a network that its end will name.                     *)
WifiSound ==
  Ours /\ ~chip.lost =>
    /\ told.event = "connected" /\ wifi.busy = {} =>
         chip.link = "UP" /\ told.network = chip.aim /\ wifi.network = chip.aim
    /\ wifi.busy = {} /\ Address # NoNetwork => chip.link = "UP" /\ Address = chip.aim
    /\ "joining" \in wifi.busy => wifi.network # NoNetwork
=============================================================================
