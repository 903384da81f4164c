----------------------------- MODULE AccessPoint -----------------------------
(***************************************************************************)
(* The network of a device as services/ap.py and services/netifaces.py     *)
(* change it: NetworkManager, the virtual interface ap0 with the access    *)
(* point's connection, and the Wi-Fi profiles.  The state is one record;   *)
(* each operator below is one call: Works says whether the host accepts    *)
(* it, the other what the host is like afterwards.                         *)
(***************************************************************************)
CONSTANTS Ssids, None

VARIABLE net    \* the host's network, and the profiles on its disk

Keys == {"right", "wrong"}

(* What is configured and running; nmcli allows several profiles of one name. *)
Networks == [manager : BOOLEAN, supplicant : BOOLEAN, ap0 : BOOLEAN,
             apProfile : BOOLEAN, apUp : BOOLEAN,
             profiles : SUBSET (Ssids \X Keys), wifi : Ssids \cup {None}]

HasProfile(s) == \E k \in Keys : <<s, k>> \in net.profiles

(* After a boot: units run again, what was only in the kernel is gone. *)
Booted == [net EXCEPT !.manager = TRUE, !.supplicant = TRUE, !.ap0 = FALSE,
                      !.apUp = FALSE, !.wifi = None]

ManagerStopped == [net EXCEPT !.manager = FALSE, !.apUp = FALSE, !.wifi = None]
SupplicantStopped == [net EXCEPT !.supplicant = FALSE, !.wifi = None]
ManagerRestarted == [net EXCEPT !.manager = TRUE, !.supplicant = TRUE,
                                !.apUp = FALSE, !.wifi = None]

InterfaceDeleted == [net EXCEPT !.ap0 = FALSE, !.apUp = FALSE]

(* wpa_supplicant holds the phy; an interface of that name may be left over. *)
InterfaceWorks == ~net.supplicant /\ ~net.ap0
InterfaceAdded == [net EXCEPT !.ap0 = TRUE]

ProfileWorks == net.manager
ProfileAdded == [net EXCEPT !.apProfile = TRUE]

UpWorks == net.manager /\ net.apProfile /\ net.ap0
PointUp == [net EXCEPT !.apUp = TRUE]

(* nmcli rejects taking down what is not up, and deleting what is not there. *)
DownWorks == net.manager /\ net.apUp
PointDown == [net EXCEPT !.apUp = FALSE]

DeleteWorks == net.manager /\ net.apProfile
ProfileDeleted == [net EXCEPT !.apProfile = FALSE, !.apUp = FALSE]

(* Wi-Fi profiles: nmcli connection delete, add, up.  A delete takes every *)
(* profile of the name; an add never replaces one.                         *)
ForgetWorks(s) == net.manager /\ HasProfile(s)
Forgotten(s) == [net EXCEPT !.profiles = @ \ ({s} \X Keys),
                            !.wifi = IF @ = s THEN None ELSE @]
Stored(s, k) == [net EXCEPT !.profiles = @ \cup {<<s, k>>}]
Associated(s) == [net EXCEPT !.wifi = s]
Disassociated == [net EXCEPT !.wifi = None]

(* NetworkManager joins a profile it has on its own (autoconnect yes). *)
AutoConnect ==
  /\ net.manager /\ net.supplicant /\ net.wifi = None
  /\ \E s \in Ssids : <<s, "right">> \in net.profiles /\ net' = Associated(s)
=============================================================================
