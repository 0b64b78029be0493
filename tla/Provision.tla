------------------------------ MODULE Provision ------------------------------
(***************************************************************************)
(* One-time provisioning of a blank TSE (ensure_tse_provisioned): every    *)
(* credential is taken from the configuration or from the settings table,  *)
(* or it is generated and stored, and then worm_tse_setup burns the three  *)
(* into the device.  A crash can fall between any two steps, the setup may *)
(* take effect although its answer is an error, and the operator may       *)
(* restart the server with other environment variables.                    *)
(*                                                                         *)
(* Some names begin with Provision so that a module can extend this one    *)
(* together with TimeSync, as UpkeepProofs does.                           *)
(***************************************************************************)
EXTENDS Naturals, Sequences

CONSTANTS
  Values,     \* PINs and PUKs
  NONE,       \* not configured, not stored, not set
  MaxBoots,   \* bound on starts of the server
  MaxFails    \* bound on failed statements and device calls

ASSUME ProvisionAssumption ==
  NONE \notin Values /\ MaxBoots \in Nat /\ MaxFails \in Nat

\* In the order in which they are loaded.
Credentials == <<"worm_admin_pin", "worm_admin_puk", "worm_time_admin_pin">>
Keys        == {"worm_admin_pin", "worm_admin_puk", "worm_time_admin_pin"}

VARIABLES
  env,       \* the credentials in the environment of this start
  seedRight, \* is the seed in it the one of the device's reseller?
  config,    \* g_config
  settings,  \* the rows of the settings table
  tse, burnt,\* the device: blank, ready or locked, and its credentials
  attempts,  \* the device: setups attempted with a wrong seed
  pc,        \* down, info, load, setup or up
  next,      \* the credential load_or_generate_credential is called for
  chosen,    \* admin_pin, admin_puk and time_admin_pin
  boots, fails, \* starts and faults so far
  given,     \* ghost: the values the operator has ever configured
  lost       \* ghost: a write failed and the code went on

tseVars == <<tse, burnt, attempts>>
start   == <<env, seedRight, boots, given>>
provisionVars ==
  <<start, config, settings, tseVars, pc, next, chosen, fails, lost>>

Maybe == Values \cup {NONE}

ProvisionTypeOK ==
  /\ env \in [Keys -> Maybe] /\ config \in [Keys -> Maybe]
  /\ settings \in [Keys -> Maybe]
  /\ tse \in {"blank", "ready", "locked"} /\ burnt \in [Keys -> Maybe]
  /\ attempts \in 0..3 /\ seedRight \in BOOLEAN
  /\ pc \in {"down", "info", "load", "setup", "up"}
  /\ next \in 1..4 /\ (pc = "load" => next <= 3) /\ chosen \in [Keys -> Maybe]
  /\ boots \in Nat /\ fails \in Nat
  /\ given \subseteq Keys \X Values /\ lost \in BOOLEAN

Nothing == [k \in Keys |-> NONE]

ProvisionInit ==
  /\ env = Nothing /\ seedRight = TRUE
  /\ config = Nothing /\ settings = Nothing
  /\ tse = "blank" /\ burnt = Nothing /\ attempts = 0
  /\ pc = "down" /\ next = 1 /\ chosen = Nothing
  /\ boots = 0 /\ fails = 0 /\ given = {} /\ lost = FALSE

\* A step that can fail does (f) or does not.
Fails(f) == IF f THEN fails < MaxFails /\ fails' = fails + 1
                 ELSE UNCHANGED fails

(***************************************************************************)
(* config_load reads the environment; everything else of the memory of an  *)
(* earlier run is gone.                                                    *)
(***************************************************************************)
Boot(e) ==
  /\ pc = "down" /\ boots < MaxBoots /\ boots' = boots + 1
  /\ env' = e /\ config' = e /\ seedRight' \in BOOLEAN
  /\ given' = given \cup {<<k, e[k]>> : k \in {j \in Keys : e[j] # NONE}}
  /\ pc' = "info" /\ next' = 1 /\ chosen' = Nothing
  /\ UNCHANGED <<settings, tseVars, fails, lost>>

\* The server stops or is killed, at any point.
Stop ==
  /\ pc # "down" /\ pc' = "down"
  /\ UNCHANGED <<start, config, settings, tseVars, next, chosen, fails, lost>>

(***************************************************************************)
(* ensure_tse_provisioned.                                                 *)
(***************************************************************************)
\* Defect: the setup does not depend on the device's state.
MustProvision_Always == TRUE

\* Nothing is done unless the device says it is uninitialized; the state
\* worm_tse_setup locks it in after three wrong seeds is another one.
MustProvision == tse = "blank"

Info ==
  /\ pc = "info"
  /\ \E f \in BOOLEAN :
       Fails(f) /\ pc' = IF ~f /\ MustProvision THEN "load" ELSE "up"
  /\ UNCHANGED <<start, config, settings, tseVars, next, chosen, lost>>

\* The stored value is used if it can be read (r: it cannot) ...
Stored(k, r) == IF r THEN NONE ELSE settings[k]

\* Defect: the generated value is not stored.
Generate_NotStored(k, v, f) == UNCHANGED <<settings, lost>>

\* ... and otherwise one is generated and stored before it is used anywhere.
\* The result of db_set_setting is ignored.
Generate(k, v, f) ==
  /\ settings' = IF f THEN settings ELSE [settings EXCEPT ![k] = v]
  /\ lost' = (lost \/ f)

LastLoaded == next = 3

\* load_or_generate_credential.
Load ==
  /\ pc = "load"
  /\ LET k == Credentials[next] IN
       \E v \in Values :
         /\ chosen' = [chosen EXCEPT ![k] = v]
         /\ \/ /\ config[k] = v /\ UNCHANGED <<settings, lost, fails>>
            \/ /\ config[k] = NONE /\ Stored(k, FALSE) = v
               /\ UNCHANGED <<settings, lost, fails>>
            \/ /\ config[k] = NONE
               /\ \E r, f \in BOOLEAN :
                    /\ ~(r /\ f) /\ Fails(r \/ f)
                    /\ Stored(k, r) = NONE /\ Generate(k, v, f)
  /\ next' = next + 1 /\ pc' = IF LastLoaded THEN "setup" ELSE "load"
  /\ UNCHANGED <<start, config, tseVars>>

\* What worm_tse_setup does to the device (external): a wrong seed is
\* counted, and the third one locks it (log message at line 742).
SetupFails ==
  /\ ~seedRight /\ attempts' = attempts + 1
  /\ tse' = IF attempts' = 3 THEN "locked" ELSE tse
  /\ UNCHANGED burnt

SetupWorks == tse' = "ready" /\ burnt' = chosen /\ UNCHANGED attempts

\* The configuration takes the new credentials over only on success.
Setup ==
  /\ pc = "setup" /\ pc' = "up"
  /\ \/ SetupFails /\ UNCHANGED <<config, fails>>
     \/ seedRight /\ SetupWorks /\ config' = chosen /\ UNCHANGED fails
     \/ /\ seedRight /\ Fails(TRUE) /\ UNCHANGED config
        /\ SetupWorks \/ UNCHANGED tseVars
  /\ UNCHANGED <<start, settings, next, chosen, lost>>

ProvisionNext == \/ \E e \in [Keys -> Maybe] : Boot(e)
                 \/ Stop \/ Info \/ Load \/ Setup

ProvisionSpec == ProvisionInit /\ [][ProvisionNext]_provisionVars

(***************************************************************************)
(* Properties.                                                             *)
(***************************************************************************)
\* "Admin/TimeAdmin PIN and PUK changes made via worm_tse_setup are permanent
\* on the physical TSE": wherever the server is killed, whatever is
\* reconfigured between two attempts and even if the setup took effect with
\* an error, each credential burnt into the device is one that the operator
\* has given or that is stored in the database; unless its write failed.
Recoverable ==
  tse = "ready" /\ ~lost =>
    \A k \in Keys : burnt[k] = settings[k] \/ <<k, burnt[k]>> \in given

\* A device that once has credentials keeps them, and so does the database
\* from then on.
Permanent ==
  [][tse = "ready" => UNCHANGED <<tse, burnt, settings>>]_provisionVars

\* "persist to the local DB so subsequent restarts (without the env vars set)
\* keep using the same credentials the hardware now actually expects"
\* (tse_worm.c:673): a credential never configured is the device's.
RestartUsesStored ==
  pc = "up" /\ tse = "ready" /\ ~lost /\ fails = 0 =>
    \A k \in Keys : (\A v \in Values : <<k, v>> \notin given)
                     => config[k] = burnt[k]
=============================================================================
