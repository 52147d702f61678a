------------------------------ MODULE RegBlock ------------------------------
(***************************************************************************)
(* rtl/drone_controller/reg/drone_controller_reg.sv: the register block of *)
(* the drone controller behind its OBI subordinate port.  One request is   *)
(* served at a time: captured in an idle cycle, granted and decoded in the *)
(* next, answered in the one after.  The PWM and pointer registers keep    *)
(* what was written; the CMD fields are singlepulse and fall back after    *)
(* one cycle.  All writes are whole words, as the C driver issues them.    *)
(*                                                                         *)
(* cpuif holds the captured request while cpuif_req is set; the holding    *)
(* registers are read under cpuif_req only, so their stale contents are    *)
(* not kept.  A request has the fields reg, we, value (wdata as a stored   *)
(* value) and bits (wdata as the set of CMD bits that are 1).              *)
(***************************************************************************)
CONSTANTS NoReq,        \* no request on the bus
          StoredRegs    \* registers that keep their value

VARIABLES is_active,    \* a request is being served
          cpuif,        \* the request being decoded, or NoReq
          rsp_pending,  \* a response is on the R channel
          stored,       \* field_storage of the registers that keep their value
          cmd           \* CMD fields that are 1 in this cycle

regvars == <<is_active, cpuif, rsp_pending, stored, cmd>>

Init(reset) ==
  /\ is_active = FALSE
  /\ cpuif = NoReq
  /\ rsp_pending = FALSE
  /\ stored = [r \in StoredRegs |-> reset]
  /\ cmd = {}

Gnt    == cpuif # NoReq        \* gnt_q is loaded with the same value as cpuif_req
Rvalid == rsp_pending

\* The A channel: capture a request only while nothing is being served.
Capture(req) ==
  cpuif' = IF is_active THEN NoReq ELSE req

\* Mutant: only writes are acknowledged.
RespondToWrites ==
  rsp_pending' = (cpuif # NoReq /\ cpuif.we)

\* The R channel: the manager is always ready, so a response lasts one cycle.
Respond ==
  rsp_pending' = (cpuif # NoReq)

Occupy(req) ==
  is_active' = IF rsp_pending THEN FALSE ELSE is_active \/ req # NoReq

\* Field logic: the decoded write strobe loads its register ...
StoredFields ==
  stored' = IF cpuif # NoReq /\ cpuif.we /\ cpuif.reg \in StoredRegs
            THEN [stored EXCEPT ![cpuif.reg] = cpuif.value] ELSE stored

\* ... and the fields of CMD, singlepulse, are cleared in every other cycle.
CmdFields ==
  cmd' = IF cpuif # NoReq /\ cpuif.we /\ cpuif.reg = "CMD" THEN cpuif.bits ELSE {}

Step(req) == Capture(req) /\ Respond /\ Occupy(req) /\ StoredFields /\ CmdFields
=============================================================================
