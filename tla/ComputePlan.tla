------------------------------ MODULE ComputePlan ------------------------------
(* Where inference may run: the hardware probe (foundation/compute.cpp) and the
   execution plan made of it (app/runtime_execution_plan.cpp).  Pure functions
   of a machine, of the models that exist and of what was asked for.

   A machine is [display, driver, devices, engines, cuda]: what DXGI shows
   (always "nvidia" on Linux, which does not look), how far the CUDA driver
   library comes, the capability of each device, whether TensorRT is compiled
   in, and what an inference with the ONNX CUDA provider does. *)
LOCAL INSTANCE Naturals
LOCAL INSTANCE Sequences
LOCAL INSTANCE FiniteSetsExt

Displays == {"nvidia", "other", "unreadable"}
Drivers == {"ready", "absent", "incomplete", "dead", "unversioned", "old"}
Devices == {"sm75", "older", "unreadable"}

NoDevice == 0

Probe(status, devices) == [status |-> status, devices |-> devices]

(* The loop over the devices: it gives up at the first one it cannot query. *)
ListDevices(devices) ==
  LET unreadable == {i \in DOMAIN devices : devices[i] = "unreadable"}
  IN  IF unreadable # {} THEN Probe("probe_error", SubSeq(devices, 1, Min(unreadable) - 1))
      ELSE IF \E i \in DOMAIN devices : devices[i] = "sm75" THEN Probe("cuda_ready", devices)
      ELSE Probe("driver_unavailable", devices)

(* libcuda or nvcuda: the same steps on both systems. *)
ProbeDriver(machine) ==
  CASE machine.driver \in {"absent", "dead"} -> Probe("driver_unavailable", <<>>)
    [] machine.driver \in {"incomplete", "unversioned"} -> Probe("probe_error", <<>>)
    [] machine.driver = "old" -> Probe("driver_too_old", <<>>)
    [] machine.driver = "ready" -> ListDevices(machine.devices)

(* probeHardware: Windows asks DXGI for an NVIDIA adapter first. *)
ProbeHardware(machine) ==
  CASE machine.display = "unreadable" -> Probe("probe_error", <<>>)
    [] machine.display = "other" -> Probe("no_nvidia_adapter", <<>>)
    [] machine.display = "nvidia" -> ProbeDriver(machine)

HardwareProbeExitCode(status) ==
  CASE status = "cuda_ready" -> 0
    [] status = "no_nvidia_adapter" -> 10
    [] status = "driver_unavailable" -> 11
    [] status = "probe_error" -> 12
    [] status = "driver_too_old" -> 13

(* selectCompatibleCudaDevice; NoDevice where it throws. *)
SelectCudaDevice(devices, wanted) ==
  LET able == {i \in DOMAIN devices : devices[i] = "sm75"}
  IN  IF wanted # NoDevice
        THEN IF wanted \in able THEN wanted ELSE NoDevice
        ELSE IF able = {} THEN NoDevice ELSE Min(able)

--------------------------------------------------------------------------------
Cuda(provider) == [backend |-> "cuda", provider |-> provider]
Cpu == [backend |-> "cpu", provider |-> "onnxCpu"]
Nowhere == [backend |-> "none", provider |-> "none"]

(* resolveRequestedComputeBackend *)
Requested(explicit, installed) ==
  CASE explicit # "unset" -> explicit
    [] installed # "unset" -> installed
    [] OTHER -> "auto"

(* resolveRuntimeModelRequirements: models is a set of <<role, kind>>. *)
Complete(models, kind, mode) ==
  /\ <<"ppe", kind>> \in models
  /\ mode = "ppe-fall" => <<"pose", kind>> \in models

(* The provider for CUDA; the ONNX one is compiled into every build. *)
CudaProvider(machine, models, mode) ==
  CASE machine.engines /\ Complete(models, "engine", mode) -> "tensorrt"
    [] Complete(models, "onnx", mode) -> "onnxCuda"
    [] OTHER -> "none"

(* selectComputeBackend; Nowhere where it throws. *)
SelectComputeBackend(requested, status, machine, models, mode) ==
  LET provider == CudaProvider(machine, models, mode)
      onnx == Complete(models, "onnx", mode)
  IN  CASE requested = "cpu" -> IF onnx THEN Cpu ELSE Nowhere
        [] requested # "cpu" /\ status = "cuda_ready" /\ provider # "none" -> Cuda(provider)
        [] requested = "auto" /\ (status # "cuda_ready" \/ provider = "none") ->
             IF onnx THEN Cpu ELSE Nowhere
        [] OTHER -> Nowhere

(* A bug: forced CUDA falls back too. *)
FallbackOfCuda(requested, selection, models, mode) ==
  IF selection.backend = "cuda" /\ Complete(models, "onnx", mode) THEN Cpu ELSE Nowhere

(* planRuntimeExecution: only Auto may fall back. *)
Fallback(requested, selection, models, mode) ==
  IF requested = "auto" /\ selection.backend = "cuda" /\ Complete(models, "onnx", mode)
    THEN Cpu ELSE Nowhere
================================================================================
