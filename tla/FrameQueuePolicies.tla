------------------------- MODULE FrameQueuePolicies -------------------------
(***************************************************************************)
(* The FrameQueuePolicy values the emulator builds (MelonInstance.cpp).    *)
(* scale is the renderer's resolution factor.  The fields are the ones     *)
(* FrameQueue reads; TreatBacklogTrimAsFastForwardSkip only selects a      *)
(* counter, and PreferOldestFrame is false in every policy.                *)
(***************************************************************************)
EXTENDS Naturals

BacklogDepth(scale) == IF scale > 1 THEN 2 ELSE 1

\* size is FRAME_QUEUE_SIZE.
LegacyFrameQueuePolicy(size) ==
    [depth |-> size - 1, steal |-> TRUE, reuse |-> TRUE, drop |-> FALSE,
     preserve |-> FALSE, legacy |-> TRUE]

VulkanRealtimeFrameQueuePolicy(scale) ==
    [depth |-> BacklogDepth(scale), steal |-> FALSE, reuse |-> TRUE,
     drop |-> FALSE, preserve |-> FALSE, legacy |-> FALSE]

VulkanLateRealtimeFrameQueuePolicy(scale) ==
    [VulkanRealtimeFrameQueuePolicy(scale) EXCEPT !.drop = TRUE]

VulkanFastForwardFrameQueuePolicy(scale) ==
    [depth |-> BacklogDepth(scale), steal |-> TRUE, reuse |-> FALSE,
     drop |-> FALSE, preserve |-> FALSE, legacy |-> FALSE]

\* makeFrameQueuePolicy(Renderer::Vulkan, scale)
VulkanFrameQueuePolicy(fastForward, scale) ==
    IF fastForward THEN VulkanFastForwardFrameQueuePolicy(scale)
    ELSE VulkanRealtimeFrameQueuePolicy(scale)

\* constrainGraphicsHardwareFrameQueuePolicy: temporalHistory stands for
\* temporal3dHistoryRequired on a device whose profile is Adreno or Mali.
ConstrainGraphicsHardware(policy, graphicsHardware, fastForward, temporalHistory) ==
    IF ~graphicsHardware \/ fastForward \/ temporalHistory THEN policy
    ELSE [depth |-> 1, steal |-> FALSE, reuse |-> FALSE, drop |-> FALSE,
          preserve |-> FALSE, legacy |-> policy.legacy]
=============================================================================
