---------------------------- MODULE MCFrameQueue ----------------------------
(* A small instance of FrameQueue: the policies of the Vulkan renderer.    *)
EXTENDS FrameQueue, FrameQueuePolicies

VulkanPolicies ==
    {VulkanRealtimeFrameQueuePolicy(2), VulkanLateRealtimeFrameQueuePolicy(2),
     VulkanFastForwardFrameQueuePolicy(1),
     [VulkanRealtimeFrameQueuePolicy(2) EXCEPT !.preserve = TRUE]}
=============================================================================
