--------------------------- MODULE WindowHandoff ---------------------------
(***************************************************************************)
(* Two child surfaces of the game window show frames: SDL's, which GL      *)
(* swaps into, and above it the Vulkan swapchain's.  This module is the    *)
(* handoff between them: the ownership flags around CGLFlushDrawable       *)
(* (runtime/shims/appkit/egl-config.m) and the frame callbacks of the      *)
(* Wayland helper (runtime/browser/wayland.cpp), which unmap the replaced  *)
(* surface only once the compositor has accepted the replacement.          *)
(*                                                                         *)
(* A surface's content is the serial of the frame it shows, 0 unmapped.    *)
(* Helper calls run to completion on its UI thread, so each is one step;   *)
(* so does a flush, which holds presentation_lock.  Surface synchronization *)
(* (wl_subsurface_set_sync) and geometry are left out.                     *)
(***************************************************************************)
EXTENDS Naturals

VARIABLES owns,           \* vulkan_owns_presentation
          hidePending,    \* hide_vulkan_pending
          frameReady,     \* gl_frame_ready
          glHandoff,      \* gl_handoff_callback is pending
          vkHandoff,      \* vulkan_handoff_callback is pending
          current,        \* a browser page is open
          browserVisible, \* pump has noticed it (can_present is its negation)
          surface,        \* vulkan_surface exists
          glTex,          \* the frame in GL's layer texture
          glBuf, vkBuf    \* what each surface shows

flagVars == <<owns, hidePending, frameReady>>
handoffVars == <<glHandoff, vkHandoff>>
browserVars == <<current, browserVisible>>
contentVars == <<glTex, glBuf, vkBuf>>
windowVars == <<flagVars, handoffVars, browserVars, surface, contentVars>>

\* The topmost mapped surface.
Shown == IF vkBuf # 0 THEN vkBuf ELSE glBuf

WindowInit ==
  /\ owns = FALSE /\ hidePending = FALSE /\ frameReady = FALSE
  /\ glHandoff = FALSE /\ vkHandoff = FALSE
  /\ current = FALSE /\ browserVisible = FALSE
  /\ surface = FALSE
  /\ glTex = 0 /\ glBuf = 0 /\ vkBuf = 0

\* No page is open, nor still to be noticed: the test of every handoff.
Unobstructed == ~current /\ ~browserVisible

-----------------------------------------------------------------------------
(* Calls of the presenter. *)

\* rbxWaylandSetVulkanOwnership(1), then rbx_wayland_vulkan_takeover.
Takeover ==
  /\ owns' = TRUE /\ hidePending' = FALSE /\ frameReady' = FALSE
  /\ glHandoff' = FALSE /\ vkHandoff' = FALSE
  /\ UNCHANGED contentVars

\* rbx_wayland_vulkan_cancel_retire_gl, then rbxWaylandDeferVulkanHide.
DeferHide ==
  /\ owns' = FALSE /\ hidePending' = TRUE /\ frameReady' = FALSE
  /\ vkHandoff' = FALSE
  /\ UNCHANGED <<glHandoff, contentVars>>

\* rbx_wayland_vulkan_retire_gl: ask for a frame callback of the Vulkan surface.
RetireGL == vkHandoff' = (vkHandoff \/ Unobstructed)

\* rbxWaylandGLFrameReady
GLFrameReady == frameReady' = (frameReady \/ hidePending)

-----------------------------------------------------------------------------
(* The main thread and the UI thread. *)

\* Mutant: a flush during the handoff does not wait for a copied drawable.
CGLFlushDrawableUnready ==
  /\ ~owns /\ ~browserVisible /\ glTex # 0
  /\ glBuf' = glTex
  /\ hidePending' = FALSE
  /\ IF hidePending
     THEN /\ vkHandoff' = FALSE
          /\ glHandoff' = (glHandoff \/ (surface /\ Unobstructed))
     ELSE UNCHANGED handoffVars
  /\ UNCHANGED <<owns, frameReady, browserVars, surface, glTex, vkBuf>>

\* CGLFlushDrawable with a successful swap; a failed or refused one changes
\* nothing.  The first after a fallback calls rbx_wayland_vulkan_hide.
CGLFlushDrawable ==
  /\ ~owns
  /\ hidePending => frameReady
  /\ ~browserVisible
  /\ glTex # 0
  /\ glBuf' = glTex
  /\ hidePending' = FALSE
  /\ IF hidePending
     THEN /\ vkHandoff' = FALSE
          /\ glHandoff' = (glHandoff \/ (surface /\ Unobstructed))
     ELSE UNCHANGED handoffVars
  /\ UNCHANGED <<owns, frameReady, browserVars, surface, glTex, vkBuf>>

\* complete_gl_handoff: the compositor shows the GL frame; unmap Vulkan.
CompleteGLHandoff ==
  /\ glHandoff /\ glBuf # 0
  /\ glHandoff' = FALSE
  /\ vkBuf' = IF Unobstructed THEN 0 ELSE vkBuf
  /\ UNCHANGED <<flagVars, vkHandoff, browserVars, surface, glTex, glBuf>>

\* complete_vulkan_handoff: the compositor shows the Vulkan frame; unmap GL.
CompleteVulkanHandoff ==
  /\ vkHandoff /\ vkBuf # 0
  /\ vkHandoff' = FALSE
  /\ glBuf' = IF Unobstructed THEN 0 ELSE glBuf
  /\ UNCHANGED <<flagVars, glHandoff, browserVars, surface, glTex, vkBuf>>

\* RBX_WL_HIDE: the window is hidden; an unfinished fallback ends at once.
HideWindow ==
  /\ glHandoff' = FALSE /\ vkHandoff' = FALSE
  /\ vkBuf' = IF glHandoff THEN 0 ELSE vkBuf
  /\ UNCHANGED <<flagVars, browserVars, surface, glTex, glBuf>>

\* GTK opens or closes a page ...
TogglePage ==
  /\ current' = ~current
  /\ UNCHANGED <<flagVars, handoffVars, browserVisible, surface, contentVars>>

\* ... and the next pump notices; opening unmaps both surfaces.
PumpBrowser ==
  /\ current # browserVisible
  /\ browserVisible' = current
  /\ IF current THEN /\ glHandoff' = FALSE /\ vkHandoff' = FALSE
                     /\ glBuf' = 0 /\ vkBuf' = 0
                ELSE UNCHANGED <<handoffVars, glBuf, vkBuf>>
  /\ UNCHANGED <<flagVars, current, surface, glTex>>

=============================================================================
