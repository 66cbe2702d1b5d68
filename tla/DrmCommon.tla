------------------------------ MODULE DrmCommon ------------------------------
(***************************************************************************)
(* None is what DRM finds where there is nothing: no file, no folder, no path,  *)
(* no key, no handler, no error.                                            *)
(***************************************************************************)
CONSTANT None
=============================================================================
