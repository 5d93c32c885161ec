-------------------------- MODULE MCLockedBusiness --------------------------
\* Instances of LockedBusiness for TLC; the callers are model values named in
\* Locked.cfg.
EXTENDS LockedBusiness
=============================================================================
