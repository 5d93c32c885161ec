---------------------- MODULE MCConnectableRepository ----------------------
\* ConnectableRepository for TLC; Connectable.cfg names the subscribers.
EXTENDS ConnectableRepository
=============================================================================
