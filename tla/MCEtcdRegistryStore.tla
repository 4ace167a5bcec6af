----------------------- MODULE MCEtcdRegistryStore -----------------------
\* TLC instance of EtcdRegistryStore.
EXTENDS EtcdRegistryStore

=============================================================================
