---------------------------- MODULE MCUploadQueue ----------------------------
EXTENDS UploadQueue

AllJobs == Jobs

OnePage == [j \in Jobs |-> "p"]

\* cancel() of one job, expire_client() of the whole page.
OneOrAll == {{j} : j \in Jobs} \union {Jobs}
=============================================================================
