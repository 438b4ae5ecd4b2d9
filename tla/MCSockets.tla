---- MODULE MCSockets ----
\* The two socket hooks: two mounts, two faults, three messages.  Four sockets
\* can exist at once: two effect runs of the dev build, one that is closing and
\* one that a second timer opens.
EXTENDS Sockets

====
