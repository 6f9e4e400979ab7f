\* A TCP, a UDP and an ICMP flow over a table of two windows, three packets.
CONSTANTS
    tcp = tcp
    udp = udp
    icmp = icmp
    Flows = {tcp, udp, icmp}
    TcpFlows = {tcp}
    IcmpFlows = {icmp}
    Times = {0, 1, 2}
    Timeout = 2
    MaxActive = 2
    MaxAdmissions = 3
    MaxPackets = 3
SPECIFICATION StreamSpec
INVARIANTS
    DeliveredInOrder
    Backpressure
    EverythingDelivered
PROPERTIES
    NoFlowBeforePacket
